------------------------ MODULE ArchiveAndMount_proofs ------------------------
(***************************************************************************)
(* What is proved of the archive handle, for any number of threads, and of *)
(* sqshfs, for any number of archives and directory handles.  Each module  *)
(* has inductive invariants of its own.                                    *)
(*                                                                         *)
(* OpeningInv, of ArchiveOpen: an archive is mapped from one version of    *)
(* its source, and leaves nothing behind.  Its parts are about the opener, *)
(* who is alone until the archive is open (NobodyMaps, Progress), about    *)
(* the descriptor of a file mapper (Descriptors), and about the threads of *)
(* an open archive, of which only the one with the lock of a curl mapper   *)
(* looks at its handle (Locked).                                           *)
(*                                                                         *)
(* IInv, of Archive: the tables of an archive are set up once.  Whoever    *)
(* changes anything is inside a getter, and only one thread is (LockOK).   *)
(*                                                                         *)
(* HandlesSafe, of Sqshfs: what a directory handle has listed ascends, and *)
(* its iterator knows the name that came last.  KnownExported and          *)
(* KnownResolve: the inode map still leads the kernel to what it was told  *)
(* of.  Both hold whatever the bytes of an archive are.  Of an archive     *)
(* that is laid out as a writer does it (Layout), the windows of a table   *)
(* are shown to hold the bytes that belong there, wherever a reader comes  *)
(* from (Rests, MetaAdvanced); from that follow the inodes (TablesHold),   *)
(* what comes next in a listing (EntryTold), in an index and among         *)
(* attributes, and of HandlesFollow, which says how far a handle has come, *)
(* that listings are complete.                                             *)
(***************************************************************************)
EXTENDS Archive, ArchiveOpen, Sqshfs, SequenceTheorems, WellFoundedInduction, TLAPS

-----------------------------------------------------------------------------
(* Opening, mapping and closing: ArchiveOpen *)

Stages == {"closed", "init", "cleanup", "open", "crashed"}
Impls == {"mmap", "curl", "static"}
Versions == Version \cup {Gone}
Steps == {"idle", "lock", "transfer", "check", "unlock"}
Mappings == [block : Nat, version : Versions]
Mappers == [impl : Impls \cup {"none"}, fd : Nat, curl : BOOLEAN, cache : Versions, version : Versions]
Works == [step : Steps, block : Nat, buffer : Versions]
Everyone == Client \cup {Opener}

OpeningTypeOK ==
    /\ stage \in Stages
    /\ config \in [impl : Impls, offset : 0..1]
    /\ got \in 0..8
    /\ mapper \in Mappers
    /\ descriptors \in [Descriptor -> {"free", "process", "archive"}]
    /\ source \in Versions
    /\ user \in Everyone
    /\ response \in Versions
    /\ work \in [Client -> Works]
    /\ mapped \in [Everyone -> Mappings]

\* Until the archive is open, and when it is closed, no thread does anything with it.
NobodyMaps == stage # "open" => \A t \in Client : work[t] = NoWork /\ mapped[t] = NoMapping

\* What has been set up at each stage.
Progress ==
    /\ stage \in {"closed", "crashed"} => got = 0 /\ mapped[Opener] = NoMapping
    /\ stage = "init" => got < 8 /\ (got < 7 => mapped[Opener] = NoMapping)
    /\ stage = "init" /\ got < 4 => mapper = NoMapper
    /\ stage = "open" => got = 8
    /\ got >= 7 => mapped[Opener].block = config.offset

\* A descriptor of the archive is the one that its mapper knows.
Descriptors ==
    /\ \A d \in Descriptor : descriptors[d] = "archive" =>
          mapper.impl = "mmap" /\ mapper.fd = d /\ stage \notin {"closed", "crashed"}
    /\ got >= 4 /\ mapper.impl = "mmap" => mapper.fd \in Descriptor /\ descriptors[mapper.fd] = "archive"

\* The handle is used by the thread that has the lock, and a download that is being checked is
\* that of its last transfer.
InTransfer == {"transfer", "check", "unlock"}
Locked ==
    \A t \in Client : /\ work[t].step \in InTransfer => user = t
                      /\ work[t].step = "check" => work[t].buffer = response
                      /\ work[t].step = "idle" => work[t] = NoWork

OpeningInv == OpeningTypeOK /\ NobodyMaps /\ Progress /\ Descriptors /\ Locked /\ OneVersion
-----------------------------------------------------------------------------
\* What is pending at each place of the order.
LEMMA OrderFacts ==
    /\ Len(Order) = 8
    /\ got \in 0..7 =>
          (Pending = "mapper" <=> got = 3) /\ (Pending = "superblock" <=> got = 6)
  BY DEF Order, Pending

LEMMA InitHolds == OpeningInit => OpeningInv
  <1> SUFFICES ASSUME OpeningInit PROVE OpeningInv
    OBVIOUS
  <1> USE DEF OpeningInit
  <1>1. OpeningTypeOK
    BY DEF OpeningTypeOK, Stages, Impls, Everyone, Mappers, NoMapper, Versions, Nothing, Works, Steps,
           NoWork, Mappings, NoMapping
  <1>2. NobodyMaps /\ Progress /\ Locked /\ OneVersion
    BY DEF NobodyMaps, Progress, Locked, OneVersion, NoWork, InTransfer, Everyone
  <1>3. Descriptors
    BY DEF Descriptors
  <1> QED BY <1>1, <1>2, <1>3 DEF OpeningInv

-----------------------------------------------------------------------------
(* Set-up *)

LEMMA StepOpenArchive ==
    ASSUME OpeningInv, NEW impl \in Impls, NEW offset \in 0..1, sqsh_archive_open(impl, offset)
    PROVE  OpeningInv'
  <1> USE DEF sqsh_archive_open, OpeningInv, curlVars
  <1>1. OpeningTypeOK'
    BY DEF OpeningTypeOK, Stages, Mappers, NoMapper, Versions, Nothing
  <1>2. NobodyMaps' /\ Progress' /\ Locked'
    BY DEF NobodyMaps, Progress, Locked, InTransfer
  <1>3. Descriptors'
    BY DEF Descriptors, Progress
  <1>4. OneVersion'
    BY DEF OneVersion, NobodyMaps, Progress
  <1> QED BY <1>1, <1>2, <1>3, <1>4

\* A step that sets something up, or fails to, and leaves the mapper and what is mapped alone.
LEMMA StepAcquire ==
    ASSUME OpeningInv, Acquire
    PROVE  OpeningInv'
  <1> USE DEF Acquire, OpeningInv, curlVars
  <1>1. got \in 0..7 /\ got # 3 /\ got # 6
    BY OrderFacts DEF Progress, OpeningTypeOK
  <1>2. \/ got' = got + 1 /\ stage' = IF got + 1 = 8 THEN "open" ELSE "init"
        \/ got' = got /\ stage' = "cleanup"
    BY OrderFacts DEF Succeed, Fail
  <1>3. OpeningTypeOK'
    BY <1>1, <1>2 DEF OpeningTypeOK, Stages
  <1>4. NobodyMaps' /\ Locked' /\ OneVersion'
    BY <1>2 DEF NobodyMaps, Locked, InTransfer, OneVersion
  <1>5. Progress'
    BY <1>1, <1>2 DEF Progress
  <1>6. Descriptors'
    BY <1>1, <1>2 DEF Descriptors, OpeningTypeOK
  <1> QED BY <1>3, <1>4, <1>5, <1>6

\* A mapper is set up, or fails to be, before anything is mapped; the archive has the descriptors
\* that the new mapper has.
LEMMA StepMapper ==
    ASSUME OpeningInv, stage = "init", got = 3, mapper' \in Mappers,
           \/ got' = got + 1 /\ stage' = "init"
              /\ (mapper'.impl = "mmap" => mapper'.fd \in Descriptor /\ descriptors'[mapper'.fd] = "archive")
           \/ got' = got /\ stage' = "cleanup",
           descriptors' \in [Descriptor -> {"free", "process", "archive"}],
           \A d \in Descriptor : descriptors'[d] = "archive" =>
               \/ descriptors[d] = "archive"
               \/ mapper'.impl = "mmap" /\ mapper'.fd = d,
           UNCHANGED <<config, source, curlVars, mapped>>
    PROVE  OpeningInv'
  <1> USE DEF OpeningInv, curlVars
  <1>1. OpeningTypeOK'
    BY DEF OpeningTypeOK, Stages
  <1>2. NobodyMaps' /\ Locked'
    BY DEF NobodyMaps, Locked, InTransfer
  <1>3. Progress'
    BY DEF Progress
  <1>4. Descriptors'
    <2>1. \A d \in Descriptor : descriptors[d] # "archive"
      BY DEF Descriptors, Progress, NoMapper
    <2> QED BY <2>1 DEF Descriptors
  <1>5. OneVersion'
    BY DEF OneVersion, NobodyMaps, Progress
  <1> QED BY <1>1, <1>2, <1>3, <1>4, <1>5

LEMMA MapperReadyFacts ==
    ASSUME NEW version, MapperReady(version), got = 3
    PROVE  \/ got' = got + 1 /\ stage' = "init"
           \/ got' = got /\ stage' = "cleanup"
  BY OrderFacts DEF MapperReady, Succeed, Fail

LEMMA MapperPending ==
    ASSUME OpeningInv, stage = "init", Pending = "mapper"
    PROVE  got = 3
  BY OrderFacts DEF OpeningInv, Progress, OpeningTypeOK

LEMMA StepInitMmap ==
    ASSUME OpeningInv, InitMmap
    PROVE  OpeningInv'
  <1> USE DEF InitMmap
  <1>1. got = 3 /\ stage = "init"
    BY MapperPending
  <1>2. CASE mapper' = [NoMapper EXCEPT !.impl = "mmap"] /\ Fail /\ UNCHANGED descriptors
    <2>1. mapper' \in Mappers
      BY <1>2 DEF Mappers, NoMapper, Impls, Versions, Nothing
    <2> QED BY <1>1, <1>2, <2>1, StepMapper DEF Fail, OpeningInv, OpeningTypeOK
  <1>3. ASSUME NEW fd \in Descriptor,
               descriptors' = [descriptors EXCEPT ![fd] = "archive"],
               mapper' = [NoMapper EXCEPT !.impl = "mmap", !.fd = fd, !.version = source],
               MapperReady(source)
        PROVE  OpeningInv'
    <2>1. mapper' \in Mappers /\ mapper'.impl = "mmap" /\ mapper'.fd = fd
      BY <1>3, DescriptorAssumption DEF OpeningInv, OpeningTypeOK, Mappers, NoMapper, Impls, Versions, Nothing
    <2>2. /\ descriptors' \in [Descriptor -> {"free", "process", "archive"}]
          /\ descriptors'[fd] = "archive"
          /\ \A d \in Descriptor \ {fd} : descriptors'[d] = descriptors[d]
      BY <1>3 DEF OpeningInv, OpeningTypeOK
    <2> QED BY <1>1, <1>3, <2>1, <2>2, MapperReadyFacts, StepMapper
  <1> QED BY <1>2, <1>3

LEMMA StepInitStatic ==
    ASSUME OpeningInv, InitStatic
    PROVE  OpeningInv'
  <1> USE DEF InitStatic
  <1>1. got = 3 /\ stage = "init"
    BY MapperPending
  <1>2. mapper' \in Mappers /\ mapper'.impl = "static"
    BY DEF OpeningInv, OpeningTypeOK, Mappers, NoMapper, Impls, Versions, Nothing
  <1> QED BY <1>1, <1>2, MapperReadyFacts, StepMapper DEF OpeningInv, OpeningTypeOK

LEMMA StepInitCurl ==
    ASSUME OpeningInv, InitCurl
    PROVE  OpeningInv'
  <1>1. got = 3 /\ stage = "init" /\ UNCHANGED <<config, descriptors, source, curlVars, mapped>>
    BY MapperPending DEF InitCurl
  <1>2. CASE Fail /\ \E curl \in BOOLEAN : mapper' = [NoMapper EXCEPT !.impl = "curl", !.curl = curl]
    <2>1. PICK curl \in BOOLEAN : mapper' = [NoMapper EXCEPT !.impl = "curl", !.curl = curl]
      BY <1>2
    <2>2. mapper' \in Mappers /\ mapper'.impl = "curl"
      BY <2>1 DEF Mappers, NoMapper, Impls, Versions, Nothing
    <2> QED BY <1>1, <1>2, <2>2, StepMapper DEF Fail, OpeningInv, OpeningTypeOK
  <1>3. CASE /\ mapper' = [NoMapper EXCEPT !.impl = "curl", !.curl = TRUE, !.cache = source,
                                           !.version = source]
             /\ MapperReady(source)
    <2>1. mapper' \in Mappers /\ mapper'.impl = "curl"
      BY <1>3 DEF OpeningInv, OpeningTypeOK, Mappers, NoMapper, Impls, Versions, Nothing
    <2> QED BY <1>1, <1>3, <2>1, MapperReadyFacts, StepMapper DEF OpeningInv, OpeningTypeOK
  <1> QED BY <1>2, <1>3 DEF InitCurl

LEMMA StepSuperblock ==
    ASSUME OpeningInv, Superblock
    PROVE  OpeningInv'
  <1> DEFINE cached == config.offset = 0 /\ mapper.cache # Nothing
             mapping == [block |-> config.offset, version |-> mapper.version]
  <1>1. got = 6 /\ stage = "init"
    BY OrderFacts DEF Superblock, OpeningInv, Progress, OpeningTypeOK
  <1>2. UNCHANGED <<config, descriptors, source, user, response, work>>
    BY DEF Superblock, curlVars
  <1>3. CASE Fail /\ UNCHANGED <<mapped, mapper>>
    <2>1. stage' = "cleanup" /\ got' = got
      BY <1>3 DEF Fail
    <2> USE <1>1, <1>2, <1>3, <2>1 DEF OpeningInv
    <2>2. OpeningTypeOK'
      BY DEF OpeningTypeOK, Stages
    <2>3. NobodyMaps' /\ Progress' /\ Locked' /\ OneVersion'
      BY DEF NobodyMaps, Progress, Locked, InTransfer, OneVersion
    <2>4. Descriptors'
      BY DEF Descriptors
    <2> QED BY <2>2, <2>3, <2>4
  <1>4. CASE /\ mapped' = [mapped EXCEPT ![Opener] = mapping]
             /\ mapper' = IF cached THEN [mapper EXCEPT !.cache = Nothing] ELSE mapper
             /\ Succeed \/ Fail
    <2>1. \/ got' = 7 /\ stage' = "init"
          \/ got' = 6 /\ stage' = "cleanup"
      BY <1>1, <1>4, OrderFacts DEF Succeed, Fail
    <2>2. mapper' \in Mappers /\ mapper'.impl = mapper.impl /\ mapper'.fd = mapper.fd
          /\ mapper'.version = mapper.version
      BY <1>4 DEF OpeningInv, OpeningTypeOK, Mappers, Versions, Nothing
    <2>3. mapping \in Mappings
      BY DEF OpeningInv, OpeningTypeOK, Mappings, Mappers
    <2>4. /\ mapped' \in [Everyone -> Mappings]
          /\ mapped'[Opener] = mapping
          /\ \A t \in Client : mapped'[t] = mapped[t]
      BY <1>4, <2>3, OpenerAssumption DEF OpeningInv, OpeningTypeOK, Everyone
    <2> USE <1>1, <1>2, <2>1, <2>2, <2>4 DEF OpeningInv
    <2>5. OpeningTypeOK'
      BY DEF OpeningTypeOK, Stages
    <2>6. NobodyMaps' /\ Locked'
      BY DEF NobodyMaps, Locked, InTransfer
    <2>7. Progress'
      BY DEF Progress
    <2>8. Descriptors'
      BY DEF Descriptors
    <2>9. OneVersion'
      BY DEF OneVersion
    <2> QED BY <2>5, <2>6, <2>7, <2>8, <2>9
  <1> QED BY <1>3, <1>4 DEF Superblock

-----------------------------------------------------------------------------
(* Threads *)

\* A step of one thread of an open archive: what it is in and what it has mapped change, the rest
\* of the archive does not.
LEMMA StepThread ==
    ASSUME OpeningInv, stage = "open", NEW t \in Client,
           UNCHANGED <<stage, config, got, mapper, descriptors, source>>,
           OpeningTypeOK', Locked', mapped'[Opener] = mapped[Opener],
           \A u \in Client \ {t} : mapped'[u] = mapped[u],
           mapped'[t] # NoMapping => mapped'[t].version = mapper.version
    PROVE  OpeningInv'
  <1> USE DEF OpeningInv
  <1>1. NobodyMaps' /\ Progress'
    BY DEF NobodyMaps, Progress
  <1>2. Descriptors'
    BY DEF Descriptors
  <1>3. OneVersion'
    BY DEF OneVersion
  <1> QED BY <1>1, <1>2, <1>3

LEMMA Busy ==
    ASSUME OpeningInv, NEW t \in Client, work[t].step # "idle" \/ mapped[t] # NoMapping
    PROVE  stage = "open"
  BY DEF OpeningInv, NobodyMaps, NoWork

LEMMA StepMap ==
    ASSUME OpeningInv, NEW t \in Client, NEW block \in 0..1, Map(t, block)
    PROVE  OpeningInv'
  <1> USE DEF Map
  <1>1. CASE MapAtOnce(t, block)
    <2> USE <1>1 DEF MapAtOnce
    <2>1. [block |-> block, version |-> mapper.version] \in Mappings
      BY DEF OpeningInv, OpeningTypeOK, Mappings, Mappers
    <2>2. /\ mapped' \in [Everyone -> Mappings]
          /\ mapped'[t] = [block |-> block, version |-> mapper.version]
          /\ \A u \in Everyone \ {t} : mapped'[u] = mapped[u]
      BY <2>1 DEF OpeningInv, OpeningTypeOK, Everyone
    <2>3. OpeningTypeOK' /\ Locked'
      BY <2>2 DEF OpeningInv, OpeningTypeOK, Locked, InTransfer
    <2> QED BY <2>2, <2>3, StepThread, OpenerAssumption DEF Everyone
  <1>2. CASE /\ work' = [work EXCEPT ![t] = [step |-> "lock", block |-> block, buffer |-> Nothing]]
             /\ UNCHANGED mapped
    <2>1. [step |-> "lock", block |-> block, buffer |-> Nothing] \in Works
      BY DEF Works, Steps, Versions, Nothing
    <2>2. OpeningTypeOK'
      BY <1>2, <2>1 DEF OpeningInv, OpeningTypeOK
    <2>3. Locked'
      BY <1>2 DEF OpeningInv, OpeningTypeOK, Locked, InTransfer
    <2> QED BY <1>2, <2>2, <2>3, StepThread DEF Idle
  <1> QED BY <1>1, <1>2

LEMMA StepLockHandle ==
    ASSUME OpeningInv, NEW t \in Client, LockHandle(t)
    PROVE  OpeningInv'
  <1> USE DEF LockHandle, Proceed
  <1>1. OpeningTypeOK'
    BY DEF OpeningInv, OpeningTypeOK, Everyone, Works, Steps
  <1>2. Locked'
    BY OpenerAssumption DEF OpeningInv, OpeningTypeOK, Locked, InTransfer, Works
  <1>3. stage = "open"
    BY Busy
  <1> QED BY <1>1, <1>2, <1>3, StepThread DEF OpeningInv, OneVersion

LEMMA StepTransfer ==
    ASSUME OpeningInv, NEW t \in Client, Transfer(t)
    PROVE  OpeningInv'
  <1> USE DEF Transfer, Proceed
  <1>1. OpeningTypeOK'
    BY DEF OpeningInv, OpeningTypeOK, Works, Steps
  <1>2. Locked'
    BY DEF OpeningInv, OpeningTypeOK, Locked, InTransfer, Works
  <1>3. stage = "open"
    BY Busy
  <1> QED BY <1>1, <1>2, <1>3, StepThread DEF OpeningInv, OneVersion

\* The time and the size that are compared are those of the block in the buffer.
LEMMA StepCheck ==
    ASSUME OpeningInv, NEW t \in Client, Check(t)
    PROVE  OpeningInv'
  <1> USE DEF Check, Proceed
  <1> DEFINE mapping == [block |-> work[t].block, version |-> work[t].buffer]
  <1>1. work[t] \in Works /\ mapping \in Mappings
    BY DEF OpeningInv, OpeningTypeOK, Works, Mappings
  <1>2. response = mapper.version => mapping.version = mapper.version
    BY DEF OpeningInv, Locked
  <1>3. /\ mapped' \in [Everyone -> Mappings]
        /\ mapped'[t] = IF response = mapper.version THEN mapping ELSE mapped[t]
        /\ \A u \in Everyone \ {t} : mapped'[u] = mapped[u]
    BY <1>1 DEF OpeningInv, OpeningTypeOK, Everyone
  <1>4. OpeningTypeOK'
    BY <1>1, <1>3 DEF OpeningInv, OpeningTypeOK, Works, Steps
  <1>5. Locked'
    BY <1>1 DEF OpeningInv, OpeningTypeOK, Locked, InTransfer, Works
  <1>6. stage = "open"
    BY Busy
  <1> QED BY <1>2, <1>3, <1>4, <1>5, <1>6, StepThread, OpenerAssumption DEF OpeningInv, OneVersion, Everyone

LEMMA StepUnlockHandle ==
    ASSUME OpeningInv, NEW t \in Client, UnlockHandle(t)
    PROVE  OpeningInv'
  <1> USE DEF UnlockHandle
  <1>1. OpeningTypeOK'
    BY DEF OpeningInv, OpeningTypeOK, Everyone, Works, Steps, NoWork, Versions, Nothing
  <1>2. Locked'
    BY DEF OpeningInv, OpeningTypeOK, Locked, InTransfer, NoWork
  <1>3. stage = "open"
    BY Busy
  <1> QED BY <1>1, <1>2, <1>3, StepThread DEF OpeningInv, OneVersion

LEMMA StepUnmap ==
    ASSUME OpeningInv, NEW t \in Client, Unmap(t)
    PROVE  OpeningInv'
  <1> USE DEF Unmap, curlVars
  <1>1. /\ mapped' \in [Everyone -> Mappings]
        /\ mapped'[t] = NoMapping
        /\ \A u \in Everyone \ {t} : mapped'[u] = mapped[u]
    BY DEF OpeningInv, OpeningTypeOK, Everyone, Mappings, NoMapping, Versions, Nothing
  <1>2. OpeningTypeOK' /\ Locked'
    BY <1>1 DEF OpeningInv, OpeningTypeOK, Locked, InTransfer
  <1>3. stage = "open"
    BY Busy
  <1> QED BY <1>1, <1>2, <1>3, StepThread, OpenerAssumption DEF Everyone

-----------------------------------------------------------------------------
(* Clean-up, and what the archive does not decide *)

LEMMA StepRepublish ==
    ASSUME OpeningInv, Republish
    PROVE  OpeningInv'
  <1> USE DEF Republish, OpeningInv, curlVars
  <1>1. OpeningTypeOK'
    BY DEF OpeningTypeOK, Versions
  <1>2. NobodyMaps' /\ Progress' /\ Locked' /\ OneVersion'
    BY DEF NobodyMaps, Progress, Locked, InTransfer, OneVersion
  <1>3. Descriptors'
    BY DEF Descriptors
  <1> QED BY <1>1, <1>2, <1>3

LEMMA StepCloseArchive ==
    ASSUME OpeningInv, sqsh_archive_close
    PROVE  OpeningInv'
  <1> USE DEF sqsh_archive_close, OpeningInv, curlVars
  <1>1. OpeningTypeOK' /\ Progress' /\ Locked' /\ OneVersion'
    BY DEF OpeningTypeOK, Stages, Progress, Locked, InTransfer, OneVersion
  <1>2. Descriptors'
    BY DEF Descriptors
  <1>3. NobodyMaps'
    BY DEF NobodyMaps, Idle, Locked
  <1> QED BY <1>1, <1>2, <1>3

LEMMA StepCleanUp ==
    ASSUME OpeningInv, CleanUp
    PROVE  OpeningInv'
  <1> USE DEF CleanUp, OpeningInv
  <1>1. /\ descriptors' \in [Descriptor -> {"free", "process", "archive"}]
        /\ \A d \in Descriptor : descriptors'[d] # "archive"
        /\ stage' \in {"closed", "crashed"}
    BY DEF Cleaned, Descriptors, OpeningTypeOK
  <1>2. /\ mapped' \in [Everyone -> Mappings]
        /\ \A t \in Everyone : mapped'[t] = NoMapping
    BY DEF OpeningTypeOK, Everyone, NobodyMaps, Mappings, NoMapping, Versions, Nothing
  <1>3. OpeningTypeOK'
    BY <1>1, <1>2 DEF OpeningTypeOK, Stages, Mappers, NoMapper, Versions, Nothing
  <1>4. NobodyMaps' /\ Progress' /\ OneVersion'
    BY <1>1, <1>2 DEF NobodyMaps, Progress, OneVersion, Everyone
  <1>5. Locked'
    BY DEF Locked, InTransfer, NobodyMaps, NoWork
  <1>6. Descriptors'
    BY <1>1 DEF Descriptors
  <1> QED BY <1>3, <1>4, <1>5, <1>6

LEMMA StepRestart ==
    ASSUME OpeningInv, Restart
    PROVE  OpeningInv'
  <1> USE DEF Restart, OpeningInv, curlVars
  <1>1. OpeningTypeOK' /\ NobodyMaps' /\ Progress' /\ Locked' /\ OneVersion'
    BY DEF OpeningTypeOK, Stages, NobodyMaps, Progress, Locked, InTransfer, OneVersion
  <1>2. Descriptors'
    BY DEF Descriptors
  <1> QED BY <1>1, <1>2

LEMMA StepStutters ==
    ASSUME OpeningInv, UNCHANGED openingVars
    PROVE  OpeningInv'
  <1> USE DEF openingVars, OpeningInv
  <1>1. OpeningTypeOK' /\ NobodyMaps' /\ Progress' /\ Locked' /\ OneVersion'
    BY DEF OpeningTypeOK, NobodyMaps, Progress, Locked, InTransfer, OneVersion
  <1>2. Descriptors'
    BY DEF Descriptors
  <1> QED BY <1>1, <1>2

LEMMA StepHolds == OpeningInv /\ [OpeningNext]_openingVars => OpeningInv'
  <1> SUFFICES ASSUME OpeningInv, [OpeningNext]_openingVars PROVE OpeningInv'
    OBVIOUS
  <1>1. ASSUME NEW t \in Client, LockHandle(t) \/ Transfer(t) \/ Check(t) \/ UnlockHandle(t) \/ Unmap(t)
        PROVE  OpeningInv'
    BY <1>1, StepLockHandle, StepTransfer, StepCheck, StepUnlockHandle, StepUnmap
  <1>2. ASSUME NEW t \in Client, NEW block \in 0..1, Map(t, block)
        PROVE  OpeningInv'
    BY <1>2, StepMap
  <1>3. ASSUME NEW impl \in Impls, NEW offset \in 0..1, sqsh_archive_open(impl, offset)
        PROVE  OpeningInv'
    BY <1>3, StepOpenArchive
  <1>4. CASE Acquire \/ InitMmap \/ InitStatic \/ InitCurl \/ Superblock
    BY <1>4, StepAcquire, StepInitMmap, StepInitStatic, StepInitCurl, StepSuperblock
  <1>5. CASE Republish \/ sqsh_archive_close \/ CleanUp \/ Restart
    BY <1>5, StepRepublish, StepCloseArchive, StepCleanUp, StepRestart
  <1>6. CASE UNCHANGED openingVars
    BY <1>6, StepStutters
  <1> QED BY <1>1, <1>2, <1>3, <1>4, <1>5, <1>6 DEF OpeningNext, Impls

LEMMA OpeningInductive == OpeningSpec => []OpeningInv
  <1> QED BY InitHolds, StepHolds, PTL DEF OpeningSpec

-----------------------------------------------------------------------------
\* Type correctness of opening, mapping and closing an archive (sqsh__archive_init,
\* sqsh_mapper_curl_map, sqsh__archive_cleanup).
THEOREM OpeningTyped == OpeningSpec => []OpeningTypeOK
  <1>1. OpeningInv => OpeningTypeOK
    BY DEF OpeningInv
  <1> QED BY <1>1, OpeningInductive, PTL

\* Whatever is mapped at a time is from the version of the source that the archive was opened
\* from, for any number of threads and every way a remote file changes (sqsh_mapper_curl_map).
THEOREM SourceOfOneVersion == OpeningSpec => []OneVersion
  <1>1. OpeningInv => OneVersion
    BY DEF OpeningInv
  <1> QED BY <1>1, OpeningInductive, PTL

\* The lock of a curl mapper: only one thread uses the handle (sqsh_mapper_curl_map).
THEOREM HandleUsedByOne ==
    OpeningSpec => [](\A t, u \in Client :
        work[t].step \in InTransfer /\ work[u].step \in InTransfer => t = u)
  <1>1. OpeningInv => \A t, u \in Client : work[t].step \in InTransfer /\ work[u].step \in InTransfer => t = u
    BY DEF OpeningInv, Locked
  <1> QED BY <1>1, OpeningInductive, PTL

\* A closed archive has no descriptor, no mapping and nothing set up, and an open one has all it
\* needs, wherever opening can fail (sqsh__archive_init, sqsh__archive_cleanup).
THEOREM NothingLeft == OpeningSpec => []LeavesNothing
  <1>1. ASSUME OpeningInv PROVE LeavesNothing
    <2> USE <1>1 DEF OpeningInv
    <2>1. ASSUME stage = "closed"
          PROVE  /\ got = 0 /\ \A t \in DOMAIN mapped : mapped[t] = NoMapping
                 /\ \A d \in Descriptor : descriptors[d] # "archive"
      BY <2>1 DEF Progress, NobodyMaps, Descriptors, OpeningTypeOK, Everyone
    <2>2. ASSUME stage = "open"
          PROVE  /\ got = Len(Order) /\ mapped[Opener].block = config.offset
                 /\ mapper.impl = "mmap" => descriptors[mapper.fd] = "archive"
      BY <2>2, OrderFacts DEF Progress, Descriptors
    <2> QED BY <2>1, <2>2 DEF LeavesNothing
  <1> QED BY <1>1, OpeningInductive, PTL

-----------------------------------------------------------------------------
(* The tables of an open archive: Archive *)

\* A thread is between the lock and the unlock of the getter it was called for.
Inside(t) == step[t] \in {"body", "resume", "unlock"} \/ nested[t]

\* How far a thread has come and the getters it is in go together.
CallOK(t) ==
    /\ step[t] = "idle" <=> getter[t] = "none"
    /\ step[t] = "resume" => getter[t] = "inodeMap" /\ ~nested[t]
    /\ nested[t] => getter[t] = "inodeMap"

\* The lock has the thread that is inside, once for each getter that holds it.
LockOK ==
    /\ \A t \in Thread : Inside(t) =>
          owner = t /\ depth = IF nested[t] /\ step[t] # "lock" THEN 2 ELSE 1
    /\ (\A t \in Thread : ~Inside(t)) => owner = NoThread /\ depth = 0

\* What a getter that is about to return success has found or made, and what the set-up of the
\* inode map that has called another getter, or got its result, can count on.
ResultOK(t) ==
    /\ step[t] = "unlock" /\ ok[t] => Inner(t) \in ready
    /\ nested[t] \/ step[t] = "resume" => image.exportFlag /\ "inodeMap" \notin ready
    /\ step[t] = "resume" /\ ok[t] => "export" \in ready

\* An archive that is closed has nothing and nobody in it.
ClosedOK == ~open => /\ ready = {} /\ handed = {}
                     /\ \A t \in Thread : step[t] = "idle"

\* What was handed out is set up, with what it is built on.
ReadyOK ==
    /\ handed \subseteq ready
    /\ "inodeMap" \in ready /\ image.exportFlag => "export" \in ready

IInv ==
    /\ TypeOK /\ SetUpOnce /\ LockOK /\ ClosedOK /\ ReadyOK
    /\ \A t \in Thread : CallOK(t) /\ ResultOK(t)

-----------------------------------------------------------------------------
\* Only one thread is inside.
LEMMA Alone ==
    ASSUME IInv, NEW t \in Thread, Inside(t), NEW u \in Thread, u # t
    PROVE  ~Inside(u)
  BY DEF IInv, LockOK

\* The first lock and the last unlock change who is inside, everything between them does not.
LEMMA StaysInside ==
    ASSUME IInv, NEW t \in Thread, Inside(t), Inside(t)', UNCHANGED lockVars,
           (nested[t] /\ step[t] # "lock") <=> (nested'[t] /\ step'[t] # "lock"),
           \A u \in Thread \ {t} : step'[u] = step[u] /\ nested'[u] = nested[u]
    PROVE  LockOK'
  BY Alone DEF IInv, LockOK, Inside, lockVars

LEMMA StepOpen ==
    ASSUME IInv, NEW absent \in SUBSET Optional, NEW flag \in BOOLEAN, Open(absent, flag)
    PROVE  IInv'
  <1> USE DEF Open, IInv, lockVars, callVars
  <1>1. TypeOK' /\ SetUpOnce'
    BY DEF TypeOK, SetUpOnce
  <1>2. LockOK'
    BY DEF LockOK, Inside
  <1>3. ClosedOK' /\ ReadyOK'
    BY DEF ClosedOK, ReadyOK
  <1>4. \A t \in Thread : CallOK(t)' /\ ResultOK(t)'
    BY DEF CallOK, ResultOK, ClosedOK
  <1> QED BY <1>1, <1>2, <1>3, <1>4

LEMMA StepClose ==
    ASSUME IInv, Close
    PROVE  IInv'
  <1> USE DEF Close, IInv, lockVars, callVars
  <1>1. TypeOK' /\ SetUpOnce'
    <2>1. \A c \in Table : live'[c] = 0
      BY DEF TypeOK, SetUpOnce
    <2>2. SetUpOnce'
      BY <2>1 DEF SetUpOnce
    <2>3. live' \in [Table -> Nat]
      BY <2>1 DEF TypeOK
    <2> QED BY <2>2, <2>3 DEF TypeOK, Closed
  <1>2. LockOK'
    BY DEF LockOK, Inside
  <1>3. ClosedOK' /\ ReadyOK'
    BY DEF ClosedOK, ReadyOK
  <1>4. \A t \in Thread : CallOK(t)' /\ ResultOK(t)'
    BY DEF CallOK, ResultOK
  <1> QED BY <1>1, <1>2, <1>3, <1>4

LEMMA StepGet ==
    ASSUME IInv, NEW t \in Thread, NEW c \in Table, Get(t, c)
    PROVE  IInv'
  <1> USE DEF Get, IInv, lockVars, Goto
  <1>1. TypeOK' /\ SetUpOnce'
    BY DEF TypeOK, SetUpOnce
  <1>2. \A u \in Thread : Inside(u)' <=> Inside(u)
    BY DEF Inside, TypeOK
  <1>3. LockOK'
    BY <1>2 DEF LockOK, Inside, TypeOK, CallOK
  <1>4. ClosedOK' /\ ReadyOK'
    BY DEF ClosedOK, ReadyOK
  <1>5. \A u \in Thread : CallOK(u)' /\ ResultOK(u)'
    BY DEF CallOK, ResultOK, TypeOK, Table, Optional, Inner
  <1> QED BY <1>1, <1>3, <1>4, <1>5

LEMMA StepLock ==
    ASSUME IInv, NEW t \in Thread, Lock(t)
    PROVE  IInv'
  <1> USE DEF Lock, IInv, callVars, Goto
  <1>1. depth = (IF nested[t] THEN 1 ELSE 0)
    BY NoThreadAssumption DEF LockOK, Inside, TypeOK
  <1>2. TypeOK' /\ SetUpOnce'
    BY <1>1 DEF TypeOK, SetUpOnce
  <1>3. \A u \in Thread \ {t} : ~Inside(u)' /\ ~Inside(u)
    BY NoThreadAssumption DEF LockOK, Inside, TypeOK
  <1>4. LockOK'
    BY <1>1, <1>3 DEF LockOK, Inside, TypeOK
  <1>5. ClosedOK' /\ ReadyOK'
    BY DEF ClosedOK, ReadyOK
  <1>6. \A u \in Thread : CallOK(u)' /\ ResultOK(u)'
    BY DEF CallOK, ResultOK, TypeOK, Inner
  <1> QED BY <1>2, <1>4, <1>5, <1>6

LEMMA StepFound ==
    ASSUME IInv, NEW t \in Thread, Found(t)
    PROVE  IInv'
  <1> USE DEF Found, IInv, callVars, lockVars, Goto
  <1>1. TypeOK' /\ SetUpOnce'
    BY DEF TypeOK, SetUpOnce
  <1>2. LockOK'
    BY StaysInside DEF Inside, TypeOK
  <1>3. ClosedOK' /\ ReadyOK'
    BY DEF ClosedOK, ReadyOK
  <1>4. \A u \in Thread : CallOK(u)' /\ ResultOK(u)'
    BY DEF CallOK, ResultOK, TypeOK, Inner
  <1> QED BY <1>1, <1>2, <1>3, <1>4

\* The three ways a table is set up: c is the innermost getter's, not ready yet, and an inode map
\* has the export table it needs.
LEMMA StepSetUp ==
    ASSUME IInv, NEW t \in Thread, NEW c \in Table, NEW success \in BOOLEAN,
           step[t] \in {"body", "resume"}, c = Inner(t), c \notin ready,
           c = "inodeMap" /\ image.exportFlag /\ success => "export" \in ready,
           SetUp(t, c, success), Goto(t, "unlock"),
           UNCHANGED <<open, image, handed, lockVars, callVars>>
    PROVE  IInv'
  <1> USE DEF SetUp, IInv, callVars, lockVars, Goto
  <1>0. Inside(t) /\ Inside(t)'
    BY DEF Inside, TypeOK
  <1>1. TypeOK' /\ SetUpOnce'
    BY DEF TypeOK, SetUpOnce
  <1>2. LockOK'
    BY <1>0, StaysInside DEF TypeOK
  <1>3. ClosedOK' /\ ReadyOK'
    BY DEF ClosedOK, ReadyOK
  <1>4. \A u \in Thread : CallOK(u)'
    BY DEF CallOK, TypeOK
  <1>5. ResultOK(t)'
    BY DEF ResultOK, TypeOK, Inner, CallOK
  <1>6. \A u \in Thread \ {t} : ResultOK(u)'
    BY <1>0, Alone DEF ResultOK, TypeOK, Inner, Inside
  <1> QED BY <1>1, <1>2, <1>3, <1>4, <1>5, <1>6

\* What the innermost getter is for.
LEMMA InnerType ==
    ASSUME IInv, NEW t \in Thread, step[t] # "idle"
    PROVE  Inner(t) \in Table
  BY DEF IInv, TypeOK, CallOK, Inner, Table, Optional

LEMMA StepInitInodeMap ==
    ASSUME IInv, NEW t \in Thread, InitInodeMap(t)
    PROVE  IInv'
  <1> USE DEF InitInodeMap, IInv, lockVars, Goto
  <1>0. /\ Inside(t) /\ Inside(t)' /\ ~nested[t] /\ getter[t] = "inodeMap"
        /\ image.exportFlag /\ "inodeMap" \notin ready
    BY DEF Inside, TypeOK, NeedsExport, Inner
  <1>1. TypeOK' /\ SetUpOnce'
    BY <1>0 DEF TypeOK, SetUpOnce
  <1>2. LockOK'
    BY <1>0, StaysInside DEF TypeOK
  <1>3. ClosedOK' /\ ReadyOK'
    BY DEF ClosedOK, ReadyOK
  <1>4. \A u \in Thread : CallOK(u)' /\ ResultOK(u)'
    BY <1>0 DEF CallOK, ResultOK, TypeOK, Inner
  <1> QED BY <1>1, <1>2, <1>3, <1>4

LEMMA StepUnlock ==
    ASSUME IInv, NEW t \in Thread, Unlock(t)
    PROVE  IInv'
  <1> USE DEF Unlock, IInv, Goto
  <1>0. Inside(t) /\ depth = (IF nested[t] THEN 2 ELSE 1) /\ owner = t
    BY DEF Inside, LockOK
  <1>1. TypeOK' /\ SetUpOnce'
    BY <1>0, InnerType DEF TypeOK, SetUpOnce
  <1>2. \A u \in Thread \ {t} : ~Inside(u)' /\ ~Inside(u)
    BY <1>0, Alone DEF Inside, TypeOK
  <1>3. LockOK'
    BY <1>0, <1>2 DEF LockOK, Inside, TypeOK
  <1>4. ClosedOK' /\ ReadyOK'
    BY DEF ClosedOK, ReadyOK, ResultOK
  <1>5. \A u \in Thread : CallOK(u)'
    BY DEF CallOK, TypeOK
  <1>6. ResultOK(t)'
    BY DEF ResultOK, TypeOK, Inner, CallOK
  <1>7. \A u \in Thread \ {t} : ResultOK(u)'
    BY DEF ResultOK, TypeOK, Inner
  <1> QED BY <1>1, <1>3, <1>4, <1>5, <1>6, <1>7

-----------------------------------------------------------------------------
LEMMA InitInv == Init => IInv
  <1> SUFFICES ASSUME Init PROVE IInv
    OBVIOUS
  <1> USE DEF Init
  <1>1. SetUpOnce
    BY DEF SetUpOnce
  <1>2. TypeOK
    <2>1. live \in [Table -> Nat] /\ image \in [tables : SUBSET Table, exportFlag : BOOLEAN]
      BY DEF Closed
    <2>2. /\ getter \in [Thread -> Table \cup {"none"}] /\ nested \in [Thread -> BOOLEAN]
          /\ ok \in [Thread -> BOOLEAN]
          /\ step \in [Thread -> {"idle", "lock", "body", "resume", "unlock"}]
      OBVIOUS
    <2>3. open \in BOOLEAN /\ ready \subseteq Table /\ handed \subseteq Table
      OBVIOUS
    <2>4. owner \in Thread \cup {NoThread} /\ depth \in 0..2
      OBVIOUS
    <2> QED BY <2>1, <2>2, <2>3, <2>4, Zenon DEF TypeOK
  <1>3. LockOK /\ ClosedOK /\ ReadyOK
    BY DEF LockOK, Inside, ClosedOK, ReadyOK
  <1>4. \A t \in Thread : CallOK(t) /\ ResultOK(t)
    BY DEF CallOK, ResultOK
  <1> QED BY <1>1, <1>2, <1>3, <1>4 DEF IInv

LEMMA NextInv == IInv /\ [Next]_vars => IInv'
  <1> SUFFICES ASSUME IInv, [Next]_vars PROVE IInv'
    OBVIOUS
  <1>1. CASE UNCHANGED vars
    BY <1>1 DEF vars, IInv, TypeOK, SetUpOnce, LockOK, Inside, ClosedOK, ReadyOK, CallOK, ResultOK, Inner
  <1>2. CASE \E absent \in SUBSET Optional, flag \in BOOLEAN : Open(absent, flag)
    BY <1>2, StepOpen
  <1>3. CASE Close
    BY <1>3, StepClose
  <1>4. ASSUME NEW t \in Thread, NEW c \in Table, Get(t, c) PROVE IInv'
    BY <1>4, StepGet
  <1>5. ASSUME NEW t \in Thread, Continue(t) PROVE IInv'
    <2>1. CASE Lock(t)
      BY <2>1, StepLock
    <2>2. CASE Found(t)
      BY <2>2, StepFound
    <2>3. ASSUME NEW success \in BOOLEAN, InitTable(t, success) PROVE IInv'
      <3>1. Inner(t) \in Table
        BY <2>3, InnerType DEF InitTable
      <3> QED BY <2>3, <3>1, StepSetUp DEF InitTable, NeedsExport
    <2>4. ASSUME NEW success \in BOOLEAN, InitDataManager(t, success) PROVE IInv'
      <3>1. "data" \in Table
        BY DEF Table
      <3> QED BY <2>4, <3>1, StepSetUp DEF InitDataManager
    <2>5. CASE InitInodeMap(t)
      BY <2>5, StepInitInodeMap
    <2>6. CASE ResumeInodeMap(t)
      <3>1. /\ "inodeMap" \in Table /\ "inodeMap" = Inner(t) /\ "inodeMap" \notin ready
            /\ ok[t] \in BOOLEAN /\ (ok[t] => "export" \in ready)
        BY <2>6 DEF ResumeInodeMap, IInv, CallOK, ResultOK, Inner, Table, TypeOK
      <3> QED BY <2>6, <3>1, StepSetUp DEF ResumeInodeMap
    <2>7. CASE Unlock(t)
      BY <2>7, StepUnlock
    <2> QED BY <1>5, <2>1, <2>2, <2>3, <2>4, <2>5, <2>6, <2>7 DEF Continue
  <1> QED BY <1>1, <1>2, <1>3, <1>4, <1>5 DEF Next

LEMMA Inductive == Spec => []IInv
  <1>1. Init => IInv
    BY InitInv
  <1>2. IInv /\ [Next]_vars => IInv'
    BY NextInv
  <1> QED BY <1>1, <1>2, PTL DEF Spec

\* Every table of an archive is set up once and cleaned up once, however many threads ask for it
\* at the same time (archive.c:168-335, 353-384).
THEOREM TablesSetUpOnce == Spec => []SetUpOnce
  <1>1. IInv => SetUpOnce
    BY DEF IInv
  <1> QED BY <1>1, Inductive, PTL

\* What was handed out is set up, and so is the export table of an inode map that needs one,
\* whichever set-up failed before.
THEOREM TablesUsable == Spec => []HandedOutAlive
  <1>1. IInv => HandedOutAlive
    <2> SUFFICES ASSUME IInv PROVE HandedOutAlive
      OBVIOUS
    <2>1. \A c \in ready : live[c] = 1
      BY DEF IInv, SetUpOnce, TypeOK
    <2>2. handed \subseteq ready /\ ("inodeMap" \in ready /\ image.exportFlag => "export" \in ready)
      BY DEF IInv, ReadyOK
    <2> QED BY <2>1, <2>2 DEF HandedOutAlive
  <1> QED BY <1>1, Inductive, PTL

\* No two threads are inside a getter at a time, and the lock is held as often as it will be
\* given back: the export table's getter leaves the hold of the inode map's alone.
THEOREM OneThreadInside == Spec => []LockOK
  <1>1. IInv => LockOK
    BY DEF IInv
  <1> QED BY <1>1, Inductive, PTL

-----------------------------------------------------------------------------
(* Mounting: Sqshfs.  What an advance of a reader's window leaves alone. *)

\* Beginning or extending an item touches the window and what became of the call, nothing else, and
\* the window shows an item of the kind that was expected, or the call is over.
LEMMA BeginKeeps ==
    ASSUME NEW one, NEW it, {"rv", "meta"} \subseteq DOMAIN it, NEW table, NEW offset, NEW size, NEW kind
    PROVE  LET b == Begin(one, it, table, offset, size, kind)
           IN  /\ DOMAIN b = DOMAIN it
               /\ \A x \in DOMAIN it \ {"rv", "meta"} : b[x] = it[x]
               /\ Ended(b) \/ (b.rv = it.rv /\ Shown(one, b.meta).kind = kind)
  <1> DEFINE m == MetaAdvanced(table, it.meta, offset, size)
             t == [it EXCEPT !.meta = m]
             a == Advance(it, table, offset, size)
             b == Begin(one, it, table, offset, size, kind)
  <1>1. /\ DOMAIN t = DOMAIN it /\ t.meta = m /\ t.rv = it.rv
        /\ \A x \in DOMAIN it \ {"rv", "meta"} : t[x] = it[x]
    <2> HIDE DEF m
    <2> QED OBVIOUS
  <1>2. a = IF Ended(it) THEN it ELSE Checked(t)
    BY DEF Advance
  <1>3. b = Expect(a, Shown(one, a.meta), kind)
    BY DEF Begin
  <1> HIDE DEF m, t, a, b
  <1>4. /\ DOMAIN a = DOMAIN it
        /\ \A x \in DOMAIN it \ {"rv", "meta"} : a[x] = it[x]
        /\ Ended(a) \/ a.rv = it.rv
    <2>1. DOMAIN Fails(t) = DOMAIN it /\ Fails(t).rv = "error" /\ \A x \in DOMAIN it \ {"rv", "meta"} : Fails(t)[x] = it[x]
      BY <1>1 DEF Fails
    <2>2. Ended(Fails(t))
      BY <2>1 DEF Ended
    <2> QED BY <1>1, <1>2, <2>1, <2>2 DEF Checked
  <1> DEFINE g == [a EXCEPT !.rv = "garbled"]
  <1>5. DOMAIN g = DOMAIN it /\ g.rv = "garbled" /\ \A x \in DOMAIN it \ {"rv", "meta"} : g[x] = it[x]
    BY <1>4
  <1>6. Ended(g)
    BY <1>5 DEF Ended
  <1>7. b = IF Ended(a) \/ Shown(one, a.meta).kind = kind THEN a ELSE g
    BY <1>3 DEF Expect
  <1> HIDE DEF g
  <1>8. /\ DOMAIN b = DOMAIN it
        /\ \A x \in DOMAIN it \ {"rv", "meta"} : b[x] = it[x]
        /\ Ended(b) \/ (b.rv = it.rv /\ Shown(one, b.meta).kind = kind)
    BY <1>4, <1>5, <1>6, <1>7
  <1> QED BY <1>8 DEF b

\* What a window shows is an item of the archive.
LEMMA ShownItem ==
    ASSUME NEW one \in Archives, NEW m
    PROVE  LET item == Shown(one, m)
           IN  /\ item.kind = "entry" => item \in EntryItem
               /\ item.kind = "fragment" => item \in FragmentItem
               /\ item.kind = "inode" => item \in InodeItem
  <1> DEFINE item == Shown(one, m)
             all == InodeItem \cup IdItem \cup ExportItem \cup IndexItem \cup FragmentItem \cup EntryItem
                    \cup KeyItem \cup ValueItem \cup XattrIdItem
  <1>1. item \in all \/ item = NoItem
    <2>1. item \in Range(one.items) \/ item = NoItem
      BY DEF Shown, Range
    <2> QED BY <2>1, ArchivesAssumption
  <1>2. NoItem.kind = "none"
    BY DEF NoItem
  <1>3. \A i \in all : /\ i.kind = "entry" => i \in EntryItem
                       /\ i.kind = "fragment" => i \in FragmentItem
                       /\ i.kind = "inode" => i \in InodeItem
    <2>1. \A i \in InodeItem : i.kind = "inode"
      BY DEF InodeItem
    <2>2. \A i \in IdItem : i.kind = "id"
      BY DEF IdItem
    <2>3. \A i \in ExportItem : i.kind = "ref"
      BY DEF ExportItem
    <2>4. \A i \in IndexItem : i.kind = "index"
      BY DEF IndexItem
    <2>5. \A i \in FragmentItem : i.kind = "fragment"
      BY DEF FragmentItem
    <2>6. \A i \in EntryItem : i.kind = "entry"
      BY DEF EntryItem
    <2>7. \A i \in KeyItem : i.kind = "key"
      BY DEF KeyItem
    <2>8. \A i \in ValueItem : i.kind = "value"
      BY DEF ValueItem
    <2>9. \A i \in XattrIdItem : i.kind = "xattr_id"
      BY DEF XattrIdItem
    <2> QED BY <2>1, <2>2, <2>3, <2>4, <2>5, <2>6, <2>7, <2>8, <2>9
  <1> HIDE DEF item, all
  <1> QED BY <1>1, <1>2, <1>3 DEF item

-----------------------------------------------------------------------------
(* Listings *)

DirFields == {"file", "meta", "remaining_size", "remaining_entries", "next_offset", "start", "inode_base",
              "entry", "inode", "last", "rv"}

\* What finding the next entry leaves alone.
Kept(d, e) == DOMAIN e = DirFields /\ e.last = d.last /\ e.file = d.file

LEMMA BeginKept ==
    ASSUME NEW one, NEW d, DOMAIN d = DirFields, NEW offset, NEW size, NEW kind
    PROVE  LET b == Begin(one, d, one.directories, offset, size, kind)
           IN  Kept(d, b) /\ (Ended(b) \/ (b.rv = d.rv /\ Shown(one, b.meta).kind = kind))
  <1> DEFINE b == Begin(one, d, one.directories, offset, size, kind)
  <1>1. {"rv", "meta"} \subseteq DOMAIN d /\ "last" \in DOMAIN d \ {"rv", "meta"} /\ "file" \in DOMAIN d \ {"rv", "meta"}
    BY DEF DirFields
  <1>2. /\ DOMAIN b = DOMAIN d
        /\ \A x \in DOMAIN d \ {"rv", "meta"} : b[x] = d[x]
        /\ Ended(b) \/ (b.rv = d.rv /\ Shown(one, b.meta).kind = kind)
    BY <1>1, BeginKeeps
  <1> HIDE DEF b
  <1>3. b["last"] = d["last"] /\ b["file"] = d["file"]
    BY <1>1, <1>2
  <1>4. Kept(d, b)
    BY <1>2, <1>3 DEF Kept
  <1> QED BY <1>2, <1>4 DEF b

LEMMA FailsKept ==
    ASSUME NEW d, DOMAIN d = DirFields
    PROVE  Kept(d, Fails(d)) /\ Ended(Fails(d))
  <1>1. DOMAIN Fails(d) = DirFields /\ Fails(d).rv = "error" /\ Fails(d).last = d.last /\ Fails(d).file = d.file
    BY DEF Fails, DirFields
  <1> QED BY <1>1 DEF Kept, Ended

LEMMA FragmentKept ==
    ASSUME NEW one, NEW d, DOMAIN d = DirFields
    PROVE  LET e == Counted(one, d) IN Kept(d, e) /\ (Ended(e) \/ e.rv = d.rv)
  <1> DEFINE b == Begin(one, d, one.directories, d.next_offset, FragmentSize, "fragment")
             f == FragmentFields(b, Shown(one, b.meta))
             p == FragmentShown(one, b)
             c == [d EXCEPT !.remaining_entries = @ - 1]
  <1>1. Kept(d, b) /\ (Ended(b) \/ b.rv = d.rv)
    BY BeginKept
  <1> HIDE DEF b
  <1>2. DOMAIN f = DirFields /\ f.last = b.last /\ f.file = b.file /\ f.rv = b.rv
    BY <1>1 DEF FragmentFields, Kept, DirFields
  <1> HIDE DEF f
  <1>3. p = b \/ p = f \/ p = Fails(b)
    <2>1. CASE Ended(b)
      BY <2>1 DEF FragmentShown
    <2>2. CASE ~Ended(b)
      <3>1. p = IF f.remaining_size < 0 \/ f.remaining_entries > f.remaining_size \div EntrySize
                THEN Fails(b) ELSE f
        BY <2>2 DEF FragmentShown, f
      <3> HIDE DEF p
      <3> QED BY <3>1
    <2> QED BY <2>1, <2>2
  <1>4. Kept(b, Fails(b)) /\ Ended(Fails(b))
    <2>1. DOMAIN b = DirFields
      BY <1>1 DEF Kept
    <2> QED BY <2>1, FailsKept
  <1> HIDE DEF p
  <1>5. Kept(d, p) /\ (Ended(p) \/ p.rv = d.rv)
    <2>1. CASE p = b
      BY <1>1, <2>1
    <2>2. CASE p = f
      <3>1. Ended(f) <=> Ended(b)
        BY <1>2 DEF Ended
      <3> QED BY <1>1, <1>2, <2>2, <3>1 DEF Kept
    <2>3. CASE p = Fails(b)
      BY <1>1, <1>4, <2>3 DEF Kept
    <2> QED BY <1>3, <2>1, <2>2, <2>3
  <1>6. Kept(d, c) /\ c.rv = d.rv
    <2>1. DOMAIN c = DirFields /\ c.last = d.last /\ c.file = d.file /\ c.rv = d.rv
      BY DEF DirFields
    <2> QED BY <2>1 DEF Kept
  <1> HIDE DEF c
  <1>7. Counted(one, d) \in {p, c}
    BY DEF Counted, ProcessFragment, p, b, c
  <1> QED BY <1>5, <1>6, <1>7

\* directory_iterator_next leaves the name of the last entry alone, and an entry it comes to is one.
LEMMA NextKept ==
    ASSUME NEW one \in Archives, NEW d, DOMAIN d = DirFields
    PROVE  LET e == NextEntry(one, d)
           IN  Kept(d, e) /\ (Ended(e) \/ (e.rv = d.rv /\ e.entry \in EntryItem))
  <1> DEFINE c == Counted(one, d)
             b == Begin(one, c, one.directories, c.next_offset, EntrySize, "entry")
             n == EntryNamed(one, b)
             s == EntryShown(one, n)
             z == [d EXCEPT !.rv = IF d.remaining_entries = 0 THEN "end" ELSE "error"]
  <1>1. Kept(d, c) /\ (Ended(c) \/ c.rv = d.rv)
    BY FragmentKept
  <1> HIDE DEF c
  <1>2. Kept(c, b) /\ (Ended(b) \/ (b.rv = c.rv /\ Shown(one, b.meta).kind = "entry"))
    <2>1. DOMAIN c = DirFields
      BY <1>1 DEF Kept
    <2>2. \A offset, size, kind : LET e == Begin(one, c, one.directories, offset, size, kind)
                                  IN  Kept(c, e) /\ (Ended(e) \/ (e.rv = c.rv /\ Shown(one, e.meta).kind = kind))
      BY <2>1, BeginKept
    <2> QED BY <2>2
  <1> HIDE DEF b
  <1>3. Kept(b, n) /\ (Ended(n) \/ (n.rv = b.rv /\ Shown(one, n.meta).kind = "entry"))
    <2>1. CASE Ended(b)
      BY <1>2, <2>1 DEF EntryNamed, Kept
    <2>2. CASE ~Ended(b)
      <3> DEFINE x == EntryLength(Shown(one, b.meta))
      <3>1. n = Begin(one, b, one.directories, 0, x, "entry")
        BY <2>2 DEF EntryNamed, Extend
      <3> HIDE DEF x, n
      <3> QED BY <1>2, <3>1, BeginKept DEF Kept
    <2> QED BY <2>1, <2>2
  <1> HIDE DEF n
  <1>4. Kept(n, s) /\ (Ended(s) \/ (s.rv = n.rv /\ s.entry \in EntryItem))
    <2>1. CASE Ended(n)
      BY <1>3, <2>1 DEF EntryShown, Kept
    <2>2. CASE ~Ended(n)
      <3> DEFINE entry == Shown(one, n.meta)
                 w == [n EXCEPT !.entry = entry, !.next_offset = EntryLength(entry),
                                !.remaining_size = @ - EntryLength(entry)]
      <3>1. entry \in EntryItem
        BY <1>3, <2>2, ShownItem
      <3>2. s = Fails(n) \/ s = w
        BY <2>2 DEF EntryShown
      <3>3. Kept(n, Fails(n)) /\ Ended(Fails(n))
        BY <1>3, FailsKept DEF Kept
      <3> HIDE DEF entry
      <3>4. DOMAIN w = DirFields /\ w.last = n.last /\ w.file = n.file /\ w.rv = n.rv /\ w.entry = entry
        BY <1>3 DEF Kept, DirFields
      <3> HIDE DEF w, s
      <3> QED BY <3>1, <3>2, <3>3, <3>4 DEF Kept
    <2> QED BY <2>1, <2>2
  <1> HIDE DEF s
  <1>5. Kept(d, s) /\ (Ended(s) \/ (s.rv = d.rv /\ s.entry \in EntryItem))
    <2>1. Ended(c) \/ Ended(b) \/ Ended(n) => Ended(s)
      <3>1. Ended(c) => Ended(b)
        BY <1>2 DEF Ended
      <3>2. Ended(b) => Ended(n)
        BY <1>3 DEF Ended
      <3>3. Ended(n) => Ended(s)
        BY <1>4 DEF Ended
      <3> QED BY <3>1, <3>2, <3>3
    <2> QED BY <1>1, <1>2, <1>3, <1>4, <2>1 DEF Kept
  <1>6. Kept(d, z) /\ Ended(z)
    <2>1. DOMAIN z = DirFields /\ z.last = d.last /\ z.file = d.file /\ z.rv \in {"end", "error"}
      BY DEF DirFields
    <2> QED BY <2>1 DEF Kept, Ended
  <1> HIDE DEF z
  <1>7. NextEntry(one, d) = IF Ended(d) THEN d ELSE IF d.remaining_size = 0 THEN z ELSE s
    BY DEF NextEntry, LoadEntry, z, s, n, b, c
  <1> QED BY <1>5, <1>6, <1>7 DEF Kept

-----------------------------------------------------------------------------
(* The order of names *)

\* Before, character by character.
LEMMA BeforeByCharacter ==
    ASSUME NEW a \in Seq(Nat), NEW b \in Seq(Nat)
    PROVE  Before(a, b) <=>
              \/ Len(a) < Len(b) /\ \A i \in 1..Len(a) : a[i] = b[i]
              \/ \E k \in 1..Len(a) : k <= Len(b) /\ a[k] < b[k] /\ \A i \in 1..(k - 1) : a[i] = b[i]
  <1>1. \A k \in 0..Len(a) : k <= Len(b) =>
            (SubSeq(a, 1, k) = SubSeq(b, 1, k) <=> \A i \in 1..k : a[i] = b[i])
    <2> SUFFICES ASSUME NEW k \in 0..Len(a), k <= Len(b)
                 PROVE  SubSeq(a, 1, k) = SubSeq(b, 1, k) <=> \A i \in 1..k : a[i] = b[i]
      OBVIOUS
    <2>1. SubSeq(a, 1, k) = [i \in 1..k |-> a[i]] /\ SubSeq(b, 1, k) = [i \in 1..k |-> b[i]]
      OBVIOUS
    <2> QED BY <2>1
  <1>2. SubSeq(a, 1, Len(a)) = a
    OBVIOUS
  <1>3. IsStrictPrefix(a, b) <=> Len(a) < Len(b) /\ \A i \in 1..Len(a) : a[i] = b[i]
    <2>1. IsPrefix(a, b) <=> Len(a) <= Len(b) /\ \A i \in 1..Len(a) : a[i] = b[i]
      BY <1>1 DEF IsPrefix
    <2>2. (Len(a) = Len(b) /\ \A i \in 1..Len(a) : a[i] = b[i]) => a = b
      OBVIOUS
    <2> QED BY <2>1, <2>2 DEF IsStrictPrefix
  <1>4. \A k \in 1..Len(a) : k <= Len(b) =>
            (SubSeq(a, 1, k - 1) = SubSeq(b, 1, k - 1) <=> \A i \in 1..(k - 1) : a[i] = b[i])
    BY <1>1
  <1> QED BY <1>3, <1>4 DEF Before

LEMMA BeforeIrreflexive == \A a \in Seq(Nat) : ~Before(a, a)
  BY BeforeByCharacter

LEMMA BeforeTransitive ==
    ASSUME NEW a \in Seq(Nat), NEW b \in Seq(Nat), NEW c \in Seq(Nat), Before(a, b), Before(b, c)
    PROVE  Before(a, c)
  <1> DEFINE Less(x, y, k) == k \in 1..Len(x) /\ k <= Len(y) /\ x[k] < y[k] /\ \A i \in 1..(k - 1) : x[i] = y[i]
             Shorter(x, y) == Len(x) < Len(y) /\ \A i \in 1..Len(x) : x[i] = y[i]
  <1>1. Shorter(a, b) \/ \E k \in 1..Len(a) : Less(a, b, k)
    BY BeforeByCharacter
  <1>2. Shorter(b, c) \/ \E k \in 1..Len(b) : Less(b, c, k)
    BY BeforeByCharacter
  <1>3. Len(a) \in Nat /\ Len(b) \in Nat /\ Len(c) \in Nat
    OBVIOUS
  <1>4. /\ \A i \in 1..Len(a) : a[i] \in Nat
        /\ \A i \in 1..Len(b) : b[i] \in Nat
        /\ \A i \in 1..Len(c) : c[i] \in Nat
    OBVIOUS
  <1>5. \A x, y, z \in Nat : x < y /\ (y = z \/ y < z) => x < z
    OBVIOUS
  <1>6. Shorter(a, c) \/ \E k \in 1..Len(a) : Less(a, c, k)
    <2>1. CASE Shorter(a, b) /\ Shorter(b, c)
      <3>1. Shorter(a, c)
        BY <1>3, <2>1
      <3> QED BY <3>1
    <2>2. CASE Shorter(a, b) /\ \E k \in 1..Len(b) : Less(b, c, k)
      <3> PICK k \in 1..Len(b) : Less(b, c, k)
        BY <2>2
      <3>1. CASE k <= Len(a)
        <4>1. Less(a, c, k)
          BY SMTT(30), <1>3, <1>4, <2>2, <3>1
        <4> QED BY <1>3, <3>1, <4>1
      <3>2. CASE k > Len(a)
        <4>1. \A i \in 1..(k - 1) : b[i] = c[i]
          OBVIOUS
        <4>2. k \in Nat /\ k <= Len(c)
          OBVIOUS
        <4>3. Len(a) < Len(c) /\ \A i \in 1..Len(a) : i \in 1..(k - 1)
          BY <1>3, <3>2, <4>2
        <4>4. \A i \in 1..Len(a) : a[i] = b[i]
          BY <2>2
        <4>5. Shorter(a, c)
          BY <4>1, <4>3, <4>4
        <4> QED BY <4>5
      <3> QED BY <1>3, <3>1, <3>2
    <2>3. CASE Shorter(b, c) /\ \E k \in 1..Len(a) : Less(a, b, k)
      <3> PICK k \in 1..Len(a) : Less(a, b, k)
        BY <2>3
      <3>1. k <= Len(b) /\ k <= Len(c) /\ b[k] = c[k]
        BY <1>3, <2>3
      <3>2. \A i \in 1..(k - 1) : a[i] = b[i] /\ i \in 1..Len(b)
        BY <1>3, <3>1
      <3>3. Less(a, c, k)
        BY <2>3, <3>1, <3>2
      <3> QED BY <3>3
    <2>4. CASE (\E k \in 1..Len(a) : Less(a, b, k)) /\ \E k \in 1..Len(b) : Less(b, c, k)
      <3>1. PICK k \in 1..Len(a) : Less(a, b, k)
        BY <2>4
      <3>2. PICK l \in 1..Len(b) : Less(b, c, l)
        BY <2>4
      <3>3. /\ k \in Nat /\ 1 <= k /\ k <= Len(a) /\ k <= Len(b)
            /\ l \in Nat /\ 1 <= l /\ l <= Len(b) /\ l <= Len(c)
        BY <1>3, <3>1, <3>2
      <3>4. a[k] < b[k] /\ \A i \in 1..(k - 1) : a[i] = b[i]
        BY <3>1
      <3>5. b[l] < c[l] /\ \A i \in 1..(l - 1) : b[i] = c[i]
        BY <3>2
      <3>6. CASE k <= l
        <4>1. a[k] \in Nat /\ b[k] \in Nat /\ c[k] \in Nat
          BY <1>3, <1>4, <3>3, <3>6
        <4>2. b[k] = c[k] \/ b[k] < c[k]
          <5>1. k = l \/ k \in 1..(l - 1)
            BY <3>3, <3>6
          <5>2. CASE k = l
            BY <3>5, <5>2
          <5>3. CASE k \in 1..(l - 1)
            BY <3>5, <5>3
          <5> QED BY <5>1, <5>2, <5>3
        <4>3. a[k] < c[k]
          BY <1>5, <3>4, <4>1, <4>2
        <4>4. \A i \in 1..(k - 1) : i \in 1..(l - 1)
          BY <3>3, <3>6
        <4>5. \A i \in 1..(k - 1) : a[i] = c[i]
          BY <3>4, <3>5, <4>4
        <4>6. Less(a, c, k)
          BY <1>3, <3>3, <3>6, <4>3, <4>5
        <4> QED BY <4>6
      <3>7. CASE l < k
        <4>1. l \in 1..Len(a)
          BY <3>3, <3>7
        <4>2. \A i \in 1..l : i \in 1..(k - 1)
          BY <3>3, <3>7
        <4>3. a[l] = b[l] /\ \A i \in 1..(l - 1) : i \in 1..l
          <5>1. l \in 1..(k - 1)
            BY <3>3, <3>7
          <5>2. a[l] = b[l]
            BY <3>4, <5>1
          <5>3. \A i \in 1..(l - 1) : i \in 1..l
            BY <3>3
          <5> QED BY <5>2, <5>3
        <4>4. a[l] < c[l]
          BY <3>5, <4>3
        <4>5. \A i \in 1..(l - 1) : a[i] = c[i]
          BY <3>4, <3>5, <4>2, <4>3
        <4>6. Less(a, c, l)
          BY <3>3, <3>7, <4>1, <4>4, <4>5
        <4> QED BY <4>1, <4>6
      <3> QED BY <3>3, <3>6, <3>7
    <2> QED BY <1>1, <1>2, <2>1, <2>2, <2>3, <2>4
  <1> QED BY <1>6, BeforeByCharacter

-----------------------------------------------------------------------------
(* An entry that is answered *)

\* check_entry_consistency and update_inode: an entry comes after the one before it.
LEMMA FinalizedChecks ==
    ASSUME NEW d, DOMAIN d = DirFields, Ended(d) \/ d.entry \in EntryItem
    PROVE  LET e == Finalized(d)
           IN  /\ DOMAIN e = DirFields /\ e.file = d.file
               /\ \/ Ended(e)
                  \/ /\ e.rv = d.rv /\ e.last = e.entry.name /\ e.last \in Name /\ ~IsBadName(e.last)
                     /\ e.inode \in 1..InodeMax
                     /\ d.last = <<>> \/ Before(d.last, e.last)
  <1> DEFINE e == Finalized(d)
             name == d.entry.name
             inode == d.inode_base + d.entry.offset
             f == [d EXCEPT !.last = name, !.inode = inode]
  <1>1. CASE Ended(d)
    BY <1>1 DEF Finalized
  <1>2. CASE ~Ended(d)
    <2>1. e = Fails(d) \/ (/\ e = f /\ ~IsBadName(name) /\ inode \in 1..InodeMax
                           /\ d.last = <<>> \/ Before(d.last, name))
      BY <1>2 DEF Finalized
    <2>2. name \in Name
      BY <1>2 DEF EntryItem
    <2> HIDE DEF name, inode
    <2>3. DOMAIN f = DirFields /\ f.file = d.file /\ f.rv = d.rv /\ f.last = name /\ f.inode = inode /\ f.entry = d.entry
      BY DEF DirFields
    <2>4. d.entry.name = name
      BY DEF name
    <2>5. DOMAIN Fails(d) = DirFields /\ Fails(d).file = d.file /\ Ended(Fails(d))
      BY FailsKept DEF Kept
    <2> HIDE DEF e, f
    <2>6. /\ DOMAIN e = DirFields /\ e.file = d.file
          /\ \/ Ended(e)
             \/ /\ e.rv = d.rv /\ e.last = e.entry.name /\ e.last \in Name /\ ~IsBadName(e.last)
                /\ e.inode \in 1..InodeMax
                /\ d.last = <<>> \/ Before(d.last, e.last)
      BY <2>1, <2>2, <2>3, <2>4, <2>5
    <2> QED BY <2>6 DEF e
  <1> QED BY <1>1, <1>2

\* sqsh_directory_iterator_next, over any archive.
LEMMA DirectoryNextChecks ==
    ASSUME NEW one \in Archives, NEW d, DOMAIN d = DirFields
    PROVE  LET e == DirectoryNext(one, d)
           IN  /\ DOMAIN e = DirFields /\ e.file = d.file
               /\ \/ Ended(e)
                  \/ /\ e.rv = d.rv /\ e.last = e.entry.name /\ e.last \in Name /\ ~IsBadName(e.last)
                     /\ e.inode \in 1..InodeMax
                     /\ d.last = <<>> \/ Before(d.last, e.last)
  <1> DEFINE n == NextEntry(one, d)
             e == DirectoryNext(one, d)
  <1>1. Kept(d, n) /\ (Ended(n) \/ (n.rv = d.rv /\ n.entry \in EntryItem))
    BY NextKept
  <1>2. e = Finalized(n)
    BY DEF DirectoryNext
  <1> HIDE DEF n, e
  <1>3. /\ DOMAIN e = DirFields /\ e.file = n.file
        /\ \/ Ended(e)
           \/ /\ e.rv = n.rv /\ e.last = e.entry.name /\ e.last \in Name /\ ~IsBadName(e.last)
              /\ e.inode \in 1..InodeMax
              /\ n.last = <<>> \/ Before(n.last, e.last)
    BY <1>1, <1>2, FinalizedChecks DEF Kept
  <1>4. Ended(n) => Ended(e)
    BY <1>2 DEF Finalized
  <1>5. /\ DOMAIN e = DirFields /\ e.file = d.file
        /\ \/ Ended(e)
           \/ /\ e.rv = d.rv /\ e.last = e.entry.name /\ e.last \in Name /\ ~IsBadName(e.last)
              /\ e.inode \in 1..InodeMax
              /\ d.last = <<>> \/ Before(d.last, e.last)
    BY <1>1, <1>3, <1>4 DEF Kept
  <1> QED BY <1>5 DEF e

LEMMA FreshDirectoryFields ==
    ASSUME NEW file
    PROVE  LET d == FreshDirectory(file)
           IN  DOMAIN d = DirFields /\ d.last = <<>> /\ d.rv \in {"next", "error"} /\ d.file = file.ref
  BY DEF FreshDirectory, LoadMetablock, DirFields

-----------------------------------------------------------------------------
(* Directory handles *)

Entry == [name : Name, ino : Nat]
LastName(entries) == IF entries = <<>> THEN <<>> ELSE entries[Len(entries)].name

\* A handle's iterator knows the name that was listed last as long as it goes on.
SafeHandle(x) ==
    \/ x = NoDir
    \/ /\ DOMAIN x = {"open", "dir", "iterator", "listing"} /\ x.open = TRUE
       /\ DOMAIN x.iterator = DirFields
       /\ x.listing.entries \in Seq(Entry)
       /\ SafeListing(x.listing.entries)
       /\ x.iterator.rv = "next" => x.iterator.last = LastName(x.listing.entries)

HandlesSafe ==
    /\ archive \in Archives
    /\ DOMAIN handle = Handles
    /\ \A h \in Handles : SafeHandle(handle[h])

\* An entry that comes after the last one keeps a listing safe.
LEMMA AppendSafe ==
    ASSUME NEW entries \in Seq(Entry), SafeListing(entries), NEW e \in Entry, ~IsBadName(e.name),
           e.ino > FuseRoot, LastName(entries) = <<>> \/ Before(LastName(entries), e.name)
    PROVE  LET more == Append(entries, e)
           IN  more \in Seq(Entry) /\ SafeListing(more) /\ LastName(more) = e.name
  <1> DEFINE more == Append(entries, e)
             n == Len(entries)
  <1>1. n \in Nat /\ more \in Seq(Entry) /\ Len(more) = n + 1 /\ more # <<>> /\ more[n + 1] = e
    OBVIOUS
  <1>2. /\ DOMAIN more = 1..(n + 1) /\ DOMAIN entries = 1..n
        /\ \A k \in 1..n : more[k] = entries[k] /\ entries[k] \in Entry
    OBVIOUS
  <1>3. LastName(more) = e.name
    BY <1>1 DEF LastName
  <1>4. \A k \in 1..n : Before(entries[k].name, e.name)
    <2> SUFFICES ASSUME NEW k \in 1..n PROVE Before(entries[k].name, e.name)
      OBVIOUS
    <2>1. entries # <<>> /\ n \in 1..n
      BY <1>1
    <2>2. LastName(entries) = entries[n].name
      BY <2>1 DEF LastName
    <2>3. entries[n].name \in Name /\ entries[k].name \in Name /\ e.name \in Name
      BY <1>2, <2>1 DEF Entry
    <2>4. Before(entries[n].name, e.name)
      BY <2>2, <2>3 DEF Name
    <2>5. CASE k = n
      BY <2>4, <2>5
    <2>6. CASE k < n
      <3>1. Before(entries[k].name, entries[n].name)
        BY <1>2, <2>1, <2>6 DEF SafeListing
      <3> QED BY <2>3, <2>4, <3>1, BeforeTransitive DEF Name
    <2> QED BY <1>1, <2>5, <2>6
  <1>5. SafeListing(more)
    <2>1. \A k \in DOMAIN more : k = n + 1 \/ k \in 1..n
      BY <1>1, <1>2
    <2>2. \A k \in DOMAIN more : ~IsBadName(more[k].name) /\ more[k].ino > FuseRoot
      BY <1>1, <1>2, <2>1 DEF SafeListing
    <2>3. ASSUME NEW j \in DOMAIN more, NEW k \in DOMAIN more, j < k
          PROVE  Before(more[j].name, more[k].name)
      <3>1. j \in 1..n
        BY <1>1, <1>2, <2>3
      <3>2. CASE k = n + 1
        BY <1>1, <1>2, <1>4, <3>1, <3>2
      <3>3. CASE k \in 1..n
        BY <1>2, <2>3, <3>1, <3>3 DEF SafeListing
      <3> QED BY <2>1, <3>2, <3>3
    <2> HIDE DEF more
    <2> QED BY <2>2, <2>3 DEF SafeListing
  <1> QED BY <1>1, <1>3, <1>5

\* fs_opendir: a handle begins before the first entry.
LEMMA OpenDirSafe ==
    ASSUME HandlesSafe, archive' = archive, NEW ino, NEW h \in Handles, NEW d,
           DOMAIN d = DirFields, d.last = <<>>, OpenDirIterator(ino, h, d)
    PROVE  HandlesSafe'
  <1> DEFINE x == [open |-> TRUE, dir |-> d.file, iterator |-> d, listing |-> NoListing]
  <1>1. CASE d.rv = "error"
    BY <1>1 DEF OpenDirIterator, OpenDirFails, HandlesSafe
  <1>2. CASE d.rv # "error"
    <2>1. handle' = [handle EXCEPT ![h] = x]
      BY <1>2 DEF OpenDirIterator
    <2>2. SafeHandle(x)
      <3>1. x.listing.entries = <<>>
        BY DEF NoListing
      <3>2. <<>> \in Seq(Entry) /\ SafeListing(<<>>) /\ LastName(<<>>) = <<>>
        BY DEF SafeListing, LastName
      <3> QED BY <3>1, <3>2 DEF SafeHandle
    <2> HIDE DEF x
    <2> QED BY <2>1, <2>2 DEF HandlesSafe
  <1> QED BY <1>1, <1>2

\* fs_readdir: the entry that is answered comes after those before it.
LEMMA ReadDirSafe ==
    ASSUME HandlesSafe, archive' = archive, NEW h \in Handles, ReadDir(h)
    PROVE  HandlesSafe'
  <1> DEFINE x == handle[h]
             d == x.iterator
             e == DirectoryNext(archive, d)
             l == ListingWith(x.listing, e)
             y == [x EXCEPT !.iterator = e, !.listing = l]
  <1>1. x # NoDir /\ d.rv = "next"
    <2>1. handle[h].open
      BY DEF ReadDir
    <2>2. NoDir.open = FALSE
      BY DEF NoDir
    <2> QED BY <2>1, <2>2 DEF ReadDir
  <1>2. /\ DOMAIN x = {"open", "dir", "iterator", "listing"} /\ x.open = TRUE
        /\ DOMAIN d = DirFields
        /\ x.listing.entries \in Seq(Entry)
        /\ SafeListing(x.listing.entries)
        /\ d.last = LastName(x.listing.entries)
    BY <1>1 DEF HandlesSafe, SafeHandle
  <1>3. handle' = [handle EXCEPT ![h] = y]
    <2> HIDE DEF e
    <2> QED BY DEF ReadDir, ReadDirAnswer, e
  <1>4. /\ DOMAIN e = DirFields
        /\ \/ Ended(e)
           \/ /\ e.rv = d.rv /\ e.last = e.entry.name /\ e.last \in Name /\ ~IsBadName(e.last)
              /\ e.inode \in 1..InodeMax
              /\ d.last = <<>> \/ Before(d.last, e.last)
    <2>1. archive \in Archives
      BY DEF HandlesSafe
    <2> QED BY <1>2, <2>1, DirectoryNextChecks
  <1> HIDE DEF e
  <1>5. /\ l.entries \in Seq(Entry) /\ SafeListing(l.entries)
        /\ e.rv = "next" => e.last = LastName(l.entries)
    <2>1. CASE e.rv = "next"
      <3> DEFINE n == [name |-> e.entry.name, ino |-> ToIno(e.inode)]
      <3>1. ~Ended(e)
        BY <2>1 DEF Ended
      <3>2. n \in Entry /\ ~IsBadName(n.name) /\ n.ino > FuseRoot /\ n.name = e.last
        <4>1. e.inode + 1 \in Nat /\ e.inode + 1 > 1
          BY <1>4, <3>1, InodeMaxAssumption
        <4> QED BY <1>4, <3>1, <4>1 DEF Entry, ToIno, FuseRoot
      <3>3. l.entries = Append(x.listing.entries, n)
        BY <2>1 DEF ListingWith
      <3>4. LastName(x.listing.entries) = <<>> \/ Before(LastName(x.listing.entries), n.name)
        BY <1>2, <1>4, <3>1, <3>2
      <3> HIDE DEF n, l, x
      <3> QED BY <1>2, <3>2, <3>3, <3>4, AppendSafe
    <2>2. CASE e.rv # "next"
      BY <1>2, <2>2 DEF ListingWith
    <2> QED BY <2>1, <2>2
  <1> HIDE DEF l
  <1>6. SafeHandle(y)
    <2>1. DOMAIN y = {"open", "dir", "iterator", "listing"} /\ y.open = TRUE /\ y.iterator = e /\ y.listing = l
      BY <1>2
    <2> HIDE DEF y
    <2> QED BY <1>4, <1>5, <2>1 DEF SafeHandle
  <1> HIDE DEF y
  <1> QED BY <1>3, <1>6 DEF HandlesSafe

\* What a request leaves of the directory handles.
LEMMA HandlesRequest ==
    ASSUME HandlesSafe, archive' = archive, Request
    PROVE  HandlesSafe'
  <1>1. handle' = handle => HandlesSafe'
    BY DEF HandlesSafe
  <1>2. ASSUME NEW ino, NEW f, Asked(ino, f)
        PROVE  HandlesSafe'
    <2>1. ASSUME NEW name, NEW again, Lookup(ino, f, name, again)
          PROVE  handle' = handle
      BY <2>1 DEF Lookup, LookupFound, LookupOpened, LookupEntered, LookupFails
    <2>2. ASSUME NEW h \in Handles, OpenDir(ino, f, h)
          PROVE  HandlesSafe'
      <3>1. CASE OpenDirIterator(ino, h, FreshDirectory(f.file))
        BY <3>1, FreshDirectoryFields, OpenDirSafe
      <3>2. CASE OpenDirFails(ino)
        BY <1>1, <3>2 DEF OpenDirFails
      <3> QED BY <2>2, <3>1, <3>2 DEF OpenDir
    <2>3. GetAttr(ino, f) \/ Access(ino, f) \/ OpenFile(ino, f) \/ ReadLink(ino, f) => handle' = handle
      BY DEF GetAttr, Access, OpenFile, ReadLink
    <2>4. \A size, name : ListXattr(ino, f, size) \/ GetXattr(ino, f, name, size) => handle' = handle
      BY DEF ListXattr, GetXattr
    <2> QED BY <1>1, <1>2, <2>1, <2>2, <2>3, <2>4 DEF Asked
  <1>3. ASSUME NEW h \in Handles, ReleaseDir(h)
        PROVE  HandlesSafe'
    <2>1. handle' = [handle EXCEPT ![h] = NoDir]
      BY <1>3 DEF ReleaseDir
    <2> QED BY <2>1 DEF HandlesSafe, SafeHandle
  <1>4. ASSUME NEW h \in Handles, handle[h].open, handle' = [handle EXCEPT ![h].iterator.rv = "error"]
        PROVE  HandlesSafe'
    <2> DEFINE x == handle[h]
               d == [x.iterator EXCEPT !.rv = "error"]
               y == [x EXCEPT !.iterator = d]
    <2>1. x # NoDir
      <3>1. NoDir.open = FALSE
        BY DEF NoDir
      <3> QED BY <1>4, <3>1
    <2>2. /\ DOMAIN x = {"open", "dir", "iterator", "listing"} /\ x.open = TRUE
          /\ DOMAIN x.iterator = DirFields
          /\ x.listing.entries \in Seq(Entry) /\ SafeListing(x.listing.entries)
      BY <2>1 DEF HandlesSafe, SafeHandle
    <2>3. handle' = [handle EXCEPT ![h] = y]
      BY <1>4
    <2>4. DOMAIN d = DirFields /\ d.rv = "error"
      BY <2>2 DEF DirFields
    <2> HIDE DEF d
    <2>5. DOMAIN y = DOMAIN x /\ y.open = TRUE /\ y.iterator = d /\ y.listing = x.listing
      BY <2>2
    <2> HIDE DEF y
    <2>6. SafeHandle(y)
      BY <2>2, <2>4, <2>5 DEF SafeHandle
    <2> QED BY <2>3, <2>6 DEF HandlesSafe
  <1> QED BY <1>1, <1>2, <1>3, <1>4, ReadDirSafe DEF Request, ReadFails

\* The directory handles are safe in every state.
LEMMA HandlesInvariant == MountSpec => []HandlesSafe
  <1>1. MountInit => HandlesSafe
    BY DEF MountInit, HandlesSafe, SafeHandle
  <1>2. HandlesSafe /\ [MountNext]_mountVars => HandlesSafe'
    <2> SUFFICES ASSUME HandlesSafe, [MountNext]_mountVars PROVE HandlesSafe'
      OBVIOUS
    <2>1. CASE MountNext
      <3>1. CASE Request
        BY <2>1, <3>1, HandlesRequest DEF MountNext
      <3>2. CASE Taken
        BY <2>1, <3>2 DEF MountNext, Taken, HandlesSafe
      <3> QED BY <2>1, <3>1, <3>2 DEF MountNext
    <2>2. CASE UNCHANGED mountVars
      BY <2>2 DEF mountVars, HandlesSafe
    <2> QED BY <2>1, <2>2
  <1> QED BY <1>1, <1>2, PTL DEF MountSpec

\* What an open handle has listed is a safe listing.
ListsSafely == \A h \in Handles : handle[h].open => SafeListing(handle[h].listing.entries)

\* Whatever the tables of an archive hold, a directory that is read answers no name that leaves it,
\* no inode that is the root's, and its names in ascending order, so that none comes twice
\* (check_entry_consistency, update_inode, fs_readdir).
THEOREM ListingsAreSafe == MountSpec => []ListsSafely
  <1>1. HandlesSafe => ListsSafely
    <2> SUFFICES ASSUME HandlesSafe, NEW h \in Handles, handle[h].open
                 PROVE  SafeListing(handle[h].listing.entries)
      BY DEF ListsSafely
    <2>1. handle[h] # NoDir
      BY DEF NoDir
    <2> QED BY <2>1 DEF HandlesSafe, SafeHandle
  <1> QED BY <1>1, HandlesInvariant, PTL

-----------------------------------------------------------------------------
(* Inode numbers *)

\* What the kernel knows of an archive with an export table is in the table.
KnownExported ==
    /\ archive \in Archives
    /\ FuseRoot \in DOMAIN known /\ known[FuseRoot] = archive.root
    /\ archive.exported => \A ino \in DOMAIN known :
          ino # FuseRoot => /\ FromIno(ino) \in 1..archive.inode_count
                            /\ Exported(archive, FromIno(ino)) = known[ino]

\* fs_lookup tells the kernel of an inode only after it has been entered in the map.
LEMMA LookupKnows ==
    ASSUME NEW ino, NEW f, NEW name, NEW again, Lookup(ino, f, name, again)
    PROVE  \/ known' = known
           \/ LET d == DirectoryLookup(archive, f.file, FreshDirectory(f.file), name)
                  child == Opened(archive, f.map, EntryRef(d), again)
                  set == MapSet(archive, child.map, child.file.inode.number, child.file.ref, again)
              IN  /\ f.file.rv = "ok" /\ ~Ended(d) /\ child.file.rv = "ok" /\ set.ok
                  /\ map' = set.map
                  /\ known' = Told(ToIno(child.file.inode.number), child.file.ref)
  <1> DEFINE d == DirectoryLookup(archive, f.file, FreshDirectory(f.file), name)
             child == Opened(archive, f.map, EntryRef(d), again)
             set == MapSet(archive, child.map, child.file.inode.number, child.file.ref, again)
  <1>1. \A m, rv : LookupFails(ino, name, m, rv) => known' = known
    BY DEF LookupFails
  <1>2. CASE f.file.rv = "ok" /\ ~Ended(d)
    <2>1. LookupOpened(ino, name, child, again)
      BY <1>2 DEF Lookup, LookupFound, Ended
    <2> HIDE DEF d, child
    <2>2. known' = known \/ (child.file.rv = "ok" /\ LookupEntered(ino, name, child, set))
      BY <1>1, <2>1 DEF LookupOpened
    <2> HIDE DEF set
    <2>3. known' = known \/ (/\ child.file.rv = "ok" /\ set.ok /\ map' = set.map
                             /\ known' = Told(ToIno(child.file.inode.number), child.file.ref))
      BY <1>1, <2>2 DEF LookupEntered
    <2> QED BY <1>2, <2>3 DEF d, child, set
  <1>3. CASE f.file.rv = "ok" /\ Ended(d)
    <2> HIDE DEF d
    <2>1. LookupFound(ino, name, f.map, d, again)
      BY <1>3 DEF Lookup, d
    <2> QED BY <1>1, <1>3, <2>1 DEF LookupFound, Ended
  <1>4. CASE f.file.rv # "ok"
    BY <1>1, <1>4 DEF Lookup
  <1> QED BY <1>2, <1>3, <1>4

\* Only a lookup tells the kernel of an inode.
LEMMA RequestKnows ==
    ASSUME Request
    PROVE  \/ known' = known
           \/ \E ino \in DOMAIN known, name \in Names, memory, again \in Memory :
                 TypeOfIno(ino) = "directory" /\ Lookup(ino, FileOpen(ino, memory), name, again)
  <1>1. ASSUME NEW ino, NEW f, NEW h, OpenDir(ino, f, h)
        PROVE  known' = known
    BY <1>1 DEF OpenDir
  <1>2. \A ino, f : GetAttr(ino, f) \/ Access(ino, f) \/ OpenFile(ino, f) \/ ReadLink(ino, f) => known' = known
    BY DEF GetAttr, Access, OpenFile, ReadLink
  <1>3. \A ino, f, size, name : ListXattr(ino, f, size) \/ GetXattr(ino, f, name, size) => known' = known
    BY DEF ListXattr, GetXattr
  <1>4. (\E h \in Handles : ReadDir(h) \/ ReleaseDir(h)) \/ ReadFails => known' = known
    BY DEF ReadDir, ReleaseDir, ReadFails
  <1> QED BY <1>1, <1>2, <1>3, <1>4 DEF Request, Asked

LEMMA KnownExportedStep ==
    ASSUME KnownExported, archive' = archive, Request
    PROVE  KnownExported'
  <1>1. known' = known => KnownExported'
    BY DEF KnownExported
  <1>2. ASSUME NEW ino, NEW name, NEW memory, NEW again, Lookup(ino, FileOpen(ino, memory), name, again)
        PROVE  KnownExported'
    <2> DEFINE f == FileOpen(ino, memory)
               d == DirectoryLookup(archive, f.file, FreshDirectory(f.file), name)
               child == Opened(archive, f.map, EntryRef(d), again)
               n == child.file.inode.number
               ref == child.file.ref
               set == MapSet(archive, child.map, n, ref, again)
    <2>1. known' = known \/ (set.ok /\ known' = Told(ToIno(n), ref))
      BY <1>2, LookupKnows
    <2> HIDE DEF f, d, child, n, ref
    <2>2. CASE set.ok /\ known' = Told(ToIno(n), ref)
      <3>1. n \in 1..archive.inode_count /\ (archive.exported => Exported(archive, n) = ref)
        <4>1. CASE n \notin 1..archive.inode_count
          <5>1. set = [map |-> child.map, ok |-> FALSE]
            BY <4>1 DEF MapSet
          <5> HIDE DEF set
          <5> QED BY <2>2, <5>1
        <4>2. CASE n \in 1..archive.inode_count /\ archive.exported
          <5>1. set = [map |-> child.map, ok |-> Exported(archive, n) = ref]
            BY <4>2 DEF MapSet
          <5> HIDE DEF set
          <5> QED BY <2>2, <4>2, <5>1
        <4> QED BY <4>1, <4>2
      <3>2. archive.inode_count \in Nat
        BY ArchivesAssumption DEF KnownExported
      <3>3. ToIno(n) # FuseRoot /\ FromIno(ToIno(n)) = n
        BY <3>1, <3>2 DEF ToIno, FromIno, FuseRoot
      <3>4. /\ DOMAIN known' = {ToIno(n)} \cup DOMAIN known /\ known'[ToIno(n)] = ref
            /\ \A i \in DOMAIN known \ {ToIno(n)} : known'[i] = known[i]
        BY <2>2 DEF Told
      <3> QED BY <3>1, <3>3, <3>4 DEF KnownExported
    <2> HIDE DEF set
    <2> QED BY <1>1, <2>1, <2>2
  <1> QED BY <1>1, <1>2, RequestKnows

\* With an export table an inode that the kernel knows stands for the reference it was told with,
\* whatever else the archive holds (export_table_set, fs_lookup).
THEOREM ExportedInodesResolve ==
    MountSpec => [](archive.exported => \A ino \in DOMAIN known : RefOf(ino) = known[ino])
  <1>1. MountInit => KnownExported
    BY DEF MountInit, KnownExported
  <1>2. KnownExported /\ [MountNext]_mountVars => KnownExported'
    <2> SUFFICES ASSUME KnownExported, [MountNext]_mountVars PROVE KnownExported'
      OBVIOUS
    <2>1. CASE MountNext
      <3>1. CASE Request
        BY <2>1, <3>1, KnownExportedStep DEF MountNext
      <3>2. CASE Taken
        BY <2>1, <3>2 DEF MountNext, Taken, KnownExported
      <3> QED BY <2>1, <3>1, <3>2 DEF MountNext
    <2>2. CASE UNCHANGED mountVars
      BY <2>2 DEF mountVars, KnownExported
    <2> QED BY <2>1, <2>2
  <1>3. KnownExported => (archive.exported => \A ino \in DOMAIN known : RefOf(ino) = known[ino])
    BY DEF KnownExported, RefOf, MapGet
  <1> QED BY <1>1, <1>2, <1>3, PTL DEF MountSpec

-----------------------------------------------------------------------------
\* Induction for a set that is given: it holds all numbers.
LEMMA EveryNumber ==
    ASSUME NEW S, 0 \in S, \A n \in Nat : n \in S => n + 1 \in S
    PROVE  Nat \subseteq S
  <1> DEFINE T == Nat \ S
             less == {p \in Nat \X Nat : p[1] < p[2]}
  <1>1. SUFFICES ASSUME T # {} PROVE FALSE
    OBVIOUS
  <1>2. IsWellFoundedOn(less, Nat)
    BY NatLessThanWellFounded DEF OpToRel
  <1>3. PICK x \in T : \A y \in T : <<y, x>> \notin less
    <2> HIDE DEF less, T
    <2>1. T \subseteq Nat
      BY DEF T
    <2> QED BY <1>1, <1>2, <2>1, WFMin
  <1>4. x # 0 /\ x - 1 \in Nat /\ <<x - 1, x>> \in less
    BY <1>3
  <1>5. x - 1 \in S
    BY <1>3, <1>4
  <1> QED BY <1>3, <1>4, <1>5

-----------------------------------------------------------------------------
(* Tables *)

LEMMA Starts ==
    /\ Start(1) = 0 /\ MetaSize \in Nat \ {0}
    /\ \A b \in Nat \ {0} : Start(b) \in Nat /\ Start(b + 1) = Start(b) + MetaSize
    /\ \A b, c \in Nat \ {0} : b < c => Start(b) + MetaSize <= Start(c)
  BY MetaSizeAssumption DEF Start

LEMMA BlockOfPlace ==
    ASSUME NEW p \in Nat
    PROVE  /\ BlockOf(p) \in Nat \ {0} /\ p = Start(BlockOf(p)) + (p % MetaSize)
           /\ p % MetaSize \in 0..(MetaSize - 1)
  <1>1. p = MetaSize * (p \div MetaSize) + (p % MetaSize) /\ p % MetaSize \in 0..(MetaSize - 1)
        /\ p \div MetaSize \in Nat
    BY MetaSizeAssumption
  <1> DEFINE q == p \div MetaSize
  <1>2. BlockOf(p) = q + 1
    BY DEF BlockOf
  <1> HIDE DEF q
  <1>3. Start(q + 1) = MetaSize * q
    BY <1>1, MetaSizeAssumption DEF Start, q
  <1> QED BY <1>1, <1>2, <1>3 DEF q

LEMMA PlaceInBlock ==
    ASSUME NEW b \in Nat \ {0}, NEW k \in 0..(MetaSize - 1)
    PROVE  BlockOf(Start(b) + k) = b /\ (Start(b) + k) % MetaSize = k
  <1> DEFINE q == b - 1
  <1>1. q \in Nat /\ Start(b) = q * MetaSize /\ b = q + 1
    BY DEF Start
  <1>2. (q * MetaSize + k) \div MetaSize = q /\ (q * MetaSize + k) % MetaSize = k
    BY <1>1, MetaSizeAssumption
  <1> QED BY <1>1, <1>2 DEF BlockOf

LEMMA CutBlock ==
    ASSUME NEW t, Cut(t), NEW b \in 1..Len(t)
    PROVE  /\ b \in Nat \ {0} /\ Len(t) \in Nat
           /\ t[b].address \in Nat /\ t[b].stored \in 1..MetaSize /\ t[b].bytes \in Seq(Nat \X Nat)
           /\ Len(t[b].bytes) \in 1..MetaSize /\ MetaSize \in Nat
           /\ Start(b) \in Nat /\ Start(b + 1) = Start(b) + MetaSize
           /\ TableLength(t) \in Nat /\ Start(b) + Len(t[b].bytes) <= TableLength(t)
           /\ b < Len(t) => /\ Len(t[b].bytes) = MetaSize /\ b + 1 \in 1..Len(t)
                            /\ t[b + 1].address = t[b].address + MetaHeader + t[b].stored
           /\ b = Len(t) => Start(b) + Len(t[b].bytes) = TableLength(t)
  <1> DEFINE R == [address : Nat, stored : 1..MetaSize, bytes : Seq(Nat \X Nat)]
  <1>1. t \in Seq(R) /\ Len(t) \in Nat
    BY DEF Cut
  <1>2. \A c \in 1..Len(t) : t[c] \in R
    <2> HIDE DEF R
    <2> QED BY <1>1
  <1>3. \A c \in 1..Len(t) : /\ t[c].address \in Nat /\ t[c].stored \in 1..MetaSize
                             /\ t[c].bytes \in Seq(Nat \X Nat) /\ Len(t[c].bytes) \in Nat
    BY <1>2
  <1>4. MetaSize \in Nat /\ b \in Nat \ {0} /\ Start(b) \in Nat /\ Start(b + 1) = Start(b) + MetaSize
    <2>1. b \in Nat \ {0}
      BY <1>1
    <2> QED BY <2>1, Starts
  <1>5. \A c \in 1..Len(t) : /\ Len(t[c].bytes) \in 1..MetaSize
                             /\ c < Len(t) => /\ Len(t[c].bytes) = MetaSize
                                              /\ t[c + 1].address = t[c].address + MetaHeader + t[c].stored
    BY DEF Cut
  <1> DEFINE z == Len(t)
  <1>6. TableLength(t) = Start(z) + Len(t[z].bytes) /\ z \in 1..z /\ z \in Nat \ {0}
    BY <1>1 DEF TableLength
  <1>7. Start(z) \in Nat /\ Len(t[z].bytes) \in Nat
    BY <1>3, <1>6, Starts
  <1>8. b < z => Start(b) + MetaSize <= Start(z)
    BY <1>4, <1>6, Starts
  <1>9. Len(t[b].bytes) \in 1..MetaSize /\ Len(t[b].bytes) \in Nat
    BY <1>3, <1>5
  <1> HIDE DEF z, R
  <1>10. Start(b) + Len(t[b].bytes) <= TableLength(t) /\ TableLength(t) \in Nat
    <2>1. CASE b < z
      <3>1. Start(b) + MetaSize <= Start(z) /\ Len(t[b].bytes) <= MetaSize
        BY <1>8, <1>9, <2>1
      <3>2. TableLength(t) \in Nat /\ Start(z) <= TableLength(t)
        BY <1>6, <1>7
      <3>3. Start(b) + Len(t[b].bytes) <= Start(z)
        BY <1>4, <1>7, <1>9, <3>1
      <3> QED BY <1>4, <1>7, <1>9, <3>2, <3>3
    <2>2. CASE b = z
      BY <1>4, <1>6, <1>7, <1>9, <2>2
    <2> QED BY <1>1, <2>1, <2>2 DEF z
  <1>11. b = Len(t) => Start(b) + Len(t[b].bytes) = TableLength(t)
    BY <1>6 DEF z
  <1>12. b < Len(t) => b + 1 \in 1..Len(t)
    BY <1>1, <1>4
  <1>13. b < Len(t) => Len(t[b].bytes) = MetaSize /\ t[b + 1].address = t[b].address + MetaHeader + t[b].stored
    BY <1>5
  <1>14. t[b].address \in Nat /\ t[b].stored \in 1..MetaSize /\ t[b].bytes \in Seq(Nat \X Nat)
    BY <1>3
  <1> QED BY <1>1, <1>4, <1>9, <1>10, <1>11, <1>12, <1>13, <1>14

\* A part of a sequence: its length and its elements.
LEMMA PartOf ==
    ASSUME NEW T, NEW s \in Seq(T), NEW a \in Nat, NEW n \in Nat, a + n <= Len(s)
    PROVE  /\ SubSeq(s, a + 1, a + n) \in Seq(T) /\ Len(SubSeq(s, a + 1, a + n)) = n
           /\ \A k \in 1..n : SubSeq(s, a + 1, a + n)[k] = s[a + k]
  OBVIOUS

\* The part of a sequence that is all of it.
LEMMA WholeOf ==
    ASSUME NEW T, NEW s \in Seq(T)
    PROVE  SubSeq(s, 1, Len(s)) = s
  <1> DEFINE u == SubSeq(s, 1, Len(s))
  <1>1. u \in Seq(T) /\ Len(u) = Len(s) /\ \A k \in 1..Len(u) : u[k] = s[k]
    OBVIOUS
  <1> HIDE DEF u
  <1>2. u = s
    BY <1>1, SeqEqual
  <1> QED BY <1>2 DEF u

\* Metablocks ascend.
LEMMA Addresses ==
    ASSUME NEW t, Cut(t), NEW b \in 1..Len(t), NEW c \in 1..Len(t), t[b].address = t[c].address
    PROVE  b = c
  <1> DEFINE S == {n \in Nat : \A d \in 1..Len(t) : \A e \in 1..Len(t) :
                                   e = d + n + 1 => t[d].address < t[e].address}
  <1>1. \A d \in 1..Len(t) : /\ t[d].address \in Nat /\ d \in Nat
                             /\ d < Len(t) => d + 1 \in 1..Len(t) /\ t[d].address < t[d + 1].address
    <2> SUFFICES ASSUME NEW d \in 1..Len(t)
                 PROVE  /\ t[d].address \in Nat /\ d \in Nat
                        /\ d < Len(t) => d + 1 \in 1..Len(t) /\ t[d].address < t[d + 1].address
      OBVIOUS
    <2>1. t[d].address \in Nat /\ d \in Nat /\ t[d].stored \in 1..MetaSize /\ MetaSize \in Nat
      BY CutBlock
    <2>2. ASSUME d < Len(t) PROVE d + 1 \in 1..Len(t) /\ t[d].address < t[d + 1].address
      <3>1. d + 1 \in 1..Len(t) /\ t[d + 1].address = t[d].address + MetaHeader + t[d].stored
        BY <2>2, CutBlock
      <3> DEFINE u == t[d].address
                 v == t[d + 1].address
                 w == t[d].stored
      <3>2. u < v
        <4>1. u \in Nat /\ w \in Nat \ {0} /\ v = u + MetaHeader + w /\ MetaHeader \in Nat
          BY <2>1, <3>1, MetaHeaderAssumption
        <4> HIDE DEF S, u, v, w
        <4> QED BY <4>1
      <3> QED BY <3>1, <3>2
    <2> QED BY <2>1, <2>2
  <1>2. Len(t) \in Nat
    BY CutBlock
  <1>3. 0 \in S
    <2>1. ASSUME NEW d \in 1..Len(t), NEW e \in 1..Len(t), e = d + 0 + 1
          PROVE  t[d].address < t[e].address
      <3>1. d \in Nat /\ e \in Nat
        BY <1>2
      <3>2. d < Len(t) /\ e = d + 1
        BY <1>2, <2>1, <3>1
      <3> HIDE DEF S
      <3> QED BY <1>1, <3>2
    <2> QED BY <2>1
  <1>4. ASSUME NEW n \in Nat, n \in S PROVE n + 1 \in S
    <2>1. ASSUME NEW d \in 1..Len(t), NEW e \in 1..Len(t), e = d + (n + 1) + 1
          PROVE  t[d].address < t[e].address
      <3>1. d \in Nat /\ e \in Nat
        BY <1>2
      <3>2. d < Len(t) /\ e = (d + 1) + n + 1
        BY <1>2, <2>1, <3>1
      <3>3. d + 1 \in 1..Len(t) /\ t[d].address < t[d + 1].address
        BY <1>1, <3>2
      <3>4. t[d + 1].address < t[e].address
        BY <1>4, <3>2, <3>3
      <3>5. t[d].address \in Nat /\ t[d + 1].address \in Nat /\ t[e].address \in Nat
        BY <1>1, <3>3
      <3> DEFINE u == t[d].address
                 v == t[d + 1].address
                 w == t[e].address
      <3> HIDE DEF S, u, v, w
      <3>6. u < w
        <4>1. u \in Nat /\ v \in Nat /\ w \in Nat /\ u < v /\ v < w
          BY <3>3, <3>4, <3>5 DEF u, v, w
        <4> QED BY <4>1
      <3> QED BY <3>6 DEF u, w
    <2>2. n + 1 \in Nat
      OBVIOUS
    <2> DEFINE m == n + 1
    <2>3. \A d \in 1..Len(t) : \A e \in 1..Len(t) : e = d + m + 1 => t[d].address < t[e].address
      BY <2>1
    <2>4. m \in Nat
      BY <2>2
    <2> HIDE DEF m
    <2>5. m \in S
      BY <2>3, <2>4
    <2> QED BY <2>5 DEF m
  <1>5. Nat \subseteq S
    <2> HIDE DEF S
    <2> QED BY <1>3, <1>4, EveryNumber
  <1>6. \A d, e \in 1..Len(t) : d < e => t[d].address < t[e].address
    <2> SUFFICES ASSUME NEW d \in 1..Len(t), NEW e \in 1..Len(t), d < e PROVE t[d].address < t[e].address
      OBVIOUS
    <2>1. e - d - 1 \in Nat /\ e = d + (e - d - 1) + 1
      BY <1>1
    <2>2. e - d - 1 \in S
      BY <1>5, <2>1
    <2> QED BY <2>1, <2>2
  <1>7. b < c \/ c < b \/ b = c
    BY <1>1
  <1> QED BY <1>1, <1>6, <1>7

\* The bytes of a table.
Bytes(t) == [q \in 1..TableLength(t) |-> ByteAt(t, q)]

LEMMA TableBytes ==
    ASSUME NEW t, Cut(t)
    PROVE  /\ TableLength(t) \in Nat /\ Len(t) \in Nat
           /\ Bytes(t) \in Seq(Nat \X Nat) /\ Len(Bytes(t)) = TableLength(t)
           /\ \A b \in 1..Len(t) : \A k \in 1..Len(t[b].bytes) : t[b].bytes[k] = Bytes(t)[Start(b) + k]
           /\ \A p \in Nat : p < TableLength(t) => BlockOf(p) \in 1..Len(t)
  <1>1. Len(t) \in Nat /\ (t = <<>> <=> Len(t) = 0)
    BY DEF Cut
  <1>2. TableLength(t) \in Nat
    <2>1. CASE t = <<>>
      BY <2>1 DEF TableLength
    <2>2. CASE t # <<>>
      <3>1. Len(t) \in 1..Len(t)
        BY <1>1, <2>2
      <3> QED BY <3>1, CutBlock
    <2> QED BY <2>1, <2>2
  <1>3. \A p \in Nat : p < TableLength(t) => BlockOf(p) \in 1..Len(t)
    <2> SUFFICES ASSUME NEW p \in Nat, p < TableLength(t) PROVE BlockOf(p) \in 1..Len(t)
      OBVIOUS
    <2>1. Len(t) \in 1..Len(t) /\ TableLength(t) = Start(Len(t)) + Len(t[Len(t)].bytes)
      BY <1>1 DEF TableLength
    <2>2. p < Start(Len(t)) + MetaSize /\ MetaSize \in Nat /\ Start(Len(t)) \in Nat
      BY <2>1, CutBlock
    <2>3. BlockOf(p) \in Nat \ {0} /\ Start(BlockOf(p)) <= p /\ Start(BlockOf(p)) \in Nat
      <3>1. /\ BlockOf(p) \in Nat \ {0} /\ p = Start(BlockOf(p)) + (p % MetaSize)
            /\ p % MetaSize \in 0..(MetaSize - 1) /\ MetaSize \in Nat
        BY BlockOfPlace, Starts
      <3>2. Start(BlockOf(p)) \in Nat
        BY <3>1, Starts
      <3> QED BY <3>1, <3>2
    <2>4. ~(Len(t) < BlockOf(p))
      <3> SUFFICES ASSUME Len(t) < BlockOf(p) PROVE FALSE
        OBVIOUS
      <3>1. Start(Len(t)) + MetaSize <= Start(BlockOf(p))
        BY <1>1, <2>1, <2>3, Starts
      <3> QED BY <2>2, <2>3, <3>1
    <2> QED BY <1>1, <2>3, <2>4
  <1>4. ASSUME NEW b \in 1..Len(t), NEW k \in 1..Len(t[b].bytes)
        PROVE  Start(b) + k \in 1..TableLength(t) /\ ByteAt(t, Start(b) + k) = t[b].bytes[k]
    <2>1. /\ b \in Nat \ {0} /\ Start(b) \in Nat /\ Len(t[b].bytes) \in 1..MetaSize /\ MetaSize \in Nat
          /\ Start(b) + Len(t[b].bytes) <= TableLength(t)
      BY CutBlock
    <2>2. k - 1 \in 0..(MetaSize - 1) /\ (Start(b) + k) - 1 = Start(b) + (k - 1) /\ k \in Nat \ {0}
      BY <2>1
    <2>3. BlockOf(Start(b) + (k - 1)) = b /\ (Start(b) + (k - 1)) % MetaSize = k - 1
      BY <2>1, <2>2, PlaceInBlock
    <2>4. ByteAt(t, Start(b) + k) = t[b].bytes[(k - 1) + 1]
      BY <2>2, <2>3 DEF ByteAt
    <2>5. (k - 1) + 1 = k
      BY <2>2
    <2>6. Start(b) + k \in 1..TableLength(t)
      BY <1>2, <2>1, <2>2
    <2> QED BY <2>4, <2>5, <2>6
  <1>5. \A q \in 1..TableLength(t) : ByteAt(t, q) \in Nat \X Nat
    <2> SUFFICES ASSUME NEW q \in 1..TableLength(t) PROVE ByteAt(t, q) \in Nat \X Nat
      OBVIOUS
    <2> DEFINE p == q - 1
               b == BlockOf(p)
               k == p % MetaSize
    <2>1. p \in Nat /\ p < TableLength(t)
      BY <1>2
    <2>2. b \in 1..Len(t) /\ b \in Nat \ {0} /\ k \in 0..(MetaSize - 1) /\ p = Start(b) + k
      BY <1>3, <2>1, BlockOfPlace
    <2>3. ByteAt(t, q) = t[b].bytes[k + 1]
      BY DEF ByteAt
    <2>4. /\ t[b].bytes \in Seq(Nat \X Nat) /\ Len(t[b].bytes) \in 1..MetaSize /\ Start(b) \in Nat
          /\ MetaSize \in Nat
          /\ b < Len(t) => Len(t[b].bytes) = MetaSize
          /\ b = Len(t) => Start(b) + Len(t[b].bytes) = TableLength(t)
      BY <2>2, CutBlock
    <2> HIDE DEF b, k, p
    <2>5. k + 1 \in 1..Len(t[b].bytes)
      BY <1>1, <2>1, <2>2, <2>4
    <2> QED BY <2>3, <2>4, <2>5
  <1>6. Bytes(t) \in Seq(Nat \X Nat) /\ Len(Bytes(t)) = TableLength(t)
    BY <1>2, <1>5 DEF Bytes
  <1>7. \A b \in 1..Len(t) : \A k \in 1..Len(t[b].bytes) : t[b].bytes[k] = Bytes(t)[Start(b) + k]
    BY <1>4 DEF Bytes
  <1> QED BY <1>1, <1>2, <1>3, <1>6, <1>7

-----------------------------------------------------------------------------
(* The metablock iterator *)

ItFields == {"ok", "address", "outer", "block", "data"}

\* The iterator is at metablock b.
At(t, i, b) ==
    /\ DOMAIN i = ItFields /\ i.ok /\ i.block = b
    /\ i.address = t[b].address + MetaHeader /\ i.outer = t[b].stored /\ i.data = t[b].bytes

\* The metablock that comes next is b.
Ahead(t, i, b) == DOMAIN i = ItFields /\ i.ok /\ i.address + i.outer = t[b].address

\* process_next_header
LEMMA HeaderOK ==
    ASSUME NEW t, Cut(t), NEW b \in 1..Len(t), NEW i, Ahead(t, i, b)
    PROVE  LET h == NextHeader(t, i)
           IN  /\ DOMAIN h = ItFields /\ h.ok /\ h.address = t[b].address /\ h.block = b
               /\ h.outer = t[b].stored /\ h.data = i.data
  <1> DEFINE address == i.address + i.outer
             found == {c \in 1..Len(t) : t[c].address = address}
             h == NextHeader(t, i)
  <1>1. found = {b} /\ address = t[b].address
    BY Addresses DEF Ahead
  <1>2. t[b].stored <= MetaSize
    BY CutBlock
  <1>3. h = [i EXCEPT !.address = t[b].address, !.block = b, !.outer = t[b].stored]
    <2>1. (CHOOSE c \in {b} : TRUE) = b
      OBVIOUS
    <2> HIDE DEF found, address
    <2>2. h = LET c == CHOOSE c \in found : TRUE
              IN  [i EXCEPT !.address = address, !.block = c, !.outer = t[c].stored]
      BY <1>1, <1>2 DEF NextHeader, found, address
    <2> QED BY <1>1, <2>1, <2>2
  <1> HIDE DEF h
  <1>4. /\ DOMAIN h = ItFields /\ h.ok /\ h.address = t[b].address /\ h.block = b
        /\ h.outer = t[b].stored /\ h.data = i.data
    BY <1>3 DEF Ahead, ItFields
  <1> QED BY <1>4 DEF h

\* map_data
LEMMA MappedAt ==
    ASSUME NEW t, NEW b, NEW h, DOMAIN h = ItFields, h.ok, h.address = t[b].address, h.block = b,
           h.outer = t[b].stored
    PROVE  At(t, MetaMapped(t, h), b)
  <1> DEFINE m == MetaMapped(t, h)
  <1>1. m = [h EXCEPT !.address = @ + MetaHeader, !.data = t[b].bytes]
    BY DEF MetaMapped
  <1> HIDE DEF m
  <1>2. /\ DOMAIN m = ItFields /\ m.ok /\ m.address = h.address + MetaHeader /\ m.block = h.block
        /\ m.outer = h.outer /\ m.data = t[b].bytes
    BY <1>1 DEF ItFields
  <1>3. At(t, m, b)
    BY <1>2 DEF At
  <1> QED BY <1>3 DEF m

\* sqsh__metablock_iterator_next
LEMMA NextAt ==
    ASSUME NEW t, Cut(t), NEW b \in 1..Len(t), NEW i, Ahead(t, i, b)
    PROVE  At(t, MetaNext(t, i), b)
  <1> DEFINE h == NextHeader(t, i)
  <1>1. DOMAIN h = ItFields /\ h.ok /\ h.address = t[b].address /\ h.block = b /\ h.outer = t[b].stored
    BY HeaderOK
  <1>2. MetaNext(t, i) = MetaMapped(t, h)
    BY DEF MetaNext
  <1> HIDE DEF h
  <1> QED BY <1>1, <1>2, MappedAt

LEMMA AtAhead ==
    ASSUME NEW t, Cut(t), NEW b \in 1..Len(t), b < Len(t), NEW i, At(t, i, b)
    PROVE  Ahead(t, i, b + 1)
  <1>1. t[b + 1].address = t[b].address + MetaHeader + t[b].stored
    BY CutBlock
  <1>2. t[b].address \in Nat /\ t[b].stored \in Nat /\ MetaHeader \in Nat
    BY CutBlock, MetaHeaderAssumption
  <1> QED BY <1>1, <1>2 DEF At, Ahead

-----------------------------------------------------------------------------
(* Skipping *)

\* The loop has found the metablock that place p lies in.
ComesUpon(t, x, p) ==
    \E b \in 1..Len(t) :
        /\ At(t, x.it, b) /\ x.offset \in Nat /\ Start(b) + x.offset = p
        /\ x.offset < Len(t[b].bytes) /\ x.size \in Nat /\ x.offset < x.size

\* It still has to go on, to metablock b or behind it.
Skipping(t, x, p, b) ==
    /\ b \in 1..Len(t) /\ Ahead(t, x.it, b)
    /\ x.offset \in Nat /\ x.size \in Nat /\ x.offset >= x.size
    /\ Start(b) + (x.offset - x.size) = p

LEMMA SkipTurnFound ==
    ASSUME NEW t, NEW x, NEW p, ComesUpon(t, x, p)
    PROVE  SkipTurn(t, x) = x
  BY DEF ComesUpon, SkipTurn

LEMMA SkipTurnGoesOn ==
    ASSUME NEW t, Cut(t), NEW p \in Nat, p < TableLength(t), NEW x, NEW b, Skipping(t, x, p, b)
    PROVE  LET y == SkipTurn(t, x) IN ComesUpon(t, y, p) \/ Skipping(t, y, p, b + 1)
  <1> DEFINE y == SkipTurn(t, x)
             h == NextHeader(t, x.it)
             m == MetaMapped(t, h)
             rest == x.offset - x.size
             n == [m EXCEPT !.ok = rest < Len(m.data)]
             g == [h EXCEPT !.address = @ + h.outer + MetaHeader, !.outer = 0]
  <1>1. b \in 1..Len(t) /\ Ahead(t, x.it, b) /\ rest \in Nat /\ Start(b) + rest = p /\ x.offset >= x.size
    BY DEF Skipping
  <1>2. /\ DOMAIN h = ItFields /\ h.ok /\ h.address = t[b].address /\ h.block = b
        /\ h.outer = t[b].stored
    BY <1>1, HeaderOK
  <1>3. At(t, m, b)
    <2> HIDE DEF h
    <2> QED BY <1>2, MappedAt
  <1>4. /\ b \in Nat \ {0} /\ Len(t) \in Nat
        /\ t[b].address \in Nat /\ t[b].stored \in 1..MetaSize
        /\ Len(t[b].bytes) \in 1..MetaSize /\ MetaSize \in Nat
        /\ Start(b) \in Nat /\ Start(b + 1) = Start(b) + MetaSize
        /\ b < Len(t) => /\ Len(t[b].bytes) = MetaSize /\ b + 1 \in 1..Len(t)
                         /\ t[b + 1].address = t[b].address + MetaHeader + t[b].stored
        /\ b = Len(t) => Start(b) + Len(t[b].bytes) = TableLength(t)
    BY <1>1, CutBlock
  <1>5. x.it.ok /\ ~(x.offset < x.size)
    BY <1>1 DEF Ahead, Skipping
  <1> HIDE DEF h, m, rest
  <1>6. CASE rest < MetaSize
    <2>1. y = [it |-> n, offset |-> rest, size |-> MetaSize]
      BY <1>2, <1>5, <1>6 DEF SkipTurn, h, m, rest, Skipping
    <2>2. rest < Len(t[b].bytes)
      BY <1>1, <1>4, <1>6
    <2>3. At(t, n, b)
      BY <1>3, <2>2 DEF At, ItFields
    <2> HIDE DEF n, y
    <2>4. y.it = n /\ y.offset = rest /\ y.size = MetaSize
      BY <2>1
    <2>5. At(t, y.it, b) /\ y.offset \in Nat /\ Start(b) + y.offset = p /\ y.offset < Len(t[b].bytes)
          /\ y.size \in Nat /\ y.offset < y.size
      BY <1>1, <1>4, <1>6, <2>2, <2>3, <2>4
    <2>6. ComesUpon(t, y, p)
      BY <1>1, <2>5 DEF ComesUpon
    <2> QED BY <2>6 DEF y
  <1>7. CASE ~(rest < MetaSize)
    <2>1. y = [it |-> g, offset |-> rest, size |-> MetaSize]
      BY <1>2, <1>5, <1>7 DEF SkipTurn, h, m, rest, Skipping
    <2>2. b < Len(t)
      BY <1>1, <1>4, <1>7
    <2>3. DOMAIN g = ItFields /\ g.ok /\ g.address = h.address + h.outer + MetaHeader /\ g.outer = 0
      BY <1>2 DEF ItFields
    <2> HIDE DEF g, y
    <2>4. g.address + g.outer = t[b + 1].address
      BY <1>2, <1>4, <2>2, <2>3, MetaHeaderAssumption
    <2>5. Ahead(t, g, b + 1)
      BY <2>3, <2>4 DEF Ahead
    <2>6. Start(b + 1) + (rest - MetaSize) = p
      BY <1>1, <1>4, <1>7
    <2>7. y.it = g /\ y.offset = rest /\ y.size = MetaSize
      BY <2>1
    <2>8. Skipping(t, y, p, b + 1)
      BY <1>1, <1>4, <1>7, <2>2, <2>5, <2>6, <2>7 DEF Skipping
    <2> QED BY <2>8 DEF y
  <1> QED BY <1>6, <1>7

\* The turns of the loop, one by one.
SkipsBy(t, i, offset, size, f) ==
    /\ f[0] = [it |-> i, offset |-> offset, size |-> size]
    /\ \A k \in 1..(Len(t) + 1) : f[k] = SkipTurn(t, f[k - 1])
    /\ MetaSkip(t, i, offset, size) = f[Len(t) + 1]

\* Every skip takes these turns.
LEMMA SkipTurns ==
    ASSUME NEW t, NEW i, NEW offset, NEW size, Len(t) \in Nat
    PROVE  \E f : SkipsBy(t, i, offset, size, f)
  <1> DEFINE x == [it |-> i, offset |-> offset, size |-> size]
             n == Len(t) + 1
  <1> DEFINE G(m, g) == g = [k \in 0..m |-> IF k = 0 THEN x ELSE SkipTurn(t, g[k - 1])]
             S == {m \in Nat : \E g : G(m, g)}
  <1>1. 0 \in S
    <2> DEFINE g == [k \in 0..0 |-> x]
    <2>1. G(0, g)
      OBVIOUS
    <2> QED BY <2>1
  <1>2. ASSUME NEW m \in Nat, m \in S PROVE m + 1 \in S
    <2>1. PICK g : G(m, g)
      BY <1>2
    <2> DEFINE h == [k \in 0..(m + 1) |-> IF k = m + 1 THEN SkipTurn(t, g[m]) ELSE g[k]]
    <2>2. \A k \in 0..m : g[k] = IF k = 0 THEN x ELSE SkipTurn(t, g[k - 1])
      BY <2>1
    <2>3. \A k \in 0..(m + 1) : h[k] = IF k = 0 THEN x ELSE SkipTurn(t, h[k - 1])
      BY <2>2
    <2>4. h = [k \in 0..(m + 1) |-> h[k]]
      OBVIOUS
    <2> HIDE DEF h
    <2>5. G(m + 1, h)
      BY <2>3, <2>4
    <2> QED BY <2>5
  <1>3. Nat \subseteq S
    <2> HIDE DEF S
    <2> QED BY <1>1, <1>2, EveryNumber
  <1>4. \E g : G(n, g)
    <2>1. n \in Nat
      OBVIOUS
    <2> HIDE DEF n
    <2> QED BY <1>3, <2>1
  <1> DEFINE f == CHOOSE g : G(n, g)
  <1>5. G(n, f)
    BY <1>4
  <1>6. MetaSkip(t, i, offset, size) = f[n]
    BY DEF MetaSkip, Turns
  <1> HIDE DEF f
  <1>7. f[0] = x /\ \A k \in 1..n : f[k] = SkipTurn(t, f[k - 1])
    BY <1>5
  <1>8. SkipsBy(t, i, offset, size, f)
    BY <1>6, <1>7 DEF SkipsBy
  <1> QED BY <1>8

\* sqsh__metablock_iterator_skip comes to the metablock that the place lies in, from the one it is
\* at or from the first one it looks for.
LEMMA SkipFinds ==
    ASSUME NEW t, Cut(t), NEW i, NEW b \in 1..Len(t), NEW offset \in Nat,
           At(t, i, b) \/ (Ahead(t, i, b) /\ i.data = <<>>), Start(b) + offset < TableLength(t)
    PROVE  LET s == MetaSkip(t, i, offset, Len(i.data))
           IN  \E c \in 1..Len(t) : /\ At(t, s.it, c) /\ s.offset \in Nat
                                    /\ Start(c) + s.offset = Start(b) + offset
                                    /\ s.offset < Len(t[c].bytes)
  <1> DEFINE x == [it |-> i, offset |-> offset, size |-> Len(i.data)]
             p == Start(b) + offset
             s == MetaSkip(t, i, offset, Len(i.data))
             n == Len(t) + 1
  <1>1. /\ Start(b) \in Nat /\ MetaSize \in Nat /\ Len(t[b].bytes) \in 1..MetaSize
        /\ b < Len(t) => Len(t[b].bytes) = MetaSize /\ b + 1 \in 1..Len(t)
        /\ b = Len(t) => Start(b) + Len(t[b].bytes) = TableLength(t)
        /\ Start(b + 1) = Start(b) + MetaSize /\ Len(t) \in Nat /\ b \in Nat \ {0}
    BY CutBlock
  <1>2. p \in Nat /\ n \in Nat
    BY <1>1
  <1>3. ComesUpon(t, x, p) \/ \E c \in Nat \ {0} : Skipping(t, x, p, c)
    <2>1. CASE At(t, i, b) /\ offset < Len(i.data)
      <3>1. Len(i.data) = Len(t[b].bytes)
        BY <2>1 DEF At
      <3> QED BY <2>1, <3>1 DEF ComesUpon
    <2>2. CASE At(t, i, b) /\ ~(offset < Len(i.data))
      <3>1. Len(i.data) = Len(t[b].bytes)
        BY <2>2 DEF At
      <3>2. b < Len(t)
        BY <1>1, <2>2, <3>1
      <3>3. Ahead(t, i, b + 1)
        BY <2>2, <3>2, AtAhead
      <3>4. Len(i.data) = MetaSize
        BY <1>1, <3>1, <3>2
      <3>5. Start(b + 1) + (offset - MetaSize) = p /\ offset >= MetaSize /\ b + 1 \in 1..Len(t) /\ b + 1 \in Nat \ {0}
        BY <1>1, <2>2, <3>2, <3>4
      <3>6. Skipping(t, x, p, b + 1)
        BY <1>1, <3>3, <3>4, <3>5 DEF Skipping
      <3> QED BY <3>5, <3>6
    <2>3. CASE Ahead(t, i, b) /\ i.data = <<>>
      <3>1. Len(i.data) = 0
        BY <2>3
      <3>2. Skipping(t, x, p, b)
        BY <1>1, <2>3, <3>1 DEF Skipping
      <3> QED BY <1>1, <3>2
    <2> QED BY <2>1, <2>2, <2>3
  <1>20. Len(t) \in Nat
    BY <1>1
  <1> HIDE DEF x, s, n, p
  <1>21. PICK f : SkipsBy(t, i, offset, Len(i.data), f)
    BY <1>20, SkipTurns
  <1>4. /\ f[0] = x /\ \A k \in 1..n : f[k] = SkipTurn(t, f[k - 1])
        /\ s = f[n]
    BY <1>21 DEF SkipsBy, x, s, n
  <1> DEFINE S == {k \in Nat : k <= n => ComesUpon(t, f[k], p) \/ \E c \in Nat : k < c /\ Skipping(t, f[k], p, c)}
  <1>6. 0 \in S
    <2>1. \A c \in Nat \ {0} : 0 < c /\ c \in Nat
      OBVIOUS
    <2> QED BY <1>3, <1>4, <2>1
  <1>7. ASSUME NEW k \in Nat, k \in S PROVE k + 1 \in S
    <2> SUFFICES ASSUME k + 1 <= n
                 PROVE  ComesUpon(t, f[k + 1], p) \/ \E c \in Nat : k + 1 < c /\ Skipping(t, f[k + 1], p, c)
      OBVIOUS
    <2>1. f[k + 1] = SkipTurn(t, f[k]) /\ k <= n
      <3>1. k + 1 \in 1..n /\ (k + 1) - 1 = k /\ k <= n
        BY <1>2
      <3> QED BY <1>4, <3>1
    <2>2. CASE ComesUpon(t, f[k], p)
      BY <2>1, <2>2, SkipTurnFound
    <2>3. ASSUME NEW c \in Nat, k < c, Skipping(t, f[k], p, c)
          PROVE  ComesUpon(t, f[k + 1], p) \/ \E d \in Nat : k + 1 < d /\ Skipping(t, f[k + 1], p, d)
      <3>1. ComesUpon(t, f[k + 1], p) \/ Skipping(t, f[k + 1], p, c + 1)
        BY <1>2, <2>1, <2>3, SkipTurnGoesOn DEF p
      <3>2. k + 1 < c + 1 /\ c + 1 \in Nat
        BY <2>3
      <3> QED BY <3>1, <3>2
    <2> QED BY <1>7, <2>1, <2>2, <2>3
  <1>8. n \in S
    <2> HIDE DEF S
    <2> QED BY <1>2, <1>6, <1>7, EveryNumber
  <1>9. ComesUpon(t, s, p)
    <2>1. \A c \in Nat : n < c => ~Skipping(t, f[n], p, c)
      BY <1>1 DEF Skipping, n
    <2> QED BY <1>2, <1>4, <1>8, <2>1
  <1>10. \E c \in 1..Len(t) : /\ At(t, s.it, c) /\ s.offset \in Nat /\ Start(c) + s.offset = p
                              /\ s.offset < Len(t[c].bytes)
    BY <1>9 DEF ComesUpon
  <1> QED BY <1>10 DEF s, p

-----------------------------------------------------------------------------
(* Windows *)

ReaderFields ==
    {"stage", "data", "offset", "iterator_offset", "buffer", "skip", "size", "remaining", "start"}
MetaFields == {"it", "reader"}

Window(t, p, c) == SubSeq(Bytes(t), p + 1, p + c)

\* The reader shows the c bytes behind place p: in the iterator's metablock, or in the buffer, the
\* last bytes of which are the first of that metablock.
Rests(t, m, p, c) ==
    /\ DOMAIN m = MetaFields /\ DOMAIN m.reader = ReaderFields
    /\ m.reader.stage = "idle" /\ m.reader.data = Window(t, p, c)
    /\ p \in Nat /\ c \in Nat \ {0} /\ p + c <= TableLength(t)
    /\ \E b \in 1..Len(t) :
          /\ At(t, m.it, b) /\ p + c <= Start(b) + Len(t[b].bytes)
          /\ \/ m.reader.iterator_offset = 0 /\ m.reader.offset \in Nat /\ Start(b) + m.reader.offset = p
             \/ /\ m.reader.iterator_offset \in 1..c /\ m.reader.offset = 0
                /\ m.reader.buffer = m.reader.data /\ Start(b) = p + m.reader.iterator_offset

\* It fills the buffer with z bytes behind place p, and is at metablock b.
Fills(t, m, p, z, b) ==
    /\ DOMAIN m = MetaFields /\ DOMAIN m.reader = ReaderFields
    /\ m.reader.stage = "fill" /\ At(t, m.it, b) /\ b \in 1..Len(t)
    /\ m.reader.size = z /\ m.reader.offset \in 0..Len(t[b].bytes)
    /\ \E w \in 0..z :
          /\ m.reader.buffer = Window(t, p, w) /\ m.reader.remaining = z - w
          /\ p + w = Start(b) + m.reader.offset
          /\ \/ m.reader.start \in 1..w /\ Start(b) = p + m.reader.start
             \/ /\ m.reader.start = 0 /\ m.reader.offset < Len(t[b].bytes)
                /\ Start(b) + Len(t[b].bytes) < p + z

\* It has all of metablock b in the buffer, and more to come.
GoesOn(t, m, p, z, b) ==
    /\ DOMAIN m = MetaFields /\ DOMAIN m.reader = ReaderFields
    /\ m.reader.stage = "next" /\ At(t, m.it, b) /\ b \in 1..Len(t) /\ b + 1 \in 1..Len(t)
    /\ m.reader.size = z /\ m.reader.offset = 0
    /\ m.reader.start \in 1..z /\ m.reader.buffer = Window(t, p, m.reader.start)
    /\ m.reader.remaining = z - m.reader.start /\ p + m.reader.start = Start(b + 1)

LEMMA Windows ==
    ASSUME NEW t, Cut(t), NEW p \in Nat, NEW c \in Nat, p + c <= TableLength(t)
    PROVE  /\ Window(t, p, c) \in Seq(Nat \X Nat) /\ Len(Window(t, p, c)) = c
           /\ \A k \in 1..c : Window(t, p, c)[k] = Bytes(t)[p + k]
           /\ Window(t, p, 0) = <<>>
  <1>1. Bytes(t) \in Seq(Nat \X Nat) /\ Len(Bytes(t)) = TableLength(t) /\ TableLength(t) \in Nat
    BY TableBytes
  <1> DEFINE s == Bytes(t)
  <1>2. s \in Seq(Nat \X Nat) /\ Len(s) \in Nat /\ p + c <= Len(s)
    BY <1>1
  <1> HIDE DEF s
  <1>3. /\ SubSeq(s, p + 1, p + c) \in Seq(Nat \X Nat) /\ Len(SubSeq(s, p + 1, p + c)) = c
        /\ \A k \in 1..c : SubSeq(s, p + 1, p + c)[k] = s[p + k]
    BY <1>2
  <1>4. SubSeq(s, p + 1, p + 0) = <<>>
    BY <1>2
  <1> QED BY <1>3, <1>4 DEF Window, s

LEMMA NoWindow ==
    ASSUME NEW t, Cut(t), NEW p \in Nat, p <= TableLength(t)
    PROVE  Window(t, p, 0) = <<>>
  <1> DEFINE s == Bytes(t)
  <1>1. s \in Seq(Nat \X Nat) /\ p <= Len(s)
    BY TableBytes
  <1> HIDE DEF s
  <1>2. SubSeq(s, p + 1, p + 0) = <<>>
    BY <1>1
  <1> QED BY <1>2 DEF Window, s

\* A part of a metablock is a window, and one that goes on where a window ends makes it longer.
LEMMA Parts ==
    ASSUME NEW t, Cut(t), NEW b \in 1..Len(t), NEW q \in Nat, NEW n \in Nat, q + n <= Len(t[b].bytes)
    PROVE  /\ SubSeq(t[b].bytes, q + 1, q + n) = Window(t, Start(b) + q, n)
           /\ Start(b) + q \in Nat /\ Start(b) + q + n <= TableLength(t)
  <1>1. /\ b \in Nat \ {0} /\ Len(t) \in Nat
        /\ t[b].address \in Nat /\ t[b].stored \in 1..MetaSize /\ t[b].bytes \in Seq(Nat \X Nat)
        /\ Len(t[b].bytes) \in 1..MetaSize /\ MetaSize \in Nat
        /\ Start(b) \in Nat /\ Start(b + 1) = Start(b) + MetaSize
        /\ TableLength(t) \in Nat /\ Start(b) + Len(t[b].bytes) <= TableLength(t)
    BY CutBlock
  <1> DEFINE p == Start(b) + q
             s == t[b].bytes
  <1>2. p \in Nat /\ p + n <= TableLength(t)
    <2>1. Start(b) \in Nat /\ Start(b) + Len(s) <= TableLength(t) /\ Len(s) \in Nat /\ q + n <= Len(s)
          /\ TableLength(t) \in Nat
      BY <1>1
    <2> HIDE DEF s
    <2> QED BY <2>1
  <1>3. Window(t, p, n) \in Seq(Nat \X Nat) /\ Len(Window(t, p, n)) = n
        /\ \A k \in 1..n : Window(t, p, n)[k] = Bytes(t)[p + k]
    BY <1>2, Windows
  <1>4. \A k \in 1..Len(s) : s[k] = Bytes(t)[Start(b) + k]
    BY TableBytes
  <1>5. s \in Seq(Nat \X Nat) /\ Len(s) \in Nat /\ q + n <= Len(s)
    BY <1>1
  <1>6. /\ SubSeq(s, q + 1, q + n) \in Seq(Nat \X Nat) /\ Len(SubSeq(s, q + 1, q + n)) = n
        /\ \A k \in 1..n : SubSeq(s, q + 1, q + n)[k] = s[q + k]
    <2> HIDE DEF s
    <2> QED BY <1>5
  <1>7. \A k \in 1..n : SubSeq(s, q + 1, q + n)[k] = Window(t, p, n)[k]
    <2> SUFFICES ASSUME NEW k \in 1..n PROVE SubSeq(s, q + 1, q + n)[k] = Window(t, p, n)[k]
      OBVIOUS
    <2>1. q + k \in 1..Len(s) /\ Start(b) + (q + k) = p + k
      <3> DEFINE x == Len(s)
                 u == Start(b)
      <3>1. x \in Nat /\ q + n <= x /\ u \in Nat /\ p = u + q
        BY <1>1, <1>5
      <3> HIDE DEF x, u, p, s
      <3>2. q + k \in 1..x /\ u + (q + k) = p + k
        BY <3>1
      <3> QED BY <3>2 DEF x, u
    <2> HIDE DEF s, p
    <2> QED BY <1>3, <1>4, <1>6, <2>1
  <1> HIDE DEF s, p
  <1>8. SubSeq(s, q + 1, q + n) = Window(t, p, n)
    BY <1>3, <1>6, <1>7, SeqEqual
  <1> QED BY <1>2, <1>8 DEF s, p

Part(t, b, q, n) == SubSeq(t[b].bytes, q + 1, q + n)
LEMMA PartShows ==
    ASSUME NEW t, Cut(t), NEW b \in 1..Len(t), NEW q \in Nat, NEW n \in Nat, q + n <= Len(t[b].bytes)
    PROVE  Part(t, b, q, n) = Window(t, Start(b) + q, n)
  BY Parts DEF Part

LEMMA Longer ==
    ASSUME NEW t, Cut(t), NEW p \in Nat, NEW c \in Nat, NEW n \in Nat, p + c + n <= TableLength(t)
    PROVE  Window(t, p, c) \o Window(t, p + c, n) = Window(t, p, c + n)
  <1>1. TableLength(t) \in Nat
    BY TableBytes
  <1> DEFINE u == Window(t, p, c)
             v == Window(t, p + c, n)
             w == Window(t, p, c + n)
  <1>2. u \in Seq(Nat \X Nat) /\ Len(u) = c /\ \A k \in 1..c : u[k] = Bytes(t)[p + k]
    <2>1. p + c <= TableLength(t)
      BY <1>1
    <2> QED BY <2>1, Windows
  <1>3. v \in Seq(Nat \X Nat) /\ Len(v) = n /\ \A k \in 1..n : v[k] = Bytes(t)[(p + c) + k]
    <2> DEFINE x == p + c
    <2>1. x \in Nat /\ x + n <= TableLength(t)
      OBVIOUS
    <2> HIDE DEF x
    <2>2. Window(t, x, n) \in Seq(Nat \X Nat) /\ Len(Window(t, x, n)) = n
          /\ \A k \in 1..n : Window(t, x, n)[k] = Bytes(t)[x + k]
      BY <2>1, Windows
    <2> QED BY <2>2 DEF x
  <1>4. w \in Seq(Nat \X Nat) /\ Len(w) = c + n /\ \A k \in 1..(c + n) : w[k] = Bytes(t)[p + k]
    <2> DEFINE x == c + n
    <2>1. x \in Nat /\ p + x <= TableLength(t)
      BY <1>1
    <2> HIDE DEF x
    <2>2. Window(t, p, x) \in Seq(Nat \X Nat) /\ Len(Window(t, p, x)) = x
          /\ \A k \in 1..x : Window(t, p, x)[k] = Bytes(t)[p + k]
      BY <2>1, Windows
    <2> QED BY <2>2 DEF x
  <1> HIDE DEF u, v, w
  <1>5. u \o v \in Seq(Nat \X Nat) /\ Len(u \o v) = c + n /\ Len(u) = c /\ Len(v) = n
        /\ \A k \in 1..(c + n) : (u \o v)[k] = IF k <= c THEN u[k] ELSE v[k - c]
    <2>1. u \in Seq(Nat \X Nat) /\ v \in Seq(Nat \X Nat) /\ Len(u) = c /\ Len(v) = n
      BY <1>2, <1>3
    <2> QED BY <2>1, ConcatProperties
  <1>6. \A k \in 1..(c + n) : (u \o v)[k] = w[k]
    <2> SUFFICES ASSUME NEW k \in 1..(c + n) PROVE (u \o v)[k] = w[k]
      OBVIOUS
    <2>1. CASE k <= c
      <3>1. (u \o v)[k] = u[k] /\ k \in 1..c
        BY <1>5, <2>1
      <3> QED BY <1>2, <1>4, <3>1
    <2>2. CASE ~(k <= c)
      <3>1. k - c \in 1..n /\ (p + c) + (k - c) = p + k
        BY <2>2
      <3>2. (u \o v)[k] = v[k - c]
        BY <1>5, <2>2
      <3> QED BY <1>3, <1>4, <3>1, <3>2
    <2> QED BY <2>1, <2>2
  <1>7. u \o v = w
    BY <1>4, <1>5, <1>6, SeqEqual
  <1> QED BY <1>7 DEF u, v, w

-----------------------------------------------------------------------------
(* The stages of an advance *)

\* handle_mapped
LEMMA MappedShows ==
    ASSUME NEW t, Cut(t), NEW r, DOMAIN r = ReaderFields, NEW i, NEW b \in 1..Len(t), At(t, i, b),
           NEW q \in Nat, q < Len(t[b].bytes), NEW p \in Nat, Start(b) + q = p,
           NEW z \in 1..(SizeMax - 1), r.size = z, r.iterator_offset = 0, p + z <= TableLength(t)
    PROVE  LET y == [it |-> i, reader |-> Mapped(r, q, i.data)]
           IN  Rests(t, y, p, z) \/ Fills(t, y, p, z, b)
  <1> DEFINE y == [it |-> i, reader |-> Mapped(r, q, i.data)]
             block == t[b].bytes
  <1>1. /\ b \in Nat \ {0} /\ Len(t) \in Nat
        /\ t[b].address \in Nat /\ t[b].stored \in 1..MetaSize
        /\ Len(block) \in 1..MetaSize /\ MetaSize \in Nat
        /\ Start(b) \in Nat /\ Start(b + 1) = Start(b) + MetaSize
    BY CutBlock
  <1>2. i.data = block /\ z \in Nat \ {0} /\ z < SizeMax /\ SizeMax \in Nat
    BY SizeMaxAssumption DEF At
  <1>3. CASE q + z <= Len(block)
    <2>1. Mapped(r, q, i.data) = [r EXCEPT !.stage = "idle", !.offset = q, !.data = SubSeq(block, q + 1, q + z)]
      BY <1>2, <1>3 DEF Mapped
    <2>2. SubSeq(block, q + 1, q + z) = Window(t, Start(b) + q, z)
      <3>1. q + z <= Len(t[b].bytes) /\ z \in Nat
        BY <1>2, <1>3
      <3> HIDE DEF block, y
      <3>2. Part(t, b, q, z) = Window(t, Start(b) + q, z)
        BY <3>1, PartShows
      <3>3. SubSeq(t[b].bytes, q + 1, q + z) = Window(t, Start(b) + q, z)
        BY <3>2, Zenon DEF Part
      <3> QED BY <3>3 DEF block
    <2> DEFINE g == Mapped(r, q, i.data)
    <2>3. /\ DOMAIN g = ReaderFields /\ g.stage = "idle" /\ g.offset = q /\ g.iterator_offset = 0
          /\ g.data = Window(t, p, z)
      BY <2>1, <2>2 DEF ReaderFields
    <2>4. DOMAIN y = MetaFields /\ y.it = i /\ y.reader = g
      BY DEF MetaFields
    <2>5. p + z <= Start(b) + Len(block)
      BY <1>1, <1>2, <1>3
    <2> HIDE DEF g, y
    <2>6. Rests(t, y, p, z)
      BY <1>2, <2>3, <2>4, <2>5 DEF Rests
    <2> QED BY <2>6 DEF y
  <1>4. CASE ~(q + z <= Len(block))
    <2> DEFINE e == [r EXCEPT !.offset = q, !.buffer = <<>>]
               g == Mapped(r, q, i.data)
    <2>1. g = Filling(e)
      BY <1>2, <1>4 DEF Mapped
    <2>2. /\ DOMAIN e = ReaderFields /\ e.offset = q /\ e.buffer = <<>> /\ e.size = z /\ e.iterator_offset = 0
      BY DEF ReaderFields
    <2> HIDE DEF e
    <2>3. (z - 0) % SizeMax = z
      BY <1>2
    <2>4. Len(<<>>) = 0
      OBVIOUS
    <2>5. /\ DOMAIN g = ReaderFields /\ g.stage = "fill" /\ g.offset = q /\ g.buffer = <<>> /\ g.size = z
          /\ g.remaining = z - 0 /\ g.start = 0
      BY <2>1, <2>2, <2>3, <2>4 DEF Filling, ReaderFields
    <2>6. DOMAIN y = MetaFields /\ y.it = i /\ y.reader = g
      BY DEF MetaFields
    <2>7. Window(t, p, 0) = <<>>
      <3>1. p <= TableLength(t)
        BY <1>2, TableBytes
      <3> HIDE DEF g, y, block
      <3> QED BY <3>1, NoWindow
    <2>8. Start(b) + Len(block) < p + z /\ q \in 0..Len(block) /\ p + 0 = Start(b) + q /\ 0 \in 0..z
      <3> DEFINE x == Len(block)
                 u == Start(b)
      <3>1. x \in 1..MetaSize /\ MetaSize \in Nat /\ u \in Nat /\ q < x /\ ~(q + z <= x) /\ u + q = p
        BY <1>1, <1>4
      <3>2. z \in Nat \ {0}
        BY <1>2
      <3> HIDE DEF x, u, block
      <3>3. u + x < p + z /\ q \in 0..x /\ p + 0 = u + q /\ 0 \in 0..z
        BY <3>1, <3>2
      <3> QED BY <3>3 DEF x, u
    <2> HIDE DEF g, y, block
    <2>9. Fills(t, y, p, z, b)
      <3>1. /\ y.reader.buffer = Window(t, p, 0) /\ y.reader.remaining = z - 0
            /\ p + 0 = Start(b) + y.reader.offset /\ y.reader.start = 0
            /\ y.reader.offset < Len(t[b].bytes)
            /\ Start(b) + Len(t[b].bytes) < p + z
        BY <2>5, <2>6, <2>7, <2>8 DEF block
      <3> QED BY <2>5, <2>6, <2>8, <3>1 DEF Fills, block
    <2> QED BY <2>9 DEF y
  <1> QED BY <1>3, <1>4

\* handle_mapped with the skip before it.
LEMMA SkipShows ==
    ASSUME NEW t, Cut(t), NEW m, DOMAIN m = MetaFields, DOMAIN m.reader = ReaderFields,
           m.reader.stage = "skip", NEW b \in 1..Len(t), m.reader.skip \in Nat,
           At(t, m.it, b) \/ (Ahead(t, m.it, b) /\ m.it.data = <<>>),
           NEW p \in Nat, Start(b) + m.reader.skip = p,
           NEW z \in 1..(SizeMax - 1), m.reader.size = z, m.reader.iterator_offset = 0,
           p + z <= TableLength(t)
    PROVE  LET y == MetaTurn(t, m)
           IN  Rests(t, y, p, z) \/ \E c \in 1..Len(t) : Fills(t, y, p, z, c)
  <1> DEFINE s == MetaSkip(t, m.it, m.reader.skip, Len(m.it.data))
             y == MetaTurn(t, m)
  <1>1. p < TableLength(t)
    BY TableBytes
  <1>2. PICK c \in 1..Len(t) : /\ At(t, s.it, c) /\ s.offset \in Nat
                               /\ Start(c) + s.offset = Start(b) + m.reader.skip
                               /\ s.offset < Len(t[c].bytes)
    <2> DEFINE o == m.reader.skip
               i == m.it
    <2>1. o \in Nat /\ (At(t, i, b) \/ (Ahead(t, i, b) /\ i.data = <<>>)) /\ Start(b) + o < TableLength(t)
      BY <1>1
    <2> HIDE DEF o, i
    <2>2. LET x == MetaSkip(t, i, o, Len(i.data))
          IN  \E c \in 1..Len(t) : /\ At(t, x.it, c) /\ x.offset \in Nat
                                   /\ Start(c) + x.offset = Start(b) + o
                                   /\ x.offset < Len(t[c].bytes)
      BY <2>1, SkipFinds
    <2> QED BY <2>2 DEF o, i
  <1>3. y = [it |-> s.it, reader |-> Mapped(m.reader, s.offset, s.it.data)]
    BY <1>2 DEF MetaTurn, At
  <1> DEFINE q == s.offset
             i == s.it
  <1>4. At(t, i, c) /\ q \in Nat /\ q < Len(t[c].bytes) /\ Start(c) + q = p
    BY <1>2
  <1> HIDE DEF s, q, i
  <1> DEFINE v == [it |-> i, reader |-> Mapped(m.reader, q, i.data)]
  <1>5. Rests(t, v, p, z) \/ Fills(t, v, p, z, c)
    <2> DEFINE r == m.reader
    <2>1. DOMAIN r = ReaderFields /\ r.size = z /\ r.iterator_offset = 0
      OBVIOUS
    <2> HIDE DEF r, v
    <2>2. LET x == [it |-> i, reader |-> Mapped(r, q, i.data)]
          IN  Rests(t, x, p, z) \/ Fills(t, x, p, z, c)
      BY <1>4, <2>1, MappedShows
    <2> QED BY <2>2 DEF r, v
  <1>6. y = v
    BY <1>3 DEF q, i
  <1> HIDE DEF y, v
  <1>7. Rests(t, y, p, z) \/ \E d \in 1..Len(t) : Fills(t, y, p, z, d)
    BY <1>5, <1>6
  <1> QED BY <1>7 DEF y

\* One turn of the loop of reader_fill_buffer
LEMMA FillShows ==
    ASSUME NEW t, Cut(t), NEW m, NEW p \in Nat, NEW z \in Nat \ {0}, p + z <= TableLength(t), NEW b,
           Fills(t, m, p, z, b)
    PROVE  LET y == MetaTurn(t, m) IN Rests(t, y, p, z) \/ GoesOn(t, y, p, z, b)
  <1> DEFINE y == MetaTurn(t, m)
             r == m.reader
             block == t[b].bytes
             rest == SubSeq(block, r.offset + 1, Len(block))
  <1>1. b \in 1..Len(t) /\ At(t, m.it, b) /\ m.it.data = block
    BY DEF Fills, At
  <1>2. /\ b \in Nat \ {0} /\ Len(t) \in Nat
        /\ t[b].address \in Nat /\ t[b].stored \in 1..MetaSize /\ block \in Seq(Nat \X Nat)
        /\ Len(block) \in 1..MetaSize /\ MetaSize \in Nat
        /\ Start(b) \in Nat /\ Start(b + 1) = Start(b) + MetaSize
        /\ TableLength(t) \in Nat /\ Start(b) + Len(block) <= TableLength(t)
        /\ b < Len(t) => /\ Len(block) = MetaSize /\ b + 1 \in 1..Len(t)
                         /\ t[b + 1].address = t[b].address + MetaHeader + t[b].stored
        /\ b = Len(t) => Start(b) + Len(block) = TableLength(t)
    BY <1>1, CutBlock
  <1>3. PICK w \in 0..z :
          /\ r.buffer = Window(t, p, w) /\ r.remaining = z - w
          /\ p + w = Start(b) + r.offset
          /\ \/ r.start \in 1..w /\ Start(b) = p + r.start
             \/ /\ r.start = 0 /\ r.offset < Len(block)
                /\ Start(b) + Len(block) < p + z
    BY DEF Fills
  <1>4. /\ DOMAIN m = MetaFields /\ DOMAIN r = ReaderFields /\ r.stage = "fill" /\ r.size = z
        /\ r.offset \in 0..Len(block)
    BY DEF Fills
  <1>5. y = [m EXCEPT !.reader = Filled(r, block)]
    BY <1>1, <1>4 DEF MetaTurn
  <1> DEFINE g == Filled(r, block)
  <1>6. DOMAIN y = MetaFields /\ y.it = m.it /\ y.reader = g
    BY <1>4, <1>5 DEF MetaFields
  <1> DEFINE o == r.offset
             l == Len(block) - o
  <1>7. o \in Nat /\ l \in Nat /\ o + l = Len(block) /\ Len(block) \in Nat
    <2>1. Len(block) \in 1..MetaSize /\ MetaSize \in Nat /\ o \in 0..Len(block)
      BY <1>2, <1>4
    <2> HIDE DEF o, block
    <2> QED BY <2>1
  <1>8. rest = Window(t, Start(b) + o, l) /\ Start(b) + o \in Nat /\ Start(b) + o + l <= TableLength(t)
    <2> HIDE DEF o, l, block
    <2>1. SubSeq(t[b].bytes, o + 1, o + l) = Window(t, Start(b) + o, l)
          /\ Start(b) + o \in Nat /\ Start(b) + o + l <= TableLength(t)
      BY <1>1, <1>7, Parts DEF block
    <2> QED BY <1>7, <2>1 DEF o, block
  <1>9. rest \in Seq(Nat \X Nat) /\ Len(rest) = l
    <2> HIDE DEF rest, l, o
    <2> QED BY <1>7, <1>8, Windows
  <1>10. p + w = Start(b) + o /\ w \in Nat /\ w <= z /\ r.remaining = z - w
    BY <1>3
  <1>13. Start(b) \in Nat /\ TableLength(t) \in Nat /\ Start(b) + Len(block) <= TableLength(t)
    BY <1>2
  <1> HIDE DEF y
  <1>11. CASE p + z <= Start(b) + Len(block)
    <2> DEFINE n == z - w
    <2>1. n \in Nat /\ n <= l
      <3> DEFINE x == Len(block)
      <3>1. o \in Nat /\ l = x - o /\ p + w = Start(b) + o /\ w \in Nat /\ w <= z /\ x \in Nat
            /\ Start(b) \in Nat /\ p + z <= Start(b) + x
        BY <1>7, <1>10, <1>11, <1>13
      <3> HIDE DEF x, o, l
      <3> QED BY <3>1
    <2>2. SubSeq(rest, 1, n) = Window(t, p + w, n)
      <3>1. SubSeq(t[b].bytes, o + 1, o + n) = Window(t, Start(b) + o, n)
        <4>1. o + n <= Len(t[b].bytes) /\ o \in Nat /\ n \in Nat /\ b \in 1..Len(t)
          <5> DEFINE x == Len(block)
          <5>1. n <= l /\ n \in Nat /\ o \in Nat /\ l \in Nat /\ o + l = x /\ x \in Nat
            BY <1>7, <2>1
          <5> HIDE DEF x, o, l, n
          <5> QED BY <1>1, <5>1 DEF x
        <4> HIDE DEF o, n, l, rest, g, block, r
        <4> QED BY <4>1, Parts
      <3>2. SubSeq(rest, 1, n) = SubSeq(block, o + 1, o + n)
        <4> DEFINE u == SubSeq(rest, 1, n)
                   v == SubSeq(block, o + 1, o + n)
        <4>1. u \in Seq(Nat \X Nat) /\ Len(u) = n /\ \A k \in 1..n : u[k] = rest[k]
          <5> HIDE DEF rest, n
          <5> QED BY <1>9, <2>1
        <4>2. v \in Seq(Nat \X Nat) /\ Len(v) = n /\ \A k \in 1..n : v[k] = block[o + k]
          <5>1. block \in Seq(Nat \X Nat) /\ o + n <= Len(block)
            <6> DEFINE x == Len(block)
            <6>1. n <= l /\ n \in Nat /\ o \in Nat /\ l \in Nat /\ o + l = x /\ x \in Nat
              BY <1>7, <2>1
            <6> HIDE DEF x, o, l, n
            <6>2. o + n <= x
              BY <6>1
            <6> QED BY <1>2, <6>2 DEF x
          <5> HIDE DEF block, n, o, l
          <5> QED BY <1>7, <2>1, <5>1
        <4>3. \A k \in 1..n : rest[k] = block[o + k]
          <5>1. block \in Seq(Nat \X Nat) /\ o + l = Len(block) /\ rest = SubSeq(block, o + 1, o + l)
            BY <1>2, <1>7
          <5> HIDE DEF block, n, o, l, rest
          <5>2. o + l <= Len(block) /\ o \in Nat /\ l \in Nat
            BY <1>7, <5>1
          <5>3. \A k \in 1..l : rest[k] = block[o + k]
            BY <5>1, <5>2, PartOf
          <5>4. \A k \in 1..n : k \in 1..l
            BY <2>1, <5>2
          <5> QED BY <5>3, <5>4
        <4> HIDE DEF u, v, n, rest, o
        <4>4. \A k \in 1..Len(u) : u[k] = v[k]
          BY <4>1, <4>2, <4>3
        <4>5. u = v
          BY <4>1, <4>2, <4>4, SeqEqual
        <4> QED BY <4>5 DEF u, v
      <3> QED BY <1>10, <3>1, <3>2
    <2>3. r.buffer \o SubSeq(rest, 1, n) = Window(t, p, z)
      <3>1. Window(t, p, w) \o Window(t, p + w, n) = Window(t, p, w + n)
        <4>1. p + w + n <= TableLength(t)
          BY <1>10
        <4>2. w \in Nat /\ n \in Nat
          BY <1>10, <2>1
        <4> HIDE DEF n
        <4> QED BY <4>1, <4>2, Longer
      <3>2. w + n = z
        BY <1>10
      <3> QED BY <1>3, <2>2, <3>1, <3>2
    <2>4. g = [r EXCEPT !.stage = "idle", !.offset = 0, !.buffer = Window(t, p, z),
                        !.data = Window(t, p, z), !.iterator_offset = r.start]
      <3> HIDE DEF rest
      <3>1. (IF Len(rest) < r.remaining THEN Len(rest) ELSE r.remaining) = n /\ n = r.remaining
        BY <1>9, <1>10, <2>1
      <3> HIDE DEF n
      <3> QED BY <2>3, <3>1 DEF Filled, rest
    <2>5. /\ DOMAIN g = ReaderFields /\ g.stage = "idle" /\ g.offset = 0 /\ g.buffer = Window(t, p, z)
          /\ g.data = Window(t, p, z) /\ g.iterator_offset = r.start
      <3> HIDE DEF g
      <3> QED BY <1>4, <2>4 DEF ReaderFields
    <2>6. r.start \in 1..z /\ Start(b) = p + r.start
      <3>1. CASE r.start \in 1..w /\ Start(b) = p + r.start
        BY <1>10, <3>1
      <3>2. CASE Start(b) + Len(block) < p + z
        <4> DEFINE x == Len(block)
        <4>1. x \in Nat /\ Start(b) \in Nat /\ Start(b) + x < p + z /\ p + z <= Start(b) + x
          BY <1>7, <1>11, <1>13, <3>2
        <4> HIDE DEF x
        <4> QED BY <4>1
      <3> QED BY <1>3, <3>1, <3>2
    <2> HIDE DEF g, r
    <2>7. Rests(t, y, p, z)
      BY <1>1, <1>6, <1>11, <2>5, <2>6 DEF Rests
    <2> QED BY <2>7 DEF y
  <1>12. CASE ~(p + z <= Start(b) + Len(block))
    <2> DEFINE v == w + l
    <2>1. l < r.remaining /\ v \in 1..z /\ z - w - l = z - v /\ p + v = Start(b) + Len(block)
      <3> DEFINE x == Len(block)
      <3>1. /\ o \in Nat /\ l = x - o /\ p + w = Start(b) + o /\ w \in Nat /\ w <= z /\ x \in Nat
            /\ Start(b) \in Nat /\ ~(p + z <= Start(b) + x) /\ r.remaining = z - w /\ o <= x
            /\ (w >= 1 \/ o < x)
        <4>1. w >= 1 \/ o < x
          BY <1>3
        <4> QED BY <1>7, <1>10, <1>12, <1>13, <4>1
      <3> HIDE DEF x, o, l
      <3>2. l < r.remaining /\ w + l \in 1..z /\ z - w - l = z - (w + l) /\ p + (w + l) = Start(b) + x
        BY <3>1
      <3> QED BY <3>2 DEF x
    <2>2. b < Len(t)
      BY <1>1, <1>2, <1>12
    <2>3. b + 1 \in 1..Len(t) /\ p + v = Start(b + 1)
      BY <1>2, <2>1, <2>2
    <2>4. r.buffer \o SubSeq(rest, 1, l) = Window(t, p, v)
      <3>1. SubSeq(rest, 1, l) = rest
        <4> DEFINE u == rest
        <4>1. u \in Seq(Nat \X Nat) /\ Len(u) = l
          BY <1>9
        <4> HIDE DEF u, l
        <4>2. SubSeq(u, 1, l) \in Seq(Nat \X Nat) /\ Len(SubSeq(u, 1, l)) = l
              /\ \A k \in 1..l : SubSeq(u, 1, l)[k] = u[k]
          BY <1>7, <4>1
        <4>3. SubSeq(u, 1, l) = u
          BY <4>1, <4>2, SeqEqual
        <4> QED BY <4>3 DEF u
      <3>2. Window(t, p, w) \o Window(t, p + w, l) = Window(t, p, w + l)
        <4>1. p + w + l <= TableLength(t)
          <5> DEFINE x == Len(block)
          <5>1. o + l = x /\ x \in Nat /\ o \in Nat /\ l \in Nat /\ p + w = Start(b) + o
                /\ Start(b) \in Nat /\ Start(b) + x <= TableLength(t) /\ TableLength(t) \in Nat
            BY <1>7, <1>10, <1>13
          <5> HIDE DEF x, o, l
          <5> QED BY <1>10, <5>1
        <4>2. w \in Nat /\ l \in Nat
          BY <1>7, <1>10
        <4> HIDE DEF l, v, o, g, rest, block, r
        <4> QED BY <4>1, <4>2, Longer
      <3> QED BY <1>3, <1>8, <1>10, <3>1, <3>2
    <2>5. g = [r EXCEPT !.stage = "next", !.offset = 0, !.buffer = Window(t, p, v),
                        !.remaining = @ - l, !.start = r.size - r.remaining + l]
      <3> HIDE DEF rest
      <3>1. (IF Len(rest) < r.remaining THEN Len(rest) ELSE r.remaining) = l /\ l # r.remaining
        BY <1>7, <1>9, <1>10, <2>1
      <3> HIDE DEF l
      <3> QED BY <2>4, <3>1 DEF Filled, rest
    <2>6. /\ DOMAIN g = ReaderFields /\ g.stage = "next" /\ g.offset = 0 /\ g.buffer = Window(t, p, v)
          /\ g.size = z /\ g.remaining = r.remaining - l /\ g.start = r.size - r.remaining + l
      <3> HIDE DEF g
      <3> QED BY <1>4, <2>5 DEF ReaderFields
    <2>7. g.remaining = z - v /\ g.start = v
      BY <1>4, <1>7, <1>10, <2>6
    <2> HIDE DEF g, r, v
    <2>8. GoesOn(t, y, p, z, b)
      BY <1>1, <1>6, <2>1, <2>3, <2>6, <2>7 DEF GoesOn
    <2> QED BY <2>8 DEF y
  <1> QED BY <1>11, <1>12

\* reader_iterator_next
LEMMA NextShows ==
    ASSUME NEW t, Cut(t), NEW m, NEW p \in Nat, NEW z \in Nat \ {0}, NEW b, GoesOn(t, m, p, z, b)
    PROVE  Fills(t, MetaTurn(t, m), p, z, b + 1) /\ b + 1 \in 1..Len(t)
  <1> DEFINE y == MetaTurn(t, m)
             i == MetaNext(t, m.it)
  <1>1. b \in 1..Len(t) /\ b + 1 \in 1..Len(t) /\ At(t, m.it, b) /\ m.reader.stage = "next"
        /\ DOMAIN m.reader = ReaderFields
    BY DEF GoesOn
  <1>2. b < Len(t)
    BY <1>1, TableBytes
  <1>3. At(t, i, b + 1)
    <2> DEFINE j == m.it
               c == b + 1
    <2>1. Ahead(t, j, c)
      BY <1>1, <1>2, AtAhead
    <2>2. c \in 1..Len(t)
      BY <1>1
    <2> HIDE DEF j, c
    <2>3. At(t, MetaNext(t, j), c)
      BY <2>1, <2>2, NextAt
    <2> QED BY <2>3 DEF j, c
  <1>4. y = [it |-> i, reader |-> Continued(m.reader)]
    BY <1>1, <1>3 DEF MetaTurn, At
  <1> DEFINE g == Continued(m.reader)
  <1>5. /\ DOMAIN g = ReaderFields /\ g.stage = "fill" /\ g.size = m.reader.size /\ g.buffer = m.reader.buffer
        /\ g.offset = m.reader.offset /\ g.remaining = m.reader.remaining /\ g.start = m.reader.start
    BY <1>1 DEF Continued, ReaderFields
  <1>6. DOMAIN y = MetaFields /\ y.it = i /\ y.reader = g
    BY <1>4 DEF MetaFields
  <1> HIDE DEF y, i, g
  <1> DEFINE w == m.reader.start
  <1>7. /\ w \in 1..z /\ m.reader.buffer = Window(t, p, w) /\ m.reader.remaining = z - w
        /\ p + w = Start(b + 1) /\ m.reader.offset = 0 /\ m.reader.size = z
    BY DEF GoesOn
  <1>8. Len(t[b + 1].bytes) \in Nat /\ Start(b + 1) \in Nat
    <2> DEFINE c == b + 1
    <2>1. c \in 1..Len(t)
      BY <1>1
    <2> HIDE DEF c
    <2>2. Len(t[c].bytes) \in 1..MetaSize /\ MetaSize \in Nat /\ Start(c) \in Nat
      BY <2>1, CutBlock
    <2> QED BY <2>2 DEF c
  <1> HIDE DEF w
  <1>9. /\ y.reader.buffer = Window(t, p, w) /\ y.reader.remaining = z - w /\ w \in 0..z
        /\ p + w = Start(b + 1) + y.reader.offset /\ y.reader.start \in 1..w /\ Start(b + 1) = p + y.reader.start
    BY <1>5, <1>6, <1>7, <1>8 DEF w
  <1>10. Fills(t, y, p, z, b + 1)
    <2>1. y.reader.size = z /\ y.reader.offset \in 0..Len(t[b + 1].bytes) /\ y.reader.stage = "fill"
          /\ DOMAIN y.reader = ReaderFields /\ At(t, y.it, b + 1)
      BY <1>3, <1>5, <1>6, <1>7, <1>8
    <2> QED BY <1>1, <1>6, <1>9, <2>1 DEF Fills
  <1> QED BY <1>1, <1>10 DEF y

-----------------------------------------------------------------------------
(* An advance *)

\* The stages of an advance, one by one.
RunsBy(t, x, f) ==
    /\ f[0] = x
    /\ \A k \in 1..(2 * Len(t) + 4) : f[k] = MetaTurn(t, f[k - 1])
    /\ MetaRun(t, x) = f[2 * Len(t) + 4]

\* Every advance takes these stages.
LEMMA RunTurns ==
    ASSUME NEW t, NEW x, Len(t) \in Nat
    PROVE  \E f : RunsBy(t, x, f)
  <1> DEFINE n == 2 * Len(t) + 4
             G(m, g) == g = [k \in 0..m |-> IF k = 0 THEN x ELSE MetaTurn(t, g[k - 1])]
             S == {m \in Nat : \E g : G(m, g)}
  <1>1. 0 \in S
    <2> DEFINE g == [k \in 0..0 |-> x]
    <2>1. G(0, g)
      OBVIOUS
    <2> QED BY <2>1
  <1>2. ASSUME NEW m \in Nat, m \in S PROVE m + 1 \in S
    <2>1. PICK g : G(m, g)
      BY <1>2
    <2> DEFINE h == [k \in 0..(m + 1) |-> IF k = m + 1 THEN MetaTurn(t, g[m]) ELSE g[k]]
    <2>2. \A k \in 0..m : g[k] = IF k = 0 THEN x ELSE MetaTurn(t, g[k - 1])
      BY <2>1
    <2>3. \A k \in 0..(m + 1) : h[k] = IF k = 0 THEN x ELSE MetaTurn(t, h[k - 1])
      BY <2>2
    <2>4. h = [k \in 0..(m + 1) |-> h[k]]
      OBVIOUS
    <2> HIDE DEF h
    <2>5. G(m + 1, h)
      BY <2>3, <2>4
    <2> QED BY <2>5
  <1>3. Nat \subseteq S
    <2> HIDE DEF S
    <2> QED BY <1>1, <1>2, EveryNumber
  <1>4. \E g : G(n, g)
    <2>1. n \in Nat
      OBVIOUS
    <2> HIDE DEF n
    <2> QED BY <1>3, <2>1
  <1> DEFINE f == CHOOSE g : G(n, g)
  <1>5. G(n, f)
    BY <1>4
  <1>6. MetaRun(t, x) = f[n]
    BY DEF MetaRun, Turns
  <1> HIDE DEF f
  <1>7. f[0] = x /\ \A k \in 1..n : f[k] = MetaTurn(t, f[k - 1])
    BY <1>5
  <1>8. RunsBy(t, x, f)
    BY <1>6, <1>7 DEF RunsBy
  <1> QED BY <1>8

\* The buffer is filled before the turns are over: two of them for each metablock.
Collects(t, m, p, z, k) ==
    \E b \in Nat : \/ Fills(t, m, p, z, b) /\ k <= 2 * b - 1
                   \/ GoesOn(t, m, p, z, b) /\ k <= 2 * b

LEMMA BusyTurn ==
    ASSUME NEW t, Cut(t), NEW m, NEW p \in Nat, NEW z \in Nat \ {0}, p + z <= TableLength(t),
           NEW k \in Nat, Collects(t, m, p, z, k)
    PROVE  LET y == MetaTurn(t, m) IN Rests(t, y, p, z) \/ Collects(t, y, p, z, k + 1)
  <1>1. PICK b \in Nat : \/ Fills(t, m, p, z, b) /\ k <= 2 * b - 1
                         \/ GoesOn(t, m, p, z, b) /\ k <= 2 * b
    BY DEF Collects
  <1>2. CASE Fills(t, m, p, z, b) /\ k <= 2 * b - 1
    <2>1. Rests(t, MetaTurn(t, m), p, z) \/ GoesOn(t, MetaTurn(t, m), p, z, b)
      BY <1>2, FillShows
    <2>2. k + 1 <= 2 * b
      BY <1>2
    <2> QED BY <2>1, <2>2 DEF Collects
  <1>3. CASE GoesOn(t, m, p, z, b) /\ k <= 2 * b
    <2>1. Fills(t, MetaTurn(t, m), p, z, b + 1)
      BY <1>3, NextShows
    <2>2. k + 1 <= 2 * (b + 1) - 1 /\ b + 1 \in Nat
      BY <1>3
    <2> QED BY <2>1, <2>2 DEF Collects
  <1> QED BY <1>1, <1>2, <1>3

LEMMA BusyEnds ==
    ASSUME NEW t, Cut(t), NEW m, NEW p, NEW z
    PROVE  ~Collects(t, m, p, z, 2 * Len(t) + 4)
  <1> SUFFICES ASSUME Collects(t, m, p, z, 2 * Len(t) + 4) PROVE FALSE
    OBVIOUS
  <1>1. PICK b \in Nat : \/ Fills(t, m, p, z, b) /\ 2 * Len(t) + 4 <= 2 * b - 1
                         \/ GoesOn(t, m, p, z, b) /\ 2 * Len(t) + 4 <= 2 * b
    BY DEF Collects
  <1>2. b \in 1..Len(t) /\ Len(t) \in Nat
    BY <1>1, TableBytes DEF Fills, GoesOn
  <1> QED BY <1>1, <1>2

LEMMA IdleTurn ==
    ASSUME NEW t, NEW m, NEW p, NEW z, Rests(t, m, p, z)
    PROVE  MetaTurn(t, m) = m
  BY DEF Rests, MetaTurn

\* All turns, when the first one brings the reader to the window or to the filling of its buffer.
LEMMA RunShows ==
    ASSUME NEW t, Cut(t), NEW x, NEW p \in Nat, NEW z \in Nat \ {0}, p + z <= TableLength(t),
           Rests(t, MetaTurn(t, x), p, z) \/ Collects(t, MetaTurn(t, x), p, z, 1)
    PROVE  Rests(t, MetaRun(t, x), p, z)
  <1> DEFINE n == 2 * Len(t) + 4
             l == n - 1
             y == MetaRun(t, x)
  <1>1. Len(t) \in Nat
    BY TableBytes
  <1>2. n \in Nat /\ l \in Nat /\ n = l + 1
    BY <1>1
  <1> HIDE DEF n, l, y
  <1>15. PICK f : RunsBy(t, x, f)
    BY <1>1, RunTurns
  <1>3. f[0] = x /\ (\A k \in 1..n : f[k] = MetaTurn(t, f[k - 1])) /\ y = f[n]
    BY <1>15 DEF RunsBy, n, y
  <1> DEFINE S == {k \in Nat : k <= l => Rests(t, f[k + 1], p, z) \/ Collects(t, f[k + 1], p, z, k + 1)}
  <1>4. 0 \in S
    <2>1. 1 \in 1..n /\ 1 - 1 = 0 /\ 0 + 1 = 1
      BY <1>2
    <2>2. f[0 + 1] = MetaTurn(t, x)
      BY <1>3, <2>1
    <2> QED BY <2>1, <2>2
  <1>5. ASSUME NEW k \in Nat, k \in S PROVE k + 1 \in S
    <2> DEFINE j == k + 1
    <2> SUFFICES ASSUME j <= l PROVE Rests(t, f[j + 1], p, z) \/ Collects(t, f[j + 1], p, z, j + 1)
      OBVIOUS
    <2>1. j + 1 \in 1..n /\ (j + 1) - 1 = j /\ k <= l /\ j \in Nat
      BY <1>2
    <2>2. f[j + 1] = MetaTurn(t, f[j])
      BY <1>3, <2>1
    <2>3. Rests(t, f[j], p, z) \/ Collects(t, f[j], p, z, j)
      BY <1>5, <2>1
    <2> HIDE DEF j
    <2>4. CASE Rests(t, f[j], p, z)
      BY <2>2, <2>4, IdleTurn
    <2>5. CASE Collects(t, f[j], p, z, j)
      BY <2>1, <2>2, <2>5, BusyTurn
    <2> QED BY <2>3, <2>4, <2>5
  <1>6. l \in S
    <2> HIDE DEF S
    <2> QED BY <1>2, <1>4, <1>5, EveryNumber
  <1>7. Rests(t, f[n], p, z) \/ Collects(t, f[n], p, z, n)
    BY <1>2, <1>6
  <1>8. ~Collects(t, f[n], p, z, n)
    BY BusyEnds DEF n
  <1>9. Rests(t, y, p, z)
    BY <1>3, <1>7, <1>8
  <1> QED BY <1>9 DEF y

\* Where an advance by o bytes comes to place p when it asks for z bytes there: from a window, past
\* it or on the spot with as many bytes at least; from a reader that has not read yet.
Reaches(t, m, o, p, z) ==
    \/ \E w, c \in Nat : Rests(t, m, w, c) /\ w + o = p /\ (o >= c \/ (o = 0 /\ z >= c))
    \/ \E b \in 1..Len(t) : m = FreshMetaReader(t[b].address) /\ Start(b) + o = p

LEMMA SkipReaches ==
    ASSUME NEW t, Cut(t), NEW m, DOMAIN m = MetaFields, DOMAIN m.reader = ReaderFields,
           NEW o \in Nat, NEW z \in 1..(SizeMax - 1), NEW p \in Nat, p + z <= TableLength(t),
           o >= m.reader.iterator_offset,
           NEW b \in 1..Len(t), At(t, m.it, b) \/ (Ahead(t, m.it, b) /\ m.it.data = <<>>),
           NEW s \in Nat, s = o - m.reader.iterator_offset + m.reader.offset, Start(b) + s = p
    PROVE  Rests(t, MetaAdvanced(t, m, o, z), p, z)
  <1> DEFINE x == [m EXCEPT !.reader = Advanced(@, o, z)]
             g == Advanced(m.reader, o, z)
  <1>1. g = [m.reader EXCEPT !.stage = "skip", !.skip = s, !.iterator_offset = 0, !.size = z]
    BY DEF Advanced
  <1>2. DOMAIN g = ReaderFields /\ g.stage = "skip" /\ g.skip = s /\ g.iterator_offset = 0 /\ g.size = z
    BY <1>1 DEF ReaderFields
  <1>3. DOMAIN x = MetaFields /\ x.it = m.it /\ x.reader = g
    BY DEF MetaFields
  <1> HIDE DEF g, x
  <1>4. Rests(t, MetaTurn(t, x), p, z) \/ \E c \in 1..Len(t) : Fills(t, MetaTurn(t, x), p, z, c)
    BY <1>2, <1>3, SkipShows
  <1>5. z \in Nat \ {0}
    BY SizeMaxAssumption
  <1>6. Rests(t, MetaTurn(t, x), p, z) \/ Collects(t, MetaTurn(t, x), p, z, 1)
    <2>1. \A c \in 1..Len(t) : c \in Nat /\ 1 <= 2 * c - 1
      BY TableBytes
    <2> QED BY <1>4, <2>1 DEF Collects
  <1>7. Rests(t, MetaRun(t, x), p, z)
    BY <1>5, <1>6, RunShows
  <1> QED BY <1>7 DEF MetaAdvanced, x

LEMMA BufferReaches ==
    ASSUME NEW t, Cut(t), NEW m, NEW p \in Nat, NEW c \in Nat, Rests(t, m, p, c),
           NEW z \in 1..(SizeMax - 1), z >= c, p + z <= TableLength(t), ~(0 >= m.reader.iterator_offset)
    PROVE  Rests(t, MetaAdvanced(t, m, 0, z), p, z)
  <1> DEFINE r == m.reader
             x == [m EXCEPT !.reader = Advanced(@, 0, z)]
             g == Advanced(r, 0, z)
  <1>1. /\ DOMAIN m = MetaFields /\ DOMAIN r = ReaderFields /\ c \in Nat \ {0}
        /\ p + c <= TableLength(t) /\ r.data = Window(t, p, c)
    BY DEF Rests
  <1>2. PICK b \in 1..Len(t) :
          /\ At(t, m.it, b) /\ p + c <= Start(b) + Len(t[b].bytes)
          /\ r.iterator_offset \in 1..c /\ r.buffer = r.data /\ Start(b) = p + r.iterator_offset
    BY DEF Rests
  <1>3. r.buffer = Window(t, p, c)
    BY <1>1, <1>2
  <1>4. Len(r.buffer) = c /\ SubSeq(r.buffer, 0 + 1, Len(r.buffer)) = r.buffer
    <2> DEFINE u == Window(t, p, c)
    <2>1. u \in Seq(Nat \X Nat) /\ Len(u) = c
      BY <1>1, Windows
    <2> HIDE DEF u
    <2>2. SubSeq(u, 0 + 1, Len(u)) = u
      <3>2. SubSeq(u, 1, Len(u)) = u
        BY <2>1, WholeOf
      <3>3. 0 + 1 = 1
        OBVIOUS
      <3> QED BY <3>2, <3>3
    <2> QED BY <1>3, <2>1, <2>2 DEF u
  <1>5. z \in Nat \ {0} /\ SizeMax \in Nat /\ z < SizeMax
    BY SizeMaxAssumption
  <1> DEFINE e == [r EXCEPT !.size = z, !.offset = Len(r.buffer) - r.iterator_offset,
                            !.buffer = SubSeq(r.buffer, 0 + 1, Len(r.buffer))]
  <1>6. g = Filling(e)
    BY DEF Advanced, Buffered
  <1>7. /\ DOMAIN e = ReaderFields /\ e.size = z /\ e.offset = c - r.iterator_offset
        /\ e.buffer = r.buffer /\ e.iterator_offset = r.iterator_offset
    <2>1. /\ DOMAIN e = ReaderFields /\ e.size = z /\ e.offset = Len(r.buffer) - r.iterator_offset
          /\ e.buffer = SubSeq(r.buffer, 0 + 1, Len(r.buffer)) /\ e.iterator_offset = r.iterator_offset
      BY <1>1 DEF ReaderFields
    <2> HIDE DEF e
    <2> QED BY <1>4, <2>1
  <1> HIDE DEF e
  <1>8. (z - c) % SizeMax = z - c
    BY <1>5
  <1>9. /\ DOMAIN g = ReaderFields /\ g.stage = "fill" /\ g.offset = c - r.iterator_offset
        /\ g.buffer = r.buffer /\ g.size = z /\ g.remaining = z - c /\ g.start = r.iterator_offset
    BY <1>4, <1>6, <1>7, <1>8 DEF Filling, ReaderFields
  <1>10. DOMAIN x = MetaFields /\ x.it = m.it /\ x.reader = g
    BY <1>1 DEF MetaFields
  <1>11. Start(b) \in Nat /\ Len(t[b].bytes) \in Nat
    <2>1. Len(t[b].bytes) \in 1..MetaSize /\ MetaSize \in Nat /\ Start(b) \in Nat
      BY CutBlock
    <2> QED BY <2>1
  <1> HIDE DEF g, x, r
  <1>12. Fills(t, x, p, z, b)
    <2>1. /\ x.reader.buffer = Window(t, p, c) /\ x.reader.remaining = z - c /\ c \in 0..z
          /\ p + c = Start(b) + x.reader.offset /\ x.reader.start \in 1..c /\ Start(b) = p + x.reader.start
          /\ x.reader.offset \in 0..Len(t[b].bytes)
      <3> DEFINE x_offset == x.reader.offset
                 l == Len(t[b].bytes)
      <3>1. x_offset = c - r.iterator_offset /\ r.iterator_offset \in 1..c /\ l \in Nat /\ Start(b) \in Nat
            /\ p + c <= Start(b) + l /\ Start(b) = p + r.iterator_offset
        BY <1>2, <1>9, <1>10, <1>11
      <3> DEFINE s == Start(b)
                 o == r.iterator_offset
      <3>3. x_offset = c - o /\ o \in 1..c /\ l \in Nat /\ s \in Nat /\ p + c <= s + l /\ s = p + o
        BY <3>1
      <3>4. c \in Nat
        BY <1>3, <1>5
      <3> HIDE DEF x_offset, l, s, o
      <3>5. p + c = s + x_offset /\ x_offset \in 0..l
        BY <3>3, <3>4
      <3>2. p + c = Start(b) + x_offset /\ x_offset \in 0..l
        BY <3>5 DEF s
      <3> QED BY <1>2, <1>3, <1>5, <1>9, <1>10, <3>2 DEF x_offset, l
    <2> QED BY <1>2, <1>9, <1>10, <2>1 DEF Fills
  <1>13. Rests(t, MetaTurn(t, x), p, z) \/ Collects(t, MetaTurn(t, x), p, z, 1)
    <2>1. Rests(t, MetaTurn(t, x), p, z) \/ GoesOn(t, MetaTurn(t, x), p, z, b)
      BY <1>5, <1>12, FillShows
    <2>2. b \in Nat /\ 1 <= 2 * b
      BY TableBytes
    <2> QED BY <2>1, <2>2 DEF Collects
  <1>14. Rests(t, MetaRun(t, x), p, z)
    BY <1>5, <1>13, RunShows
  <1> QED BY <1>14 DEF MetaAdvanced, x, r

\* sqsh__metablock_reader_advance shows the bytes that lie at the place it comes to, whatever
\* metablocks they lie in.
LEMMA AdvanceShows ==
    ASSUME NEW t, Cut(t), NEW m, NEW o \in Nat, NEW p \in Nat, NEW z \in 1..(SizeMax - 1),
           p + z <= TableLength(t), Reaches(t, m, o, p, z)
    PROVE  Rests(t, MetaAdvanced(t, m, o, z), p, z)
  <1>1. ASSUME NEW w \in Nat, NEW c \in Nat, Rests(t, m, w, c), w + o = p, o >= c \/ (o = 0 /\ z >= c)
        PROVE  Rests(t, MetaAdvanced(t, m, o, z), p, z)
    <2> DEFINE r == m.reader
    <2>1. /\ DOMAIN m = MetaFields /\ DOMAIN r = ReaderFields /\ c \in Nat \ {0}
      BY <1>1 DEF Rests
    <2>2. PICK b \in 1..Len(t) :
            /\ At(t, m.it, b)
            /\ \/ r.iterator_offset = 0 /\ r.offset \in Nat /\ Start(b) + r.offset = w
               \/ r.iterator_offset \in 1..c /\ r.offset = 0 /\ Start(b) = w + r.iterator_offset
      BY <1>1 DEF Rests
    <2>3. Start(b) \in Nat
      BY CutBlock
    <2> DEFINE s == o - r.iterator_offset + r.offset
    <2>4. CASE o >= r.iterator_offset
      <3>1. s \in Nat /\ Start(b) + s = p
        <4> DEFINE i == r.iterator_offset
                   q == r.offset
        <4>1. /\ Start(b) \in Nat /\ w + o = p /\ o >= i
              /\ \/ i = 0 /\ q \in Nat /\ Start(b) + q = w
                 \/ i \in 1..c /\ q = 0 /\ Start(b) = w + i
          BY <1>1, <2>2, <2>3, <2>4
        <4> HIDE DEF i, q
        <4> DEFINE a == Start(b)
        <4> HIDE DEF a
        <4>2. o - i + q \in Nat /\ a + (o - i + q) = p
          <5>1. CASE i = 0 /\ q \in Nat /\ a + q = w
            BY <4>1, <5>1 DEF a
          <5>2. CASE i \in 1..c /\ q = 0 /\ a = w + i
            BY <4>1, <5>2 DEF a
          <5> QED BY <4>1, <5>1, <5>2 DEF a
        <4> QED BY <4>2 DEF i, q, a
      <3> HIDE DEF s
      <3> QED BY <2>1, <2>2, <2>4, <3>1, SkipReaches DEF s
    <2>5. CASE ~(o >= r.iterator_offset)
      <3>1. o = 0 /\ z >= c /\ w = p
        BY <1>1, <2>1, <2>2, <2>5
      <3>2. ~(0 >= r.iterator_offset)
        BY <2>5, <3>1
      <3>3. Rests(t, m, p, c)
        BY <1>1, <3>1
      <3>4. Rests(t, MetaAdvanced(t, m, 0, z), p, z)
        BY <3>1, <3>2, <3>3, BufferReaches
      <3> QED BY <3>1, <3>4
    <2> QED BY <2>4, <2>5
  <1>2. ASSUME NEW b \in 1..Len(t), m = FreshMetaReader(t[b].address), Start(b) + o = p
        PROVE  Rests(t, MetaAdvanced(t, m, o, z), p, z)
    <2>1. /\ DOMAIN m = MetaFields /\ DOMAIN m.reader = ReaderFields /\ m.reader.iterator_offset = 0
          /\ m.reader.offset = 0 /\ m.it = FreshMetablocks(t[b].address)
      BY <1>2 DEF FreshMetaReader, FreshReader, MetaFields, ReaderFields
    <2>2. t[b].address \in Nat
      BY CutBlock
    <2>3. Ahead(t, m.it, b) /\ m.it.data = <<>>
      BY <2>1, <2>2 DEF FreshMetablocks, Ahead, ItFields
    <2>4. o >= m.reader.iterator_offset /\ o = o - m.reader.iterator_offset + m.reader.offset
      BY <2>1
    <2> QED BY <1>2, <2>1, <2>3, <2>4, SkipReaches
  <1> QED BY <1>1, <1>2 DEF Reaches

-----------------------------------------------------------------------------
(* Items *)

\* A window on the first bytes of an item shows the item.
LEMMA ItemShown ==
    ASSUME NEW one, NEW t, Cut(t), NEW p, NEW z, NEW kind, Begins(one, t, p, z, kind),
           NEW m, Rests(t, m, p, z)
    PROVE  MetaOk(m) /\ Shown(one, m) = Item(one, t, p)
  <1> DEFINE data == MetaData(m)
             n == ItemNumber(t, p)
  <1>1. data = Window(t, p, z) /\ MetaOk(m)
    BY DEF Rests, MetaData, MetaOk
  <1>2. /\ p \in Nat /\ z \in Nat \ {0} /\ p + z <= TableLength(t) /\ n \in DOMAIN one.items
        /\ \A k \in 1..z : ByteAt(t, p + k) = <<n, k>>
    BY SizeMaxAssumption DEF Begins
  <1>3. /\ data \in Seq(Nat \X Nat) /\ Len(data) = z
        /\ \A k \in 1..z : data[k] = Bytes(t)[p + k]
    <2> DEFINE w == Window(t, p, z)
    <2>1. w \in Seq(Nat \X Nat) /\ Len(w) = z /\ \A k \in 1..z : w[k] = Bytes(t)[p + k]
      BY <1>2, Windows
    <2> HIDE DEF w, data
    <2> QED BY <1>1, <2>1 DEF w
  <1>4. \A k \in 1..z : data[k] = <<n, k>>
    <2> SUFFICES ASSUME NEW k \in 1..z PROVE data[k] = <<n, k>>
      OBVIOUS
    <2>1. p + k \in 1..TableLength(t)
      <3>1. TableLength(t) \in Nat
        BY TableBytes
      <3> QED BY <1>2, <3>1
    <2>2. Bytes(t)[p + k] = ByteAt(t, p + k)
      BY <2>1 DEF Bytes
    <2> HIDE DEF data, n
    <2> QED BY <1>2, <1>3, <2>2
  <1> HIDE DEF data, n
  <1>5. data # <<>> /\ DOMAIN data = 1..z /\ 1 \in 1..z
    BY <1>2, <1>3
  <1>6. data[1] = <<n, 1>>
    BY <1>4, <1>5
  <1>7. data[1][1] = n
    BY <1>6
  <1>8. /\ data[1][1] \in DOMAIN one.items
        /\ \A k \in DOMAIN data : data[k] = <<data[1][1], k>>
    BY <1>2, <1>4, <1>5, <1>7
  <1>9. Shown(one, m) = one.items[n]
    BY <1>5, <1>7, <1>8 DEF Shown, data
  <1> QED BY <1>1, <1>9 DEF Item, n

LEMMA BeginsLess ==
    ASSUME NEW one, NEW t, NEW p, NEW z, NEW kind, Begins(one, t, p, z, kind), TableLength(t) \in Nat,
           NEW y \in Nat \ {0}, y <= z
    PROVE  Begins(one, t, p, y, kind)
  BY SizeMaxAssumption DEF Begins

\* What an advance leaves: the window on the first z bytes of the item at place p, and nothing else.
Comes(one, t, it, a, p, z) ==
    /\ DOMAIN a = DOMAIN it /\ \A x \in DOMAIN it \ {"meta"} : a[x] = it[x]
    /\ ~Ended(a) /\ Rests(t, a.meta, p, z) /\ Shown(one, a.meta) = Item(one, t, p)

LEMMA BeginComes ==
    ASSUME NEW one, NEW t, Cut(t), NEW it, {"rv", "meta"} \subseteq DOMAIN it, ~Ended(it),
           NEW o \in Nat, NEW p, NEW z, NEW kind, Begins(one, t, p, z, kind), Reaches(t, it.meta, o, p, z)
    PROVE  Comes(one, t, it, Begin(one, it, t, o, z, kind), p, z)
  <1> DEFINE m == MetaAdvanced(t, it.meta, o, z)
             x == [it EXCEPT !.meta = m]
             a == Begin(one, it, t, o, z, kind)
  <1>1. p \in Nat /\ z \in 1..(SizeMax - 1) /\ p + z <= TableLength(t) /\ Item(one, t, p).kind = kind
    BY DEF Begins
  <1>2. Rests(t, m, p, z)
    BY <1>1, AdvanceShows
  <1>3. MetaOk(m) /\ Shown(one, m) = Item(one, t, p)
    <2> HIDE DEF m
    <2> QED BY <1>2, ItemShown
  <1>4. DOMAIN x = DOMAIN it /\ x.meta = m /\ x.rv = it.rv /\ \A y \in DOMAIN it \ {"meta"} : x[y] = it[y]
    <2> HIDE DEF m
    <2> QED OBVIOUS
  <1>5. ~Ended(x)
    BY <1>4 DEF Ended
  <1>6. Advance(it, t, o, z) = x
    <2>1. Advance(it, t, o, z) = Checked(x)
      BY DEF Advance
    <2> HIDE DEF x, m
    <2> QED BY <1>3, <1>4, <2>1 DEF Checked
  <1>7. a = Expect(x, Shown(one, x.meta), kind)
    <2> HIDE DEF x
    <2> QED BY <1>6 DEF Begin
  <1> HIDE DEF m, x, a
  <1>8. a = x
    BY <1>1, <1>3, <1>4, <1>7 DEF Expect
  <1>9. Comes(one, t, it, a, p, z)
    BY <1>2, <1>3, <1>4, <1>5, <1>8 DEF Comes
  <1> QED BY <1>9 DEF a

LEMMA ExtendComes ==
    ASSUME NEW one, NEW t, Cut(t), NEW it, {"rv", "meta"} \subseteq DOMAIN it, ~Ended(it),
           NEW p, NEW c, Rests(t, it.meta, p, c), NEW z, NEW kind, Begins(one, t, p, z, kind), z >= c
    PROVE  Comes(one, t, it, Extend(one, it, t, z, kind), p, z)
  <1>1. p \in Nat /\ c \in Nat
    BY DEF Rests
  <1>2. Reaches(t, it.meta, 0, p, z)
    <2>1. p + 0 = p
      BY <1>1
    <2> QED BY <1>1, <2>1 DEF Reaches
  <1> QED BY <1>2, BeginComes DEF Extend

\* An item is of its kind.
LEMMA ItemKinds ==
    ASSUME NEW one \in Archives, NEW t, NEW p, NEW z, NEW kind, Begins(one, t, p, z, kind)
    PROVE  LET item == Item(one, t, p)
           IN  /\ item.kind = kind
               /\ kind = "inode" => item \in InodeItem
               /\ kind = "id" => item \in IdItem
               /\ kind = "ref" => item \in ExportItem
               /\ kind = "index" => item \in IndexItem
               /\ kind = "fragment" => item \in FragmentItem
               /\ kind = "entry" => item \in EntryItem
               /\ kind = "key" => item \in KeyItem
               /\ kind = "value" => item \in ValueItem
               /\ kind = "xattr_id" => item \in XattrIdItem
  <1> DEFINE item == Item(one, t, p)
             all == InodeItem \cup IdItem \cup ExportItem \cup IndexItem \cup FragmentItem \cup EntryItem
                    \cup KeyItem \cup ValueItem \cup XattrIdItem
  <1>1. item \in all /\ item.kind = kind
    <2>1. item \in Range(one.items) /\ item.kind = kind
      BY DEF Begins, Item, Range
    <2> QED BY <2>1, ArchivesAssumption
  <1>2. \A i \in all : /\ i.kind = "inode" => i \in InodeItem
                       /\ i.kind = "id" => i \in IdItem
                       /\ i.kind = "ref" => i \in ExportItem
                       /\ i.kind = "index" => i \in IndexItem
                       /\ i.kind = "fragment" => i \in FragmentItem
                       /\ i.kind = "entry" => i \in EntryItem
                       /\ i.kind = "key" => i \in KeyItem
                       /\ i.kind = "value" => i \in ValueItem
                       /\ i.kind = "xattr_id" => i \in XattrIdItem
    <2>1. \A i \in InodeItem : i.kind = "inode"
      BY DEF InodeItem
    <2>2. \A i \in IdItem : i.kind = "id"
      BY DEF IdItem
    <2>3. \A i \in ExportItem : i.kind = "ref"
      BY DEF ExportItem
    <2>4. \A i \in IndexItem : i.kind = "index"
      BY DEF IndexItem
    <2>5. \A i \in FragmentItem : i.kind = "fragment"
      BY DEF FragmentItem
    <2>6. \A i \in EntryItem : i.kind = "entry"
      BY DEF EntryItem
    <2>7. \A i \in KeyItem : i.kind = "key"
      BY DEF KeyItem
    <2>8. \A i \in ValueItem : i.kind = "value"
      BY DEF ValueItem
    <2>9. \A i \in XattrIdItem : i.kind = "xattr_id"
      BY DEF XattrIdItem
    <2> QED BY <2>1, <2>2, <2>3, <2>4, <2>5, <2>6, <2>7, <2>8, <2>9
  <1> HIDE DEF item, all
  <1> QED BY <1>1, <1>2 DEF item

-----------------------------------------------------------------------------
(* Tables of elements *)

\* The elements of a table lie where the table looks for them.
LEMMA ElementPlaces ==
    ASSUME NEW size \in Nat \ {0}, NEW count \in Nat, NEW index \in 0..(count - 1)
    PROVE  index * size \in Nat /\ index * size + size <= size * count /\ size * count \in Nat
  <1> DEFINE d == count - 1 - index
             a == index * size
             b == d * size
  <1>1. d \in Nat /\ index \in Nat /\ count = index + d + 1
    OBVIOUS
  <1>2. a \in Nat /\ b \in Nat
    BY <1>1
  <1>3. size * count = a + b + size
    BY <1>1
  <1> HIDE DEF a, b
  <1>4. a \in Nat /\ a + size <= size * count /\ size * count \in Nat
    BY <1>2, <1>3
  <1> QED BY <1>4 DEF a

\* sqsh__table_init and sqsh_table_get
LEMMA TableShows ==
    ASSUME NEW one, NEW stored, NEW size \in Nat \ {0}, NEW count, NEW kind,
           ElementsLaidOut(one, stored, size, count, kind), NEW index \in 0..(count - 1)
    PROVE  LET m == TableGet(TableInit(stored, size, count), index)
           IN  MetaOk(m) /\ Shown(one, m) = Item(one, stored.blocks, index * size)
  <1> DEFINE t == stored.blocks
             table == TableInit(stored, size, count)
             o == index * size
             n == o \div MetaSize
             total == size * count
             blocks == (total + MetaSize - 1) \div MetaSize
             m == TableGet(table, index)
  <1>1. /\ Cut(t) /\ count \in Nat
        /\ stored.lookup = [b \in 1..Len(t) |-> t[b].address]
        /\ \A i \in 0..(count - 1) : Begins(one, t, i * size, size, kind)
    BY DEF ElementsLaidOut
  <1>2. o \in Nat /\ o + size <= total /\ total \in Nat
    BY <1>1, ElementPlaces
  <1>3. Begins(one, t, o, size, kind)
    BY <1>1
  <1>4. size \in 1..(SizeMax - 1) /\ o + size <= TableLength(t)
    BY <1>3 DEF Begins
  <1>5. TableLength(t) \in Nat /\ Len(t) \in Nat /\ BlockOf(o) \in 1..Len(t)
    <2> HIDE DEF t, o
    <2>1. TableLength(t) \in Nat /\ Len(t) \in Nat /\ (\A p \in Nat : p < TableLength(t) => BlockOf(p) \in 1..Len(t))
      BY <1>1, TableBytes
    <2> QED BY <1>2, <1>4, <2>1
  <1>6. /\ o = Start(n + 1) + (o % MetaSize) /\ o % MetaSize \in Nat /\ n \in Nat /\ BlockOf(o) = n + 1
        /\ MetaSize \in Nat \ {0}
    <2> HIDE DEF o
    <2>1. /\ BlockOf(o) \in Nat \ {0} /\ o = Start(BlockOf(o)) + (o % MetaSize)
          /\ o % MetaSize \in 0..(MetaSize - 1)
      BY <1>2, BlockOfPlace
    <2>2. BlockOf(o) = n + 1
      BY DEF BlockOf
    <2>3. n \in Nat
      BY <1>2, MetaSizeAssumption
    <2> QED BY <2>1, <2>2, <2>3, MetaSizeAssumption
  <1>7. blocks \in Nat /\ n + 1 <= blocks
    <2> DEFINE x == total + MetaSize - 1
    <2>1. x \in Nat /\ o + MetaSize <= x
      BY <1>2, <1>6
    <2> HIDE DEF x, o
    <2>2. x = MetaSize * (x \div MetaSize) + (x % MetaSize) /\ x % MetaSize \in 0..(MetaSize - 1) /\ x \div MetaSize \in Nat
      BY <2>1, MetaSizeAssumption
    <2>3. o = MetaSize * (o \div MetaSize) + (o % MetaSize) /\ o % MetaSize \in 0..(MetaSize - 1) /\ o \div MetaSize \in Nat
      BY <1>2, MetaSizeAssumption
    <2>4. \A u, v \in Nat : ~(u + 1 <= v) => MetaSize * v <= MetaSize * u
      <3> SUFFICES ASSUME NEW u \in Nat, NEW v \in Nat, ~(u + 1 <= v) PROVE MetaSize * v <= MetaSize * u
        OBVIOUS
      <3> DEFINE w == u - v
      <3>1. w \in Nat /\ u = v + w
        OBVIOUS
      <3>2. MetaSize * u = MetaSize * v + MetaSize * w /\ MetaSize * w \in Nat /\ MetaSize * v \in Nat
        BY <1>6, <3>1
      <3> QED BY <3>2
    <2>5. ~(MetaSize * (x \div MetaSize) <= MetaSize * (o \div MetaSize))
      <3> DEFINE u == MetaSize * (x \div MetaSize)
                 v == MetaSize * (o \div MetaSize)
      <3>1. u \in Nat /\ v \in Nat
        BY <1>6, <2>2, <2>3
      <3> DEFINE y == x % MetaSize
                 w == o % MetaSize
      <3>2. x = u + y /\ o = v + w /\ y \in 0..(MetaSize - 1) /\ w \in 0..(MetaSize - 1)
        BY <2>2, <2>3
      <3> HIDE DEF u, v, y, w
      <3>3. ~(u <= v)
        BY <1>6, <2>1, <3>1, <3>2
      <3> QED BY <3>3 DEF u, v
    <2> QED BY <2>2, <2>3, <2>4, <2>5 DEF x
  <1>8. SubSeq(stored.lookup, 1, blocks)[n + 1] = t[n + 1].address /\ n < Len(SubSeq(stored.lookup, 1, blocks))
    <2> DEFINE l == stored.lookup
    <2>1. l[n + 1] = t[n + 1].address
      BY <1>1, <1>5, <1>6
    <2> HIDE DEF l, n, blocks
    <2>2. SubSeq(l, 1, blocks) = [i \in 1..blocks |-> l[i]]
      BY <1>7
    <2>3. Len(SubSeq(l, 1, blocks)) = blocks
      BY <1>7, <2>2
    <2>4. n + 1 \in 1..blocks /\ n < blocks
      BY <1>6, <1>7
    <2>5. SubSeq(l, 1, blocks)[n + 1] = l[n + 1]
      BY <2>2, <2>4
    <2> QED BY <2>1, <2>3, <2>4, <2>5 DEF l
  <1>9. /\ table.blocks = t /\ table.lookup = SubSeq(stored.lookup, 1, blocks)
        /\ table.size = size /\ table.count = count
    BY DEF TableInit
  <1> HIDE DEF table, t, n, blocks, total
  <1>10. m = MetaAdvanced(t, FreshMetaReader(t[n + 1].address), o % MetaSize, size)
    <2>1. ~(index \notin 0..(table.count - 1) \/ n >= Len(table.lookup))
      <3>1. Len(table.lookup) = blocks
        BY <1>7, <1>9
      <3> QED BY <1>7, <1>9, <3>1, <1>6
    <2>2. index * table.size = o /\ o \div MetaSize = n
      BY <1>9 DEF n
    <2> HIDE DEF o
    <2> QED BY <1>8, <1>9, <2>1, <2>2 DEF TableGet
  <1>11. Reaches(t, FreshMetaReader(t[n + 1].address), o % MetaSize, o, size)
    <2>1. n + 1 \in 1..Len(t) /\ Start(n + 1) + (o % MetaSize) = o
      BY <1>5, <1>6
    <2> HIDE DEF o
    <2> QED BY <2>1 DEF Reaches
  <1> HIDE DEF o, m
  <1>12. Rests(t, m, o, size)
    BY <1>1, <1>2, <1>4, <1>6, <1>10, <1>11, AdvanceShows
  <1>13. MetaOk(m) /\ Shown(one, m) = Item(one, t, o)
    BY <1>1, <1>3, <1>12, ItemShown
  <1> QED BY <1>13 DEF m, o, t, table

-----------------------------------------------------------------------------
(* Inodes and ids of an archive that is laid out *)

LEMMA PayloadSizes ==
    ASSUME NEW inode \in InodeItem
    PROVE  TypeSize(inode) \in Nat \ {0} /\ PayloadSize(inode) \in Nat
  <1>1. inode.size \in Nat /\ BlockBytes \in Nat \ {0} /\ inode.extended \in BOOLEAN
    BY BlockBytesAssumption DEF InodeItem
  <1>2. FilePayload(inode) \in Nat
    <2> DEFINE x == IF inode.fragment THEN inode.size ELSE inode.size + BlockBytes - 1
    <2>1. x \in Nat
      BY <1>1
    <2>2. FilePayload(inode) = x \div BlockBytes
      BY DEF FilePayload
    <2> HIDE DEF x
    <2> QED BY <1>1, <2>1, <2>2
  <1>3. SymlinkPayload(inode) \in Nat
    BY <1>1 DEF SymlinkPayload
  <1> QED BY <1>2, <1>3 DEF TypeSize, PayloadSize

\* What is known of an inode where it lies.
LEMMA InodeFacts ==
    ASSUME NEW one \in Archives, LaidOut(one), NEW ref \in DOMAIN one.tree
    PROVE  LET inode == InodeOf(one, ref)
               p == one.tree[ref].place
           IN  /\ Cut(one.inodes) /\ inode \in InodeItem /\ inode = Item(one, one.inodes, p)
               /\ TypeSize(inode) \in Nat \ {0} /\ PayloadSize(inode) \in Nat
               /\ \A y \in Nat \ {0} : y <= InodeLength(inode) => Begins(one, one.inodes, p, y, "inode")
               /\ InodeLength(inode) = InodeHeader + TypeSize(inode) + PayloadSize(inode)
               /\ ref \in Nat \X Nat /\ Leads(one.inodes, ref[1], ref[2], p) /\ p \in Nat
  <1> DEFINE inode == InodeOf(one, ref)
             p == one.tree[ref].place
             t == one.inodes
  <1>1. Cut(t) /\ ref \in Nat \X Nat /\ InodeLaidOut(one, ref)
    BY DEF LaidOut
  <1>2. /\ Begins(one, t, p, InodeHeader, "inode") /\ Begins(one, t, p, InodeLength(inode), "inode")
        /\ Leads(t, ref[1], ref[2], p)
    BY <1>1 DEF InodeLaidOut
  <1>3. inode = Item(one, t, p)
    BY DEF InodeOf
  <1>4. inode \in InodeItem
    <2> HIDE DEF inode, t, p
    <2> QED BY <1>2, <1>3, ItemKinds
  <1>5. TypeSize(inode) \in Nat \ {0} /\ PayloadSize(inode) \in Nat
    BY <1>4, PayloadSizes
  <1>6. p \in Nat
    BY <1>2 DEF Begins
  <1>7. TableLength(t) \in Nat
    BY <1>1, TableBytes
  <1> HIDE DEF inode, t, p
  <1>8. \A y \in Nat \ {0} : y <= InodeLength(inode) => Begins(one, t, p, y, "inode")
    BY <1>2, <1>7, BeginsLess
  <1>9. InodeLength(inode) = InodeHeader + TypeSize(inode) + PayloadSize(inode)
    BY DEF InodeLength
  <1> QED BY <1>1, <1>2, <1>3, <1>4, <1>5, <1>6, <1>8, <1>9 DEF inode, t, p

FileFields == {"rv", "meta", "inode", "ref"}

\* sqsh__file_init and inode_load
LEMMA InodeReads ==
    ASSUME NEW one \in Archives, LaidOut(one), NEW ref \in DOMAIN one.tree
    PROVE  LET f == InodeRead(one, ref)
           IN  /\ DOMAIN f = FileFields /\ f.rv = "ok" /\ f.inode = InodeOf(one, ref) /\ f.ref = ref
               /\ Rests(one.inodes, f.meta, one.tree[ref].place, InodeLength(InodeOf(one, ref)))
  <1> DEFINE inode == InodeOf(one, ref)
             p == one.tree[ref].place
             t == one.inodes
             v == InodeHeader + TypeSize(inode)
             w == v + PayloadSize(inode)
             file == [rv |-> "ok", meta |-> FreshMetaReader(ref[1]), inode |-> NoItem, ref |-> ref]
             a == Begin(one, file, t, ref[2], InodeHeader, "inode")
             b == Extend(one, a, t, v, "inode")
             c == Extend(one, b, t, w, "inode")
             f == InodeRead(one, ref)
  <1>1. /\ Cut(t) /\ inode \in InodeItem /\ inode = Item(one, t, p)
        /\ TypeSize(inode) \in Nat \ {0} /\ PayloadSize(inode) \in Nat
        /\ \A y \in Nat \ {0} : y <= InodeLength(inode) => Begins(one, t, p, y, "inode")
        /\ InodeLength(inode) = w
        /\ ref \in Nat \X Nat /\ Leads(t, ref[1], ref[2], p) /\ p \in Nat
    BY InodeFacts
  <1>2. DOMAIN file = FileFields /\ file.rv = "ok" /\ file.ref = ref /\ file.meta = FreshMetaReader(ref[1])
    BY DEF FileFields
  <1>3. f = InodeShown(one, InodeFields(one, a))
    BY DEF InodeRead
  <1>4. /\ InodeHeader \in Nat \ {0} /\ v \in Nat \ {0} /\ w \in Nat \ {0}
        /\ InodeHeader <= v /\ v <= w /\ InodeHeader <= w
    BY <1>1, InodeHeaderAssumption
  <1> HIDE DEF file, inode, p, t
  <1>5. Reaches(t, file.meta, ref[2], p, InodeHeader)
    <2>1. /\ BlockOf(p) \in 1..Len(t) /\ t[BlockOf(p)].address = ref[1] /\ ref[2] = p % MetaSize
      BY <1>1 DEF Leads
    <2>2. p = Start(BlockOf(p)) + (p % MetaSize)
      BY <1>1, BlockOfPlace
    <2> QED BY <1>2, <2>1, <2>2 DEF Reaches
  <1>6. {"rv", "meta"} \subseteq FileFields /\ ~Ended(file)
    BY <1>2 DEF Ended, FileFields
  <1>7. Comes(one, t, file, a, p, InodeHeader)
    <2>1. Begins(one, t, p, InodeHeader, "inode") /\ ref[2] \in Nat
      BY <1>1, <1>4
    <2> QED BY <1>1, <1>2, <1>5, <1>6, <2>1, BeginComes
  <1> HIDE DEF a
  <1>8. DOMAIN a = FileFields /\ ~Ended(a) /\ Rests(t, a.meta, p, InodeHeader)
        /\ a["rv"] = file["rv"] /\ a["ref"] = file["ref"] /\ Shown(one, a.meta) = inode
    BY <1>1, <1>2, <1>7 DEF Comes, FileFields
  <1>9. Comes(one, t, a, b, p, v)
    <2>1. Begins(one, t, p, v, "inode")
      BY <1>1, <1>4
    <2> HIDE DEF v
    <2> QED BY <1>1, <1>4, <1>6, <1>8, <2>1, ExtendComes
  <1> HIDE DEF b
  <1>10. DOMAIN b = FileFields /\ ~Ended(b) /\ Rests(t, b.meta, p, v)
         /\ b["rv"] = file["rv"] /\ b["ref"] = file["ref"]
    BY <1>8, <1>9 DEF Comes, FileFields
  <1>11. Comes(one, t, b, c, p, w)
    <2>1. Begins(one, t, p, w, "inode")
      BY <1>1, <1>4
    <2> HIDE DEF v, w
    <2> QED BY <1>1, <1>4, <1>6, <1>10, <2>1, ExtendComes
  <1>12. InodeFields(one, a) = c
    <2>1. inode.type \in InodeTypes
      BY <1>1 DEF InodeItem
    <2> QED BY <1>8, <2>1 DEF InodeFields, c, b, t
  <1> HIDE DEF c
  <1>13. DOMAIN c = FileFields /\ ~Ended(c) /\ Rests(t, c.meta, p, w)
         /\ c["rv"] = file["rv"] /\ c["ref"] = file["ref"] /\ Shown(one, c.meta) = inode
    BY <1>1, <1>10, <1>11 DEF Comes, FileFields
  <1>14. f = [c EXCEPT !.inode = inode]
    BY <1>3, <1>12, <1>13 DEF InodeShown
  <1> HIDE DEF f
  <1>15. DOMAIN f = FileFields /\ f.rv = c.rv /\ f.inode = inode /\ f.ref = c.ref /\ f.meta = c.meta
    BY <1>13, <1>14 DEF FileFields
  <1>16. DOMAIN f = FileFields /\ f.rv = "ok" /\ f.inode = inode /\ f.ref = ref /\ Rests(t, f.meta, p, w)
    BY <1>2, <1>13, <1>15
  <1> QED BY <1>1, <1>16 DEF f, inode, t, p

\* inode_get_id
LEMMA IdsHold ==
    ASSUME NEW one \in Archives, LaidOut(one), NEW index \in Nat, index < one.id_count
    PROVE  GetId(one, index) = IdOf(one, index)
  <1> DEFINE m == TableGet(IdTable(one), index)
  <1>1. ElementsLaidOut(one, one.ids, IdSize, one.id_count, "id")
    BY DEF LaidOut
  <1>2. index \in 0..(one.id_count - 1)
    BY <1>1 DEF ElementsLaidOut
  <1>3. MetaOk(m) /\ Shown(one, m) = Item(one, one.ids.blocks, index * IdSize)
    BY <1>1, <1>2, IdSizeAssumption, TableShows DEF IdTable
  <1> QED BY <1>3 DEF GetId, IdOf

\* sqsh_export_table_resolve_inode2
LEMMA ExportHolds ==
    ASSUME NEW one \in Archives, LaidOut(one), one.exported, NEW number \in 1..one.inode_count
    PROVE  Exported(one, number) = Item(one, one.export.blocks, (number - 1) * ExportSize).ref
  <1> DEFINE index == number - 1
             m == TableGet(ExportTable(one), index)
  <1>1. ElementsLaidOut(one, one.export, ExportSize, one.inode_count, "ref")
    BY DEF LaidOut
  <1>2. index \in 0..(one.inode_count - 1)
    BY <1>1 DEF ElementsLaidOut
  <1>3. MetaOk(m) /\ Shown(one, m) = Item(one, one.export.blocks, index * ExportSize)
    <2> HIDE DEF index
    <2> QED BY <1>1, <1>2, ExportSizeAssumption, TableShows DEF ExportTable
  <1> QED BY <1>3 DEF Exported

-----------------------------------------------------------------------------
(* Listings that are laid out *)

ListingHolds(one, L) ==
    /\ Cut(one.directories) /\ IsSequence(L) /\ \A k \in 1..Len(L) : EntryLaidOut(one, L, k)

\* What is known of an entry where it lies.
LEMMA EntryFacts ==
    ASSUME NEW one \in Archives, NEW L, ListingHolds(one, L), NEW k \in 1..Len(L)
    PROVE  LET t == one.directories
               e == L[k]
           IN  /\ Item(one, t, e.place) \in EntryItem /\ Item(one, t, e.header) \in FragmentItem
               /\ Item(one, t, e.place).name = e.name
               /\ e.place \in Nat /\ e.header \in Nat /\ e.left \in Nat /\ Len(e.name) \in Nat \ {0}
               /\ EntryLength(Item(one, t, e.place)) = EntrySize + Len(e.name)
               /\ EntryEnd(e) = e.place + (EntrySize + Len(e.name)) /\ EntryEnd(e) \in Nat
               /\ Begins(one, t, e.place, EntrySize, "entry")
               /\ Begins(one, t, e.place, EntrySize + Len(e.name), "entry")
               /\ Begins(one, t, e.header, FragmentSize, "fragment")
  <1> DEFINE t == one.directories
             e == L[k]
  <1>1. /\ EntryLaidOut(one, L, k) /\ Cut(t)
    BY DEF ListingHolds
  <1>2. /\ Begins(one, t, e.place, EntrySize + Len(e.name), "entry")
        /\ Begins(one, t, e.header, FragmentSize, "fragment")
        /\ Item(one, t, e.place).name = e.name /\ e.left \in Nat /\ e.name \in Name
    BY <1>1 DEF EntryLaidOut
  <1>3. TableLength(t) \in Nat
    BY <1>1, TableBytes
  <1>4. Len(e.name) \in Nat \ {0}
    <2>1. e.name \in Seq(Nat) /\ e.name # <<>>
      BY <1>2 DEF Name
    <2> QED BY <2>1
  <1> HIDE DEF t, e
  <1>5. Begins(one, t, e.place, EntrySize, "entry")
    <2> DEFINE z == EntrySize + Len(e.name)
    <2>1. EntrySize \in Nat \ {0} /\ EntrySize <= z
      BY <1>4, EntrySizeAssumption
    <2>2. Begins(one, t, e.place, z, "entry")
      BY <1>2
    <2> HIDE DEF z
    <2> QED BY <1>3, <2>1, <2>2, BeginsLess
  <1>6. Item(one, t, e.place) \in EntryItem /\ Item(one, t, e.header) \in FragmentItem
    BY <1>2, <1>5, ItemKinds
  <1>7. e.place \in Nat /\ e.header \in Nat
    BY <1>2, <1>5 DEF Begins
  <1>8. EntryEnd(e) = e.place + (EntrySize + Len(e.name)) /\ EntryEnd(e) \in Nat
    BY <1>4, <1>7, EntrySizeAssumption DEF EntryEnd
  <1> QED BY <1>2, <1>4, <1>5, <1>6, <1>7, <1>8 DEF t, e, EntryLength

\* How entries follow each other.
LEMMA EntryOrder ==
    ASSUME NEW one \in Archives, NEW L, ListingHolds(one, L)
    PROVE  /\ Len(L) \in Nat
           /\ \A k \in 1..Len(L) :
                 /\ FirstInFragment(L, k) =>
                       /\ L[k].place = L[k].header + FragmentSize
                       /\ Item(one, one.directories, L[k].header).count = L[k].left
                       /\ k > 1 => L[k].header = EntryEnd(L[k - 1])
                 /\ ~FirstInFragment(L, k) =>
                       /\ k > 1 /\ L[k].place = EntryEnd(L[k - 1]) /\ L[k].header = L[k - 1].header
                       /\ L[k].left = L[k - 1].left - 1
                 /\ k = Len(L) => L[k].left = 0
  <1>1. Len(L) \in Nat /\ \A k \in 1..Len(L) : EntryLaidOut(one, L, k)
    BY DEF ListingHolds, IsSequence
  <1> SUFFICES ASSUME NEW k \in 1..Len(L)
               PROVE  /\ FirstInFragment(L, k) =>
                            /\ L[k].place = L[k].header + FragmentSize
                            /\ Item(one, one.directories, L[k].header).count = L[k].left
                            /\ k > 1 => L[k].header = EntryEnd(L[k - 1])
                      /\ ~FirstInFragment(L, k) =>
                            /\ k > 1 /\ L[k].place = EntryEnd(L[k - 1]) /\ L[k].header = L[k - 1].header
                            /\ L[k].left = L[k - 1].left - 1
                      /\ k = Len(L) => L[k].left = 0
    BY <1>1
  <1>2. EntryLaidOut(one, L, k)
    BY <1>1
  <1>3. ~FirstInFragment(L, k) => k > 1
    BY <1>1 DEF FirstInFragment
  <1> QED BY <1>2, <1>3 DEF EntryLaidOut

\* Where the entry, with the header before it, begins, and where it ends.
From(L, k) == IF FirstInFragment(L, k) THEN L[k].header ELSE L[k].place
End(L) == EntryEnd(L[Len(L)])

LEMMA Places ==
    ASSUME NEW one \in Archives, NEW L, ListingHolds(one, L), NEW k \in 1..Len(L)
    PROVE  /\ From(L, k) \in Nat /\ L[k].place \in Nat /\ EntryEnd(L[k]) \in Nat
           /\ From(L, k) <= L[k].place /\ L[k].place + EntrySize <= EntryEnd(L[k])
           /\ k < Len(L) => From(L, k + 1) = EntryEnd(L[k])
  <1>1. /\ L[k].place \in Nat /\ L[k].header \in Nat /\ Len(L[k].name) \in Nat
        /\ EntryEnd(L[k]) = L[k].place + (EntrySize + Len(L[k].name)) /\ EntryEnd(L[k]) \in Nat
    BY EntryFacts
  <1>2. FirstInFragment(L, k) => L[k].place = L[k].header + FragmentSize
    BY EntryOrder
  <1>3. k < Len(L) => From(L, k + 1) = EntryEnd(L[k])
    <2> SUFFICES ASSUME k < Len(L) PROVE From(L, k + 1) = EntryEnd(L[k])
      OBVIOUS
    <2> DEFINE l == k + 1
    <2>1. Len(L) \in Nat
      BY EntryOrder
    <2>2. l \in 1..Len(L) /\ l > 1 /\ l - 1 = k
      BY <2>1
    <2> HIDE DEF l
    <2>3. /\ FirstInFragment(L, l) => L[l].header = EntryEnd(L[l - 1])
          /\ ~FirstInFragment(L, l) => L[l].place = EntryEnd(L[l - 1])
      BY <2>2, EntryOrder
    <2>4. From(L, l) = EntryEnd(L[k])
      BY <2>2, <2>3 DEF From
    <2> QED BY <2>4 DEF l
  <1> QED BY <1>1, <1>2, <1>3, EntrySizeAssumption, FragmentSizeAssumption DEF From

\* The last entry ends last.
LEMMA Ends ==
    ASSUME NEW one \in Archives, NEW L, ListingHolds(one, L)
    PROVE  /\ \A k \in 1..Len(L) : EntryEnd(L[k]) <= End(L) /\ End(L) \in Nat
           /\ \A k \in 1..Len(L) : (L[k].left + 1) * EntrySize <= End(L) - L[k].place
  <1> DEFINE n == Len(L)
             z == End(L)
             Good(k) == EntryEnd(L[k]) <= z /\ (L[k].left + 1) * EntrySize <= z - L[k].place
             S == {i \in Nat : \A k \in 1..n : n - k = i => Good(k)}
  <1>1. n \in Nat
    BY EntryOrder
  <1>2. ASSUME NEW k \in 1..n
        PROVE  /\ L[k].place \in Nat /\ EntryEnd(L[k]) \in Nat /\ L[k].left \in Nat
               /\ L[k].place + EntrySize <= EntryEnd(L[k])
    BY <1>2, Places, EntryFacts
  <1>3. n # 0 => z \in Nat
    <2> SUFFICES ASSUME n # 0 PROVE z \in Nat
      OBVIOUS
    <2>1. n \in 1..n
      BY <1>1
    <2>2. EntryEnd(L[n]) \in Nat
      BY <1>2, <2>1
    <2> QED BY <2>2 DEF End
  <1>4. EntrySize \in Nat \ {0}
    BY EntrySizeAssumption
  <1>5. ASSUME NEW k \in 1..n, L[k].left = 0, EntryEnd(L[k]) <= z PROVE Good(k)
    <2> DEFINE l == L[k].left
    <2>1. (l + 1) * EntrySize = EntrySize
      BY <1>4, <1>5
    <2>2. z \in Nat
      BY <1>1, <1>3, <1>5
    <2> QED BY <1>2, <1>4, <1>5, <2>1, <2>2
  <1>6. 0 \in S
    <2> SUFFICES ASSUME NEW k \in 1..n, n - k = 0 PROVE Good(k)
      OBVIOUS
    <2>1. k = n
      BY <1>1
    <2>2. L[k].left = 0
      BY <2>1, EntryOrder
    <2>3. EntryEnd(L[k]) <= z
      BY <1>2, <2>1 DEF End
    <2> QED BY <1>5, <2>2, <2>3
  <1>7. ASSUME NEW i \in Nat, i \in S PROVE i + 1 \in S
    <2> SUFFICES ASSUME NEW k \in 1..n, n - k = i + 1 PROVE Good(k)
      OBVIOUS
    <2> DEFINE l == k + 1
    <2>1. l \in 1..n /\ n - l = i /\ k < n /\ l - 1 = k /\ l > 1
      BY <1>1
    <2> HIDE DEF Good, z
    <2>2. Good(l)
      BY <1>7, <2>1
    <2>3. From(L, l) = EntryEnd(L[k]) /\ From(L, l) <= L[l].place
      <3>1. From(L, k + 1) = EntryEnd(L[k])
        BY <2>1, Places
      <3>2. From(L, l) <= L[l].place
        BY <2>1, Places
      <3> QED BY <3>1, <3>2
    <2>4. EntryEnd(L[l]) \in Nat /\ L[l].place \in Nat /\ L[l].place + EntrySize <= EntryEnd(L[l]) /\ L[l].left \in Nat
      BY <1>2, <2>1
    <2>5. z \in Nat
      BY <1>1, <1>3, <2>1
    <2>6. EntryEnd(L[k]) <= z
      BY <1>2, <1>4, <2>2, <2>3, <2>4, <2>5 DEF Good
    <2>7. CASE FirstInFragment(L, l)
      <3>1. L[k].left = 0
        BY <2>1, <2>7 DEF FirstInFragment
      <3> QED BY <1>5, <2>6, <3>1
    <2>8. CASE ~FirstInFragment(L, l)
      <3>1. L[l].place = EntryEnd(L[k]) /\ L[l].left = L[k].left - 1
        <4>1. L[l].place = EntryEnd(L[l - 1]) /\ L[l].left = L[l - 1].left - 1
          BY <2>1, <2>8, EntryOrder
        <4> QED BY <2>1, <4>1
      <3> DEFINE a == L[k].left
                 b == L[l].left
      <3>2. a \in Nat /\ b \in Nat /\ a = b + 1
        BY <1>2, <2>4, <3>1
      <3>3. (b + 1) * EntrySize <= z - L[l].place
        BY <2>2 DEF Good
      <3> HIDE DEF a, b
      <3>4. (a + 1) * EntrySize = a * EntrySize + EntrySize /\ a * EntrySize \in Nat
        BY <1>4, <3>2
      <3>5. a * EntrySize <= z - L[l].place
        BY <3>2, <3>3
      <3> DEFINE x == a * EntrySize
                 p == L[k].place
                 q == L[l].place
      <3>8. x \in Nat /\ x <= z - q
        BY <3>4, <3>5
      <3>9. p \in Nat /\ q \in Nat /\ p + EntrySize <= q
        <4>1. L[k].place \in Nat /\ L[k].place + EntrySize <= EntryEnd(L[k])
          BY <1>2
        <4> QED BY <2>4, <3>1, <4>1
      <3> HIDE DEF x, p, q
      <3>10. x + EntrySize <= z - p
        BY <1>4, <2>5, <3>8, <3>9
      <3>6. x + EntrySize <= z - L[k].place
        BY <3>10 DEF p
      <3>7. (a + 1) * EntrySize <= z - L[k].place
        BY <3>4, <3>6 DEF x
      <3> QED BY <2>6, <3>7 DEF Good, a
    <2> QED BY <2>7, <2>8
  <1> HIDE DEF S
  <1>8. Nat \subseteq S
    BY <1>6, <1>7, EveryNumber
  <1>9. ASSUME NEW k \in 1..n PROVE Good(k) /\ z \in Nat
    <2>1. n - k \in S /\ n # 0
      BY <1>1, <1>8
    <2> QED BY <1>3, <2>1 DEF S
  <1> HIDE DEF n, z
  <1> QED BY <1>9 DEF n, z

-----------------------------------------------------------------------------
(* The iterator in a listing *)

\* The iterator is about to come to entry k, or to the end behind the last one.
Behind(L, k) == IF k = Len(L) + 1 THEN 0 ELSE End(L) - From(L, k)
Asks(L, k) == IF FirstInFragment(L, k) THEN FragmentSize ELSE EntrySize
Pos(one, L, d, k) ==
    /\ DOMAIN d = DirFields /\ d.rv = "next" /\ d.next_offset \in Nat
    /\ d.remaining_entries = (IF FirstInFragment(L, k) THEN 0 ELSE L[k - 1].left)
    /\ d.remaining_size = Behind(L, k)
    /\ k <= Len(L) =>
          /\ Reaches(one.directories, d.meta, d.next_offset, From(L, k), Asks(L, k))
          /\ ~FirstInFragment(L, k) =>
                LET header == Item(one, one.directories, L[k].header)
                IN  d.start = header.start /\ d.inode_base = header.inode_base

\* It has read the header of the fragment, if there is one before entry k.
AtEntry(one, L, d, k) ==
    /\ DOMAIN d = DirFields /\ d.rv = "next" /\ d.next_offset \in Nat
    /\ d.remaining_entries = L[k].left /\ d.remaining_size = End(L) - L[k].place
    /\ Reaches(one.directories, d.meta, d.next_offset, L[k].place, EntrySize)
    /\ LET header == Item(one, one.directories, L[k].header)
       IN  d.start = header.start /\ d.inode_base = header.inode_base

Alike(d, e) == e.file = d.file /\ e.last = d.last

LEMMA FirstBehind ==
    ASSUME NEW one \in Archives, NEW L, ListingHolds(one, L)
    PROVE  FirstInFragment(L, Len(L) + 1)
  <1>1. Len(L) \in Nat
    BY EntryOrder
  <1>2. CASE Len(L) = 0
    BY <1>2 DEF FirstInFragment
  <1>3. CASE Len(L) # 0
    <2> DEFINE n == Len(L)
    <2>1. n \in 1..n /\ n + 1 # 1 /\ (n + 1) - 1 = n
      BY <1>1, <1>3
    <2>2. L[n].left = 0
      BY <2>1, EntryOrder
    <2> QED BY <2>1, <2>2 DEF FirstInFragment
  <1> QED BY <1>2, <1>3

\* As many entries as are said to be behind an entry have room there.
LEMMA HasRoom ==
    ASSUME NEW a \in Nat, NEW s \in Nat, NEW z \in Nat \ {0}, (a + 1) * z <= s
    PROVE  ~(a > s \div z)
  <1> DEFINE q == s \div z
             r == s % z
  <1>1. s = z * q + r /\ r \in 0..(z - 1) /\ q \in Nat
    OBVIOUS
  <1> SUFFICES ASSUME a > q PROVE FALSE
    OBVIOUS
  <1> HIDE DEF q, r
  <1> DEFINE w == a - q
  <1>2. w \in Nat \ {0} /\ a = q + w
    BY <1>1
  <1> HIDE DEF w
  <1>3. (a + 1) * z = z * q + z * w + z
    BY <1>1, <1>2
  <1>4. z * w >= z /\ z * q \in Nat /\ z * w \in Nat
    BY <1>1, <1>2
  <1> DEFINE x == z * q
             y == z * w
  <1>5. x \in Nat /\ y \in Nat /\ y >= z /\ x + y + z <= s /\ s = x + r
    BY <1>1, <1>3, <1>4
  <1> HIDE DEF x, y
  <1> QED BY <1>1, <1>5

LEMMA CountedAt ==
    ASSUME NEW one \in Archives, NEW L, ListingHolds(one, L), NEW k \in 1..Len(L), NEW d, Pos(one, L, d, k)
    PROVE  LET c == Counted(one, d) IN AtEntry(one, L, c, k) /\ Alike(d, c)
  <1> DEFINE t == one.directories
             h == L[k].header
             p == L[k].place
             header == Item(one, t, h)
             c == Counted(one, d)
  <1>1. /\ Len(L) \in Nat /\ k # Len(L) + 1 /\ k <= Len(L) /\ Cut(t)
    BY EntryOrder DEF ListingHolds
  <1>2. /\ header \in FragmentItem /\ p \in Nat /\ h \in Nat /\ L[k].left \in Nat
        /\ Begins(one, t, h, FragmentSize, "fragment")
    BY EntryFacts
  <1>3. /\ End(L) \in Nat /\ (L[k].left + 1) * EntrySize <= End(L) - p
        /\ EntryEnd(L[k]) <= End(L)
    BY Ends
  <1>4. p + EntrySize <= EntryEnd(L[k]) /\ EntryEnd(L[k]) \in Nat
    BY Places
  <1>5. CASE FirstInFragment(L, k)
    <2> DEFINE b == Begin(one, d, t, d.next_offset, FragmentSize, "fragment")
               f == FragmentFields(b, header)
    <2>1. /\ DOMAIN d = DirFields /\ d.rv = "next" /\ d.next_offset \in Nat /\ d.remaining_entries = 0
          /\ d.remaining_size = End(L) - h /\ Reaches(t, d.meta, d.next_offset, h, FragmentSize)
      BY <1>1, <1>5 DEF Pos, Behind, From, Asks
    <2>2. p = h + FragmentSize /\ header.count = L[k].left
      BY <1>5, EntryOrder
    <2>3. Comes(one, t, d, b, h, FragmentSize)
      <3>1. {"rv", "meta"} \subseteq DOMAIN d /\ ~Ended(d)
        BY <2>1 DEF Ended, DirFields
      <3> HIDE DEF t, h
      <3> QED BY <1>1, <1>2, <2>1, <3>1, BeginComes
    <2> HIDE DEF b
    <2>4. /\ DOMAIN b = DirFields /\ ~Ended(b) /\ Rests(t, b.meta, h, FragmentSize) /\ Shown(one, b.meta) = header
          /\ b["rv"] = d["rv"] /\ b["file"] = d["file"] /\ b["last"] = d["last"]
          /\ b["remaining_size"] = d["remaining_size"]
      BY <2>1, <2>3 DEF Comes, DirFields
    <2> HIDE DEF header, t, h, p
    <2>5. /\ DOMAIN f = DirFields /\ f.rv = "next" /\ f.file = d.file /\ f.last = d.last /\ f.meta = b.meta
          /\ f.remaining_entries = header.count /\ f.start = header.start /\ f.inode_base = header.inode_base
          /\ f.next_offset = FragmentSize /\ f.remaining_size = b.remaining_size - FragmentSize
      BY <2>1, <2>4 DEF FragmentFields, DirFields
    <2> HIDE DEF f
    <2>6. f.remaining_size = End(L) - p
      BY <1>2, <1>3, <2>1, <2>2, <2>4, <2>5, FragmentSizeAssumption
    <2>7. ~(f.remaining_size < 0 \/ f.remaining_entries > f.remaining_size \div EntrySize)
      <3> DEFINE s == f.remaining_size
      <3>1. s \in Nat
        BY <1>2, <1>3, <1>4, <2>6, EntrySizeAssumption
      <3>2. (L[k].left + 1) * EntrySize <= s /\ EntrySize \in Nat \ {0}
        BY <1>3, <2>6, EntrySizeAssumption
      <3> HIDE DEF s
      <3>3. ~(L[k].left > s \div EntrySize)
        BY <1>2, <3>1, <3>2, HasRoom
      <3>4. ~(s < 0)
        BY <3>1
      <3> QED BY <2>2, <2>5, <3>3, <3>4 DEF s
    <2>8. c = f
      <3>1. c = FragmentShown(one, b)
        BY <2>1 DEF Counted, ProcessFragment, b, t
      <3>2. FragmentShown(one, b) = IF f.remaining_size < 0 \/ f.remaining_entries > f.remaining_size \div EntrySize
                                    THEN Fails(b) ELSE f
        BY <2>4 DEF FragmentShown, f
      <3> QED BY <2>7, <3>1, <3>2
    <2>9. Reaches(t, f.meta, FragmentSize, p, EntrySize)
      <3>1. h \in Nat /\ FragmentSize \in Nat /\ h + FragmentSize = p /\ FragmentSize >= FragmentSize
        BY <1>2, <2>2, FragmentSizeAssumption
      <3>2. Rests(t, f.meta, h, FragmentSize)
        BY <2>4, <2>5
      <3> QED BY <3>1, <3>2 DEF Reaches
    <2>10. AtEntry(one, L, f, k)
      BY <2>2, <2>5, <2>6, <2>9, FragmentSizeAssumption DEF AtEntry, header, h, p, t
    <2> QED BY <2>5, <2>8, <2>10 DEF Alike
  <1>6. CASE ~FirstInFragment(L, k)
    <2> DEFINE y == [d EXCEPT !.remaining_entries = @ - 1]
    <2>1. /\ DOMAIN d = DirFields /\ d.rv = "next" /\ d.next_offset \in Nat /\ d.remaining_entries = L[k - 1].left
          /\ d.remaining_size = End(L) - p /\ Reaches(t, d.meta, d.next_offset, p, EntrySize)
          /\ d.start = header.start /\ d.inode_base = header.inode_base
      BY <1>1, <1>6 DEF Pos, Behind, From, Asks
    <2>2. k > 1 /\ L[k].left = L[k - 1].left - 1
      BY <1>6, EntryOrder
    <2>3. d.remaining_entries # 0
      <3>1. k - 1 \in 1..Len(L)
        BY <1>1, <2>2
      <3>2. ~(L[k - 1].left = 0)
        BY <1>6, <2>2 DEF FirstInFragment
      <3> QED BY <2>1, <3>2
    <2>4. c = y
      BY <2>3 DEF Counted
    <2> HIDE DEF header, t, h, p
    <2>5. /\ DOMAIN y = DirFields /\ y.rv = "next" /\ y.file = d.file /\ y.last = d.last /\ y.meta = d.meta
          /\ y.remaining_entries = d.remaining_entries - 1 /\ y.start = d.start /\ y.inode_base = d.inode_base
          /\ y.next_offset = d.next_offset /\ y.remaining_size = d.remaining_size
      BY <2>1 DEF DirFields
    <2> HIDE DEF y
    <2>6. AtEntry(one, L, y, k)
      BY <2>1, <2>2, <2>5 DEF AtEntry, header, h, p, t
    <2> QED BY <2>4, <2>5, <2>6 DEF Alike
  <1> QED BY <1>5, <1>6

\* The iterator has come to entry k, before it is checked.
IsAt(one, L, e, k) ==
    LET header == Item(one, one.directories, L[k].header)
    IN  /\ e.entry = Item(one, one.directories, L[k].place)
        /\ e.start = header.start /\ e.inode_base = header.inode_base

LEMMA LoadedAt ==
    ASSUME NEW one \in Archives, NEW L, ListingHolds(one, L), NEW k \in 1..Len(L), NEW d, AtEntry(one, L, d, k)
    PROVE  LET e == LoadEntry(one, d) IN Pos(one, L, e, k + 1) /\ IsAt(one, L, e, k) /\ Alike(d, e)
  <1> DEFINE t == one.directories
             p == L[k].place
             header == Item(one, t, L[k].header)
             entry == Item(one, t, p)
             z == EntrySize + Len(L[k].name)
             b == Begin(one, d, t, d.next_offset, EntrySize, "entry")
             x == EntryNamed(one, b)
             e == LoadEntry(one, d)
  <1>1. Len(L) \in Nat /\ Cut(t)
    BY EntryOrder DEF ListingHolds
  <1>2. /\ entry \in EntryItem /\ p \in Nat /\ L[k].left \in Nat /\ Len(L[k].name) \in Nat \ {0}
        /\ EntryLength(entry) = z /\ EntryEnd(L[k]) = p + z /\ EntryEnd(L[k]) \in Nat
        /\ Begins(one, t, p, EntrySize, "entry") /\ Begins(one, t, p, z, "entry")
    BY EntryFacts
  <1>3. z \in Nat \ {0} /\ EntrySize \in Nat \ {0} /\ z >= EntrySize
    BY <1>2, EntrySizeAssumption
  <1>4. End(L) \in Nat /\ EntryEnd(L[k]) <= End(L)
    BY Ends
  <1>5. /\ DOMAIN d = DirFields /\ d.rv = "next" /\ d.next_offset \in Nat
        /\ d.remaining_entries = L[k].left /\ d.remaining_size = End(L) - p
        /\ Reaches(t, d.meta, d.next_offset, p, EntrySize)
        /\ d.start = header.start /\ d.inode_base = header.inode_base
    BY DEF AtEntry
  <1>6. e = EntryShown(one, x)
    BY DEF LoadEntry
  <1> HIDE DEF t, p, header, entry, z
  <1>7. Comes(one, t, d, b, p, EntrySize)
    <2>1. {"rv", "meta"} \subseteq DOMAIN d /\ ~Ended(d)
      BY <1>5 DEF Ended, DirFields
    <2> QED BY <1>1, <1>2, <1>5, <2>1, BeginComes
  <1> HIDE DEF b
  <1>8. /\ DOMAIN b = DirFields /\ ~Ended(b) /\ Rests(t, b.meta, p, EntrySize) /\ Shown(one, b.meta) = entry
        /\ b["rv"] = d["rv"] /\ b["file"] = d["file"] /\ b["last"] = d["last"]
        /\ b["start"] = d["start"] /\ b["inode_base"] = d["inode_base"]
        /\ b["remaining_size"] = d["remaining_size"] /\ b["remaining_entries"] = d["remaining_entries"]
    BY <1>5, <1>7 DEF Comes, DirFields, entry
  <1>9. Comes(one, t, b, x, p, z)
    <2>1. x = Extend(one, b, t, z, "entry")
      BY <1>2, <1>8 DEF EntryNamed, t
    <2>2. {"rv", "meta"} \subseteq DOMAIN b
      BY <1>8 DEF DirFields
    <2> HIDE DEF x
    <2> QED BY <1>1, <1>2, <1>3, <1>8, <2>1, <2>2, ExtendComes
  <1> HIDE DEF x
  <1>10. /\ DOMAIN x = DirFields /\ ~Ended(x) /\ Rests(t, x.meta, p, z) /\ Shown(one, x.meta) = entry
         /\ x["rv"] = b["rv"] /\ x["file"] = b["file"] /\ x["last"] = b["last"]
         /\ x["start"] = b["start"] /\ x["inode_base"] = b["inode_base"]
         /\ x["remaining_size"] = b["remaining_size"] /\ x["remaining_entries"] = b["remaining_entries"]
    BY <1>8, <1>9 DEF Comes, DirFields, entry
  <1>11. ~(EntryLength(Shown(one, x.meta)) > x.remaining_size)
    <2>1. x.remaining_size = End(L) - p
      BY <1>5, <1>8, <1>10
    <2> QED BY <1>2, <1>3, <1>4, <1>10, <2>1
  <1>12. e = [x EXCEPT !.entry = entry, !.next_offset = EntryLength(entry), !.remaining_size = @ - EntryLength(entry)]
    BY <1>6, <1>10, <1>11 DEF EntryShown
  <1> HIDE DEF e
  <1>13. /\ DOMAIN e = DirFields /\ e.rv = "next" /\ e.file = d.file /\ e.last = d.last /\ e.meta = x.meta
         /\ e.entry = entry /\ e.next_offset = z /\ e.remaining_size = End(L) - p - z
         /\ e.remaining_entries = L[k].left /\ e.start = header.start /\ e.inode_base = header.inode_base
    BY <1>2, <1>5, <1>8, <1>10, <1>12 DEF DirFields
  <1>14. e.remaining_size = End(L) - EntryEnd(L[k])
    BY <1>2, <1>3, <1>4, <1>13
  <1> DEFINE l == k + 1
  <1>15. FirstInFragment(L, l) <=> L[k].left = 0
    <2>1. l # 1 /\ l - 1 = k
      BY <1>1
    <2> HIDE DEF l
    <2> QED BY <2>1 DEF FirstInFragment
  <1>16. l # 1 /\ l - 1 = k /\ l \in Nat /\ (l = Len(L) + 1 \/ l \in 1..Len(L))
         /\ (l = Len(L) + 1 => k = Len(L)) /\ (l <= Len(L) => l # Len(L) + 1 /\ k < Len(L) /\ l \in 1..Len(L))
    BY <1>1
  <1>17. l <= Len(L) => From(L, l) = EntryEnd(L[k])
    BY <1>16, Places
  <1> HIDE DEF l
  <1>18. e.remaining_size = Behind(L, l)
    <2>1. CASE l = Len(L) + 1
      <3>1. End(L) = EntryEnd(L[k])
        BY <1>16, <2>1 DEF End
      <3> QED BY <1>4, <1>14, <2>1, <3>1 DEF Behind
    <2>2. CASE l \in 1..Len(L)
      <3>1. l <= Len(L) /\ l # Len(L) + 1
        BY <1>1, <2>2
      <3> QED BY <1>14, <1>17, <3>1 DEF Behind
    <2> QED BY <1>16, <2>1, <2>2
  <1>19. l <= Len(L) => Reaches(t, e.meta, e.next_offset, From(L, l), Asks(L, l))
    <2> SUFFICES ASSUME l <= Len(L) PROVE Reaches(t, e.meta, z, p + z, Asks(L, l))
      BY <1>2, <1>13, <1>17
    <2>1. Rests(t, e.meta, p, z) /\ p \in Nat /\ z \in Nat /\ z >= z
      BY <1>2, <1>3, <1>10, <1>13
    <2> QED BY <2>1 DEF Reaches
  <1>20. l <= Len(L) /\ ~FirstInFragment(L, l) => L[l].header = L[k].header
    <2> SUFFICES ASSUME l <= Len(L), ~FirstInFragment(L, l) PROVE L[l].header = L[k].header
      OBVIOUS
    <2>1. L[l].header = L[l - 1].header
      BY <1>16, EntryOrder
    <2> QED BY <1>16, <2>1
  <1>21. e.remaining_entries = (IF FirstInFragment(L, l) THEN 0 ELSE L[l - 1].left)
    BY <1>13, <1>15, <1>16
  <1>22. Pos(one, L, e, l)
    BY <1>3, <1>13, <1>18, <1>19, <1>20, <1>21 DEF Pos, header, t
  <1>23. IsAt(one, L, e, k)
    BY <1>13 DEF IsAt, header, entry, t, p
  <1> QED BY <1>13, <1>22, <1>23 DEF Alike, l, e

\* directory_iterator_next in a listing that is laid out.
LEMMA NextEntryAt ==
    ASSUME NEW one \in Archives, NEW L, ListingHolds(one, L), NEW k \in 1..Len(L), NEW d, Pos(one, L, d, k)
    PROVE  LET e == NextEntry(one, d) IN Pos(one, L, e, k + 1) /\ IsAt(one, L, e, k) /\ Alike(d, e)
  <1> DEFINE c == Counted(one, d)
             e == NextEntry(one, d)
  <1>1. AtEntry(one, L, c, k) /\ Alike(d, c)
    BY CountedAt
  <1>2. d.remaining_size # 0 /\ ~Ended(d)
    <2>1. Len(L) \in Nat /\ k # Len(L) + 1
      BY EntryOrder
    <2>2. d.remaining_size = End(L) - From(L, k) /\ d.rv = "next"
      BY <2>1 DEF Pos, Behind
    <2>3. /\ From(L, k) \in Nat /\ L[k].place \in Nat /\ EntryEnd(L[k]) \in Nat
          /\ From(L, k) <= L[k].place /\ L[k].place + EntrySize <= EntryEnd(L[k])
      BY Places
    <2>4. End(L) \in Nat /\ EntryEnd(L[k]) <= End(L)
      BY Ends
    <2>5. d.remaining_size # 0
      BY <2>2, <2>3, <2>4, EntrySizeAssumption
    <2> QED BY <2>2, <2>5 DEF Ended
  <1>3. e = LoadEntry(one, c)
    BY <1>2 DEF NextEntry
  <1> HIDE DEF c, e
  <1>4. Pos(one, L, e, k + 1) /\ IsAt(one, L, e, k) /\ Alike(c, e)
    BY <1>1, <1>3, LoadedAt
  <1>5. Alike(d, e)
    BY <1>1, <1>4 DEF Alike
  <1> QED BY <1>4, <1>5 DEF e

LEMMA NextEntryEnds ==
    ASSUME NEW one \in Archives, NEW L, ListingHolds(one, L), NEW d, Pos(one, L, d, Len(L) + 1)
    PROVE  LET e == NextEntry(one, d) IN DOMAIN e = DirFields /\ e.rv = "end" /\ e.remaining_size = 0 /\ Alike(d, e)
  <1>1. d.remaining_size = 0 /\ d.remaining_entries = 0 /\ d.rv = "next" /\ DOMAIN d = DirFields
    BY FirstBehind DEF Pos, Behind
  <1>2. NextEntry(one, d) = [d EXCEPT !.rv = "end"]
    BY <1>1 DEF NextEntry, Ended
  <1> DEFINE e == [d EXCEPT !.rv = "end"]
  <1>3. DOMAIN e = DirFields /\ e.rv = "end" /\ e.remaining_size = 0 /\ e.file = d.file /\ e.last = d.last
    BY <1>1 DEF DirFields
  <1> QED BY <1>2, <1>3 DEF Alike

-----------------------------------------------------------------------------
(* A directory that is laid out *)

LEMMA ListingOf ==
    ASSUME NEW one \in Archives, LaidOut(one), NEW ref \in DOMAIN one.tree, one.tree[ref].type = "directory"
    PROVE  ListingHolds(one, one.tree[ref].listing) /\ ListingLaidOut(one, ref)
  BY DEF LaidOut, DirectoryLaidOut, ListingLaidOut, ListingHolds

\* sqsh__directory_iterator_init
LEMMA FreshAt ==
    ASSUME NEW one \in Archives, LaidOut(one), NEW ref \in DOMAIN one.tree, one.tree[ref].type = "directory",
           NEW file, file.inode = InodeOf(one, ref)
    PROVE  LET d == FreshDirectory(file)
           IN  /\ Pos(one, one.tree[ref].listing, d, 1) /\ d.file = file.ref /\ d.last = <<>> /\ d.entry = NoItem
               /\ d.next_offset = file.inode.offset
  <1> DEFINE L == one.tree[ref].listing
             t == one.directories
             inode == InodeOf(one, ref)
             h == L[1].header
             d == FreshDirectory(file)
             n == Len(L)
  <1>1. ListingHolds(one, L) /\ ListingLaidOut(one, ref) /\ inode \in InodeItem
    BY ListingOf, InodeFacts
  <1>2. n \in Nat
    BY <1>1, EntryOrder
  <1>3. inode.size \in Nat /\ inode.offset \in Nat /\ inode.start \in Nat
    BY <1>1 DEF InodeItem
  <1>4. IF n = 0 THEN inode.size = 3
        ELSE inode.size = 3 + EntryEnd(L[n]) - h /\ Leads(t, inode.start, inode.offset, h)
    BY <1>1 DEF ListingLaidOut
  <1> HIDE DEF inode, t, L
  <1>5. n # 0 => /\ 1 \in 1..n /\ n \in 1..n /\ h \in Nat /\ End(L) \in Nat /\ h <= End(L) /\ From(L, 1) = h
    <2> SUFFICES ASSUME n # 0 PROVE 1 \in 1..n /\ n \in 1..n /\ h \in Nat /\ End(L) \in Nat /\ h <= End(L) /\ From(L, 1) = h
      OBVIOUS
    <2>1. 1 \in 1..n /\ n \in 1..n
      BY <1>2
    <2>2. From(L, 1) = h
      BY DEF From, FirstInFragment
    <2>3. /\ From(L, 1) \in Nat /\ L[1].place \in Nat /\ EntryEnd(L[1]) \in Nat
          /\ From(L, 1) <= L[1].place /\ L[1].place + EntrySize <= EntryEnd(L[1])
      BY <1>1, <2>1, Places
    <2>4. EntryEnd(L[1]) <= End(L) /\ End(L) \in Nat
      BY <1>1, <2>1, Ends
    <2> QED BY <2>1, <2>2, <2>3, <2>4, EntrySizeAssumption
  <1>6. inode.size >= 3 /\ inode.size - 3 = Behind(L, 1)
    <2>1. CASE n = 0
      BY <1>4, <2>1 DEF Behind
    <2>2. CASE n # 0
      <3>1. inode.size = 3 + End(L) - h
        BY <1>4, <2>2 DEF End
      <3>2. 1 # Len(L) + 1
        BY <1>2, <2>2
      <3> QED BY <1>5, <2>2, <3>1, <3>2 DEF Behind
    <2> QED BY <2>1, <2>2
  <1>7. /\ DOMAIN d = DirFields /\ d.rv = "next" /\ d.next_offset = inode.offset /\ d.remaining_entries = 0
        /\ d.remaining_size = inode.size - 3 /\ d.file = file.ref /\ d.last = <<>> /\ d.entry = NoItem
        /\ d.meta = FreshMetaReader(inode.start)
    <2>1. ~(file.inode.size < 3) /\ file.inode = inode
      BY <1>3, <1>6 DEF inode
    <2> HIDE DEF inode
    <2> QED BY <2>1 DEF FreshDirectory, LoadMetablock, DirFields
  <1>8. 1 <= n => Reaches(t, d.meta, d.next_offset, h, FragmentSize)
    <2> SUFFICES ASSUME 1 <= n PROVE Reaches(t, d.meta, d.next_offset, h, FragmentSize)
      OBVIOUS
    <2>1. n # 0
      BY <1>2
    <2>2. /\ BlockOf(h) \in 1..Len(t) /\ t[BlockOf(h)].address = inode.start /\ inode.offset = h % MetaSize
      BY <1>4, <2>1 DEF Leads
    <2>3. h = Start(BlockOf(h)) + (h % MetaSize)
      BY <1>5, <2>1, BlockOfPlace
    <2> QED BY <1>7, <2>2, <2>3 DEF Reaches
  <1>9. FirstInFragment(L, 1) /\ Asks(L, 1) = FragmentSize
    BY DEF FirstInFragment, Asks
  <1>10. 1 <= n => From(L, 1) = h
    BY <1>9 DEF From
  <1> HIDE DEF d
  <1>11. Pos(one, L, d, 1)
    BY <1>3, <1>6, <1>7, <1>8, <1>9, <1>10 DEF Pos, t
  <1> QED BY <1>7, <1>11 DEF d, L, inode

\* directory_iterator_next_finalize: an entry in its place passes.
LEMMA FinalizedAt ==
    ASSUME NEW one \in Archives, LaidOut(one), NEW L, ListingHolds(one, L), NEW k \in 1..Len(L),
           NEW e, DOMAIN e = DirFields, e.rv = "next", IsAt(one, L, e, k),
           e.last = <<>> \/ Before(e.last, L[k].name)
    PROVE  LET f == Finalized(e)
           IN  /\ f.rv = "next" /\ f.last = L[k].name /\ f.inode = one.tree[L[k].ref].number /\ f.file = e.file
               /\ f.entry = e.entry /\ f.start = e.start /\ L[k].ref \in DOMAIN one.tree
               /\ f.entry.name = L[k].name /\ EntryRef(f) = L[k].ref
               /\ \A j : Pos(one, L, e, j) => Pos(one, L, f, j)
  <1> DEFINE t == one.directories
             entry == Item(one, t, L[k].place)
             header == Item(one, t, L[k].header)
             held == one.tree[L[k].ref]
             f == Finalized(e)
  <1>1. entry \in EntryItem /\ entry.name = L[k].name
    BY EntryFacts
  <1>2. /\ ~IsBadName(L[k].name) /\ L[k].ref = <<header.start, entry.at>> /\ L[k].ref \in DOMAIN one.tree
        /\ held.number = header.inode_base + entry.offset /\ held.number <= InodeMax
    <2>1. EntryLaidOut(one, L, k)
      BY DEF ListingHolds
    <2> QED BY <2>1 DEF EntryLaidOut
  <1>3. held.number \in 1..one.inode_count /\ one.inode_count \in Nat
    <2>1. InodeLaidOut(one, L[k].ref)
      BY <1>2 DEF LaidOut
    <2> QED BY <2>1, ArchivesAssumption DEF InodeLaidOut
  <1>4. held.number \in 1..InodeMax
    <2> DEFINE x == held.number
    <2>1. x \in 1..one.inode_count /\ one.inode_count \in Nat /\ x <= InodeMax
      BY <1>2, <1>3
    <2> HIDE DEF x
    <2>2. x \in 1..InodeMax
      BY <2>1, InodeMaxAssumption
    <2> QED BY <2>2 DEF x
  <1>5. e.entry = entry /\ e.start = header.start /\ e.inode_base = header.inode_base
    BY DEF IsAt
  <1>6. entry.type \in InodeTypes
    BY <1>1 DEF EntryItem
  <1> HIDE DEF entry, header, held, t
  <1>7. f = [e EXCEPT !.last = L[k].name, !.inode = held.number]
    <2>1. ~Ended(e)
      BY DEF Ended
    <2>2. e.inode_base + e.entry.offset = held.number /\ e.entry.name = L[k].name
      BY <1>1, <1>2, <1>5
    <2>3. ~(\/ e.entry.type \notin InodeTypes
            \/ IsBadName(e.entry.name)
            \/ e.last # <<>> /\ ~Before(e.last, e.entry.name)
            \/ e.inode_base + e.entry.offset \notin 1..InodeMax)
      BY <1>2, <1>4, <1>5, <1>6, <2>2
    <2>4. f = [e EXCEPT !.last = e.entry.name, !.inode = e.inode_base + e.entry.offset]
      BY <2>1, <2>3 DEF Finalized
    <2> QED BY <2>2, <2>4
  <1> HIDE DEF f
  <1>8. /\ DOMAIN f = DirFields /\ f.rv = "next" /\ f.last = L[k].name /\ f.inode = held.number
        /\ f.file = e.file /\ f.entry = e.entry /\ f.start = e.start /\ f.inode_base = e.inode_base
        /\ f.meta = e.meta /\ f.next_offset = e.next_offset
        /\ f.remaining_entries = e.remaining_entries /\ f.remaining_size = e.remaining_size
    BY <1>7 DEF DirFields
  <1>9. \A j : Pos(one, L, e, j) => Pos(one, L, f, j)
    BY <1>8 DEF Pos
  <1>10. EntryRef(f) = L[k].ref
    BY <1>2, <1>5, <1>8 DEF EntryRef
  <1> QED BY <1>1, <1>2, <1>5, <1>8, <1>9, <1>10 DEF f, held

\* sqsh_directory_iterator_next
LEMMA DirectoryNextAt ==
    ASSUME NEW one \in Archives, LaidOut(one), NEW L, ListingHolds(one, L), NEW k \in 1..Len(L),
           NEW d, Pos(one, L, d, k), d.last = <<>> \/ Before(d.last, L[k].name)
    PROVE  LET f == DirectoryNext(one, d)
           IN  /\ f.rv = "next" /\ f.last = L[k].name /\ f.inode = one.tree[L[k].ref].number
               /\ f.entry.name = L[k].name /\ Pos(one, L, f, k + 1)
  <1> DEFINE e == NextEntry(one, d)
  <1>1. Pos(one, L, e, k + 1) /\ IsAt(one, L, e, k) /\ Alike(d, e)
    BY NextEntryAt
  <1> HIDE DEF e
  <1>2. DOMAIN e = DirFields /\ e.rv = "next" /\ e.last = d.last
    BY <1>1 DEF Pos, Alike
  <1>3. LET f == Finalized(e)
        IN  /\ f.rv = "next" /\ f.last = L[k].name /\ f.inode = one.tree[L[k].ref].number
            /\ f.entry.name = L[k].name /\ Pos(one, L, f, k + 1)
    BY <1>1, <1>2, FinalizedAt
  <1> QED BY <1>3 DEF DirectoryNext, e

LEMMA DirectoryNextEnds ==
    ASSUME NEW one \in Archives, NEW L, ListingHolds(one, L), NEW d, Pos(one, L, d, Len(L) + 1)
    PROVE  DirectoryNext(one, d).rv = "end"
  <1> DEFINE e == NextEntry(one, d)
  <1>1. e.rv = "end"
    BY NextEntryEnds
  <1> HIDE DEF e
  <1>2. Finalized(e) = e
    BY <1>1 DEF Finalized, Ended
  <1> QED BY <1>1, <1>2 DEF DirectoryNext, e

-----------------------------------------------------------------------------
(* A search *)

\* The turns of the loop of sqsh_directory_iterator_lookup.
LEMMA FindTurns ==
    ASSUME NEW one, NEW x, NEW name, x.remaining_size \in Nat
    PROVE  \E turn : /\ turn[0] = x /\ FindEntry(one, x, name) = Finalized(turn[x.remaining_size + 1])
                     /\ \A k \in 1..(x.remaining_size + 1) : turn[k] = FindTurn(one, turn[k - 1], name)
  <1> DEFINE n == x.remaining_size + 1
  <1> DEFINE G(m, g) == g = [k \in 0..m |-> IF k = 0 THEN x ELSE FindTurn(one, g[k - 1], name)]
             S == {m \in Nat : \E g : G(m, g)}
  <1>1. 0 \in S
    <2> DEFINE g == [k \in 0..0 |-> x]
    <2>1. G(0, g)
      OBVIOUS
    <2> QED BY <2>1
  <1>2. ASSUME NEW m \in Nat, m \in S PROVE m + 1 \in S
    <2>1. PICK g : G(m, g)
      BY <1>2
    <2> DEFINE h == [k \in 0..(m + 1) |-> IF k = m + 1 THEN FindTurn(one, g[m], name) ELSE g[k]]
    <2>2. \A k \in 0..m : g[k] = IF k = 0 THEN x ELSE FindTurn(one, g[k - 1], name)
      BY <2>1
    <2>3. \A k \in 0..(m + 1) : h[k] = IF k = 0 THEN x ELSE FindTurn(one, h[k - 1], name)
      BY <2>2
    <2>4. h = [k \in 0..(m + 1) |-> h[k]]
      OBVIOUS
    <2> HIDE DEF h
    <2>5. G(m + 1, h)
      BY <2>3, <2>4
    <2> QED BY <2>5
  <1>3. Nat \subseteq S
    <2> HIDE DEF S
    <2> QED BY <1>1, <1>2, EveryNumber
  <1>4. \E g : G(n, g)
    <2>1. n \in Nat
      OBVIOUS
    <2> HIDE DEF n, G
    <2> QED BY <1>3, <2>1 DEF S
  <1> DEFINE f == CHOOSE g : G(n, g)
  <1>5. G(n, f)
    BY <1>4
  <1>6. FindEntry(one, x, name) = Finalized(f[n])
    BY DEF FindEntry, Turns
  <1> HIDE DEF f
  <1>7. f[0] = x /\ \A k \in 1..n : f[k] = FindTurn(one, f[k - 1], name)
    BY <1>5
  <1> QED BY <1>6, <1>7

\* The search from entry a on is over, or has passed entry k.
Over(one, L, e, name, a) ==
    \/ e.rv = "end" /\ \A i \in a..Len(L) : L[i].name # name
    \/ /\ DOMAIN e = DirFields /\ e.rv = "next" /\ e.last = <<>>
       /\ \E k \in a..Len(L) : L[k].name = name /\ IsAt(one, L, e, k)
Passed(one, L, e, name, a, k) ==
    /\ k \in a..Len(L) /\ IsAt(one, L, e, k) /\ Pos(one, L, e, k + 1) /\ e.last = <<>>
    /\ \A i \in a..k : L[i].name # name

LEMMA BehindLess ==
    ASSUME NEW one \in Archives, NEW L, ListingHolds(one, L), NEW k \in 1..(Len(L) + 1)
    PROVE  Behind(L, k) \in Nat /\ (k <= Len(L) => Behind(L, k + 1) < Behind(L, k))
  <1>1. Len(L) \in Nat
    BY EntryOrder
  <1>2. CASE k = Len(L) + 1
    BY <1>1, <1>2 DEF Behind
  <1>3. CASE k \in 1..Len(L)
    <2>1. /\ From(L, k) \in Nat /\ L[k].place \in Nat /\ EntryEnd(L[k]) \in Nat
          /\ From(L, k) <= L[k].place /\ L[k].place + EntrySize <= EntryEnd(L[k])
          /\ k < Len(L) => From(L, k + 1) = EntryEnd(L[k])
      BY <1>3, Places
    <2>2. End(L) \in Nat /\ EntryEnd(L[k]) <= End(L)
      BY <1>3, Ends
    <2>3. Behind(L, k) = End(L) - From(L, k)
      BY <1>1, <1>3 DEF Behind
    <2>4. Behind(L, k) \in Nat \ {0}
      BY <2>1, <2>2, <2>3, EntrySizeAssumption
    <2>5. CASE k = Len(L)
      <3>1. Behind(L, k + 1) = 0
        BY <2>5 DEF Behind
      <3> QED BY <2>4, <3>1
    <2>6. CASE k # Len(L)
      <3>1. Behind(L, k + 1) = End(L) - EntryEnd(L[k])
        <4>1. k + 1 # Len(L) + 1 /\ k < Len(L)
          BY <1>1, <1>3, <2>6
        <4> QED BY <2>1, <4>1 DEF Behind
      <3> QED BY <2>1, <2>2, <2>3, <2>4, <3>1, EntrySizeAssumption
    <2> QED BY <2>5, <2>6
  <1> QED BY <1>1, <1>2, <1>3

\* The next entry, or the end.
LEMMA SearchGoesOn ==
    ASSUME NEW one \in Archives, NEW L, ListingHolds(one, L), NEW name,
           NEW a \in 1..(Len(L) + 1), NEW k \in a..(Len(L) + 1), NEW d, Pos(one, L, d, k), d.last = <<>>,
           \A i \in a..(k - 1) : L[i].name # name
    PROVE  LET e == NextEntry(one, d)
           IN  /\ e.remaining_size \in Nat
               /\ \/ Over(one, L, e, name, a)
                  \/ Passed(one, L, e, name, a, k) /\ e.remaining_size < d.remaining_size
  <1> DEFINE e == NextEntry(one, d)
  <1>1. Len(L) \in Nat
    BY EntryOrder
  <1>2. CASE k = Len(L) + 1
    <2>1. DOMAIN e = DirFields /\ e.rv = "end" /\ e.remaining_size = 0
      BY <1>2, NextEntryEnds
    <2>2. \A i \in a..Len(L) : L[i].name # name
      BY <1>1, <1>2
    <2> HIDE DEF e
    <2> QED BY <2>1, <2>2 DEF Over, e
  <1>3. CASE k \in 1..Len(L)
    <2>1. Pos(one, L, e, k + 1) /\ IsAt(one, L, e, k) /\ Alike(d, e)
      BY <1>3, NextEntryAt
    <2> HIDE DEF e
    <2>2. DOMAIN e = DirFields /\ e.rv = "next" /\ e.last = <<>> /\ e.remaining_size = Behind(L, k + 1)
      BY <2>1 DEF Pos, Alike
    <2>3. d.remaining_size = Behind(L, k)
      BY DEF Pos
    <2>4. Behind(L, k + 1) \in Nat /\ Behind(L, k + 1) < Behind(L, k)
      <3> DEFINE l == k + 1
      <3>1. l \in 1..(Len(L) + 1)
        BY <1>1, <1>3
      <3> HIDE DEF l
      <3>2. Behind(L, l) \in Nat
        BY <3>1, BehindLess
      <3>3. Behind(L, k + 1) < Behind(L, k)
        BY <1>1, <1>3, BehindLess
      <3> QED BY <3>2, <3>3 DEF l
    <2>5. k \in a..Len(L)
      BY <1>1, <1>3
    <2>6. CASE L[k].name = name
      <3>1. Over(one, L, e, name, a)
        BY <2>1, <2>2, <2>5, <2>6 DEF Over
      <3> QED BY <2>2, <2>4, <3>1 DEF e
    <2>7. CASE L[k].name # name
      <3>1. \A i \in a..k : L[i].name # name
        BY <1>1, <2>5, <2>7
      <3>2. Passed(one, L, e, name, a, k)
        BY <2>1, <2>2, <2>5, <3>1 DEF Passed
      <3> QED BY <2>2, <2>3, <2>4, <3>2 DEF e
    <2> QED BY <2>6, <2>7
  <1> QED BY <1>1, <1>2, <1>3

LEMMA FindTurnAt ==
    ASSUME NEW one \in Archives, NEW L, ListingHolds(one, L), NEW name, NEW a \in 1..(Len(L) + 1), NEW e
    PROVE  LET y == FindTurn(one, e, name)
           IN  /\ Over(one, L, e, name, a) => y = e
               /\ \A k : Passed(one, L, e, name, a, k) =>
                     \/ Over(one, L, y, name, a)
                     \/ y.remaining_size < e.remaining_size /\ Passed(one, L, y, name, a, k + 1)
  <1> DEFINE y == FindTurn(one, e, name)
  <1>1. ASSUME Over(one, L, e, name, a) PROVE y = e
    <2>1. CASE e.rv = "end"
      BY <2>1 DEF FindTurn, Ended
    <2>2. CASE e.rv # "end"
      <3>1. PICK k \in a..Len(L) : L[k].name = name /\ IsAt(one, L, e, k)
        BY <1>1, <2>2 DEF Over
      <3>2. k \in 1..Len(L)
        BY EntryOrder
      <3>3. e.entry.name = name
        BY <3>1, <3>2, EntryFacts DEF IsAt
      <3> QED BY <3>3 DEF FindTurn
    <2> QED BY <2>1, <2>2
  <1>2. ASSUME NEW k, Passed(one, L, e, name, a, k)
        PROVE  \/ Over(one, L, y, name, a)
               \/ y.remaining_size < e.remaining_size /\ Passed(one, L, y, name, a, k + 1)
    <2> DEFINE l == k + 1
    <2>1. /\ k \in a..Len(L) /\ IsAt(one, L, e, k) /\ Pos(one, L, e, l) /\ e.last = <<>>
          /\ \A i \in a..k : L[i].name # name
      BY <1>2 DEF Passed
    <2>2. Len(L) \in Nat /\ k \in 1..Len(L) /\ l \in a..(Len(L) + 1) /\ l - 1 = k /\ k \in a..k
      BY <2>1, EntryOrder
    <2>3. e.entry.name # name /\ ~Ended(e)
      <3>1. e.entry.name = L[k].name
        BY <2>1, <2>2, EntryFacts DEF IsAt
      <3> QED BY <2>1, <2>2, <3>1 DEF Pos, Ended
    <2>4. y = NextEntry(one, e)
      BY <2>3 DEF FindTurn
    <2> HIDE DEF l, y
    <2>5. \A i \in a..(l - 1) : L[i].name # name
      BY <2>1, <2>2
    <2> QED BY <2>1, <2>2, <2>4, <2>5, SearchGoesOn DEF l
  <1> QED BY <1>1, <1>2

\* The search ends before its turns do.
LEMMA FindEntryAt ==
    ASSUME NEW one \in Archives, LaidOut(one), NEW L, ListingHolds(one, L), NEW name,
           NEW a \in 1..(Len(L) + 1), NEW d, Pos(one, L, d, a), d.last = <<>>
    PROVE  LET f == FindEntry(one, NextEntry(one, d), name)
           IN  \/ f.rv = "end" /\ \A i \in a..Len(L) : L[i].name # name
               \/ f.rv = "next" /\ \E k \in a..Len(L) : L[k].name = name /\ EntryRef(f) = L[k].ref
  <1> DEFINE e == NextEntry(one, d)
             n == e.remaining_size + 1
             f == FindEntry(one, e, name)
  <1>1. /\ e.remaining_size \in Nat
        /\ Over(one, L, e, name, a) \/ Passed(one, L, e, name, a, a)
    <2>1. Len(L) \in Nat
      BY EntryOrder
    <2>2. a \in a..(Len(L) + 1) /\ \A i \in a..(a - 1) : L[i].name # name
      BY <2>1
    <2> QED BY <2>2, SearchGoesOn
  <1> HIDE DEF e
  <1>2. n \in Nat /\ n = e.remaining_size + 1
    BY <1>1
  <1>3. PICK g : /\ g[0] = e /\ f = Finalized(g[n])
                 /\ \A k \in 1..n : g[k] = FindTurn(one, g[k - 1], name)
    BY <1>1, FindTurns
  <1> HIDE DEF n
  <1>4. f = Finalized(g[n])
    BY <1>3
  <1> DEFINE Runs(x, j) == \E k : Passed(one, L, x, name, a, k) /\ x.remaining_size + j <= e.remaining_size
             S == {j \in Nat : j <= n => Over(one, L, g[j], name, a) \/ Runs(g[j], j)}
  <1>5. 0 \in S
    BY <1>1, <1>3
  <1>6. ASSUME NEW j \in Nat, j \in S PROVE j + 1 \in S
    <2> SUFFICES ASSUME j + 1 <= n PROVE Over(one, L, g[j + 1], name, a) \/ Runs(g[j + 1], j + 1)
      OBVIOUS
    <2> DEFINE x == g[j]
               y == g[j + 1]
    <2>1. y = FindTurn(one, x, name)
      <3>1. j + 1 \in 1..n /\ (j + 1) - 1 = j
        BY <1>2
      <3> QED BY <1>3, <3>1
    <2>2. Over(one, L, x, name, a) \/ Runs(x, j)
      BY <1>2, <1>6
    <2> HIDE DEF x, y
    <2>3. CASE Over(one, L, x, name, a)
      BY <2>1, <2>3, FindTurnAt DEF y
    <2>4. CASE Runs(x, j)
      <3>1. PICK k : Passed(one, L, x, name, a, k) /\ x.remaining_size + j <= e.remaining_size
        BY <2>4
      <3>2. \/ Over(one, L, y, name, a)
            \/ y.remaining_size < x.remaining_size /\ Passed(one, L, y, name, a, k + 1)
        BY <2>1, <3>1, FindTurnAt
      <3>3. ASSUME NEW z, NEW i, Passed(one, L, z, name, a, i) PROVE z.remaining_size \in Nat
        <4>1. i \in a..Len(L) /\ Pos(one, L, z, i + 1)
          BY <3>3 DEF Passed
        <4> DEFINE l == i + 1
        <4>2. l \in 1..(Len(L) + 1)
          BY <4>1, EntryOrder
        <4>3. z.remaining_size = Behind(L, l)
          BY <4>1 DEF Pos
        <4> HIDE DEF l
        <4> QED BY <4>2, <4>3, BehindLess
      <3>4. CASE y.remaining_size < x.remaining_size /\ Passed(one, L, y, name, a, k + 1)
        <4> DEFINE u == x.remaining_size
                   v == y.remaining_size
        <4>1. u \in Nat /\ v \in Nat /\ v < u
          BY <3>1, <3>3, <3>4
        <4>2. u + j <= e.remaining_size
          BY <3>1
        <4> HIDE DEF u, v
        <4>3. v + (j + 1) <= e.remaining_size
          BY <1>1, <4>1, <4>2
        <4> QED BY <3>4, <4>3 DEF v, y
      <3> QED BY <3>2, <3>4 DEF y
    <2> QED BY <2>2, <2>3, <2>4
  <1>7. n \in S
    <2> HIDE DEF S
    <2> QED BY <1>2, <1>5, <1>6, EveryNumber
  <1>8. Over(one, L, g[n], name, a)
    <2> SUFFICES ASSUME Runs(g[n], n) PROVE FALSE
      BY <1>2, <1>7
    <2>1. PICK k : Passed(one, L, g[n], name, a, k) /\ g[n].remaining_size + n <= e.remaining_size
      OBVIOUS
    <2> DEFINE u == g[n].remaining_size
               l == k + 1
    <2>2. k \in a..Len(L) /\ Pos(one, L, g[n], l)
      BY <2>1 DEF Passed
    <2>3. l \in 1..(Len(L) + 1)
      BY <2>2, EntryOrder
    <2>4. u = Behind(L, l)
      BY <2>2 DEF Pos
    <2> HIDE DEF l
    <2>5. u \in Nat
      BY <2>3, <2>4, BehindLess
    <2>6. u + n <= e.remaining_size
      BY <2>1
    <2> HIDE DEF u
    <2> QED BY <1>1, <1>2, <2>5, <2>6
  <1> DEFINE x == g[n]
  <1> HIDE DEF f, x, S
  <1>9. CASE x.rv = "end" /\ \A i \in a..Len(L) : L[i].name # name
    <2>1. f = x
      BY <1>4, <1>9 DEF Finalized, Ended, x
    <2> QED BY <1>9, <2>1 DEF f, e
  <1>10. ASSUME DOMAIN x = DirFields, x.rv = "next", x.last = <<>>,
                NEW k \in a..Len(L), L[k].name = name, IsAt(one, L, x, k)
         PROVE  f.rv = "next" /\ EntryRef(f) = L[k].ref
    <2>1. k \in 1..Len(L)
      BY EntryOrder
    <2>2. LET h == Finalized(x) IN h.rv = "next" /\ EntryRef(h) = L[k].ref
      BY <1>10, <2>1, FinalizedAt
    <2> QED BY <1>4, <2>2 DEF x
  <1>11. \/ f.rv = "end" /\ \A i \in a..Len(L) : L[i].name # name
         \/ f.rv = "next" /\ \E k \in a..Len(L) : L[k].name = name /\ EntryRef(f) = L[k].ref
    <2>1. Over(one, L, x, name, a)
      BY <1>8 DEF x
    <2>2. CASE x.rv = "end" /\ \A i \in a..Len(L) : L[i].name # name
      <3>1. f = x
        BY <1>4, <2>2 DEF Finalized, Ended, x
      <3> QED BY <2>2, <3>1
    <2>3. CASE /\ DOMAIN x = DirFields /\ x.rv = "next" /\ x.last = <<>>
               /\ \E k \in a..Len(L) : L[k].name = name /\ IsAt(one, L, x, k)
      BY <1>10, <2>3
    <2> QED BY <2>1, <2>2, <2>3 DEF Over
  <1> QED BY <1>11 DEF f, e

-----------------------------------------------------------------------------
(* The index of a directory *)

\* The turns of the loop of directory_iterator_index_lookup.
LEMMA IndexTurns ==
    ASSUME NEW one, NEW x, NEW name, x.remaining \in Nat
    PROVE  \E turn : /\ turn[0] = x /\ IndexScan(one, x, name) = turn[x.remaining]
                     /\ \A k \in 1..x.remaining : turn[k] = IndexTurn(one, turn[k - 1], name)
  <1> DEFINE n == x.remaining
             G(m, g) == g = [k \in 0..m |-> IF k = 0 THEN x ELSE IndexTurn(one, g[k - 1], name)]
             S == {m \in Nat : \E g : G(m, g)}
  <1>1. 0 \in S
    <2> DEFINE g == [k \in 0..0 |-> x]
    <2>1. G(0, g)
      OBVIOUS
    <2> QED BY <2>1
  <1>2. ASSUME NEW m \in Nat, m \in S PROVE m + 1 \in S
    <2>1. PICK g : G(m, g)
      BY <1>2
    <2> DEFINE h == [k \in 0..(m + 1) |-> IF k = m + 1 THEN IndexTurn(one, g[m], name) ELSE g[k]]
    <2>2. \A k \in 0..m : g[k] = IF k = 0 THEN x ELSE IndexTurn(one, g[k - 1], name)
      BY <2>1
    <2>3. \A k \in 0..(m + 1) : h[k] = IF k = 0 THEN x ELSE IndexTurn(one, h[k - 1], name)
      BY <2>2
    <2>4. h = [k \in 0..(m + 1) |-> h[k]]
      OBVIOUS
    <2> HIDE DEF h
    <2>5. G(m + 1, h)
      BY <2>3, <2>4
    <2> QED BY <2>5
  <1>3. Nat \subseteq S
    <2> HIDE DEF S
    <2> QED BY <1>1, <1>2, EveryNumber
  <1>4. \E g : G(n, g)
    BY <1>3
  <1> DEFINE f == CHOOSE g : G(n, g)
  <1>5. G(n, f)
    BY <1>4
  <1>6. IndexScan(one, x, name) = f[n]
    BY DEF IndexScan, Turns
  <1> HIDE DEF f
  <1>7. f[0] = x /\ \A k \in 1..n : f[k] = IndexTurn(one, f[k - 1], name)
    BY <1>5
  <1> QED BY <1>6, <1>7

IndexFields == {"rv", "meta", "next_offset", "remaining", "entry"}

\* The entry that has been taken is the x-th, or none yet.
Best(one, ref, i, name, x) ==
    LET index == one.tree[ref].index
    IN  IF x = 0 THEN i.entry.start = InodeOf(one, ref).start /\ i.entry.index = 0
        ELSE /\ x \in 1..Len(index) /\ i.entry = Item(one, one.inodes, index[x].place)
             /\ ~Before(name, i.entry.name)

\* The iterator is about to come to entry j of the index.
IndexPos(one, ref, i, j) ==
    LET index == one.tree[ref].index
    IN  /\ DOMAIN i = IndexFields /\ i.rv = "next" /\ i.next_offset \in Nat
        /\ j \in 1..(Len(index) + 1) /\ i.remaining = Len(index) + 1 - j
        /\ j <= Len(index) => Reaches(one.inodes, i.meta, i.next_offset, index[j].place, IndexSize)

IndexShows(one, ref, j) ==
    LET index == one.tree[ref].index
        L == one.tree[ref].listing
        i == Item(one, one.inodes, index[j].place)
        e == L[index[j].entry]
    IN  /\ i \in IndexItem /\ index[j].place \in Nat /\ IndexLength(i) \in Nat \ {0}
        /\ IndexLength(i) >= IndexSize /\ i.index \in Nat /\ i.start \in Nat
        /\ Begins(one, one.inodes, index[j].place, IndexSize, "index")
        /\ Begins(one, one.inodes, index[j].place, IndexLength(i), "index")
        /\ index[j].entry \in 1..Len(L) /\ FirstInFragment(L, index[j].entry)
        /\ i.name = e.name /\ i.index = e.header - L[1].header
        /\ BlockOf(e.header) \in 1..Len(one.directories)
        /\ one.directories[BlockOf(e.header)].address = i.start
        /\ j > 1 => index[j].place = index[j - 1].place
                                     + IndexLength(Item(one, one.inodes, index[j - 1].place))

LEMMA IndexFacts ==
    ASSUME NEW one \in Archives, NEW ref, IndexLaidOut(one, ref), Cut(one.inodes),
           NEW j \in 1..Len(one.tree[ref].index)
    PROVE  IndexShows(one, ref, j)
  <1> DEFINE index == one.tree[ref].index
             L == one.tree[ref].listing
             t == one.inodes
             p == index[j].place
             i == Item(one, t, p)
             e == L[index[j].entry]
  <1>1. /\ Begins(one, t, p, IndexSize, "index") /\ Begins(one, t, p, IndexLength(i), "index")
        /\ index[j].entry \in 1..Len(L) /\ FirstInFragment(L, index[j].entry)
        /\ i.name = e.name /\ i.index = e.header - L[1].header
        /\ BlockOf(e.header) \in 1..Len(one.directories)
        /\ one.directories[BlockOf(e.header)].address = i.start
        /\ index[j].place = IF j = 1 THEN one.tree[ref].place + InodeLength(InodeOf(one, ref))
                            ELSE index[j - 1].place + IndexLength(Item(one, t, index[j - 1].place))
    BY DEF IndexLaidOut
  <1>2. p \in Nat
    BY <1>1 DEF Begins
  <1> HIDE DEF i, t, p
  <1>3. i \in IndexItem
    BY <1>1, ItemKinds DEF i
  <1>4. Len(i.name) \in Nat /\ i.index \in Nat /\ i.start \in Nat
    <2>1. i.name \in Seq(Nat) /\ i.index \in Nat /\ i.start \in Nat
      BY <1>3 DEF IndexItem, Name
    <2> QED BY <2>1
  <1>5. IndexLength(i) \in Nat \ {0} /\ IndexLength(i) >= IndexSize
    BY <1>4, IndexSizeAssumption DEF IndexLength
  <1>6. j > 1 => index[j].place = index[j - 1].place + IndexLength(Item(one, t, index[j - 1].place))
    <2>1. j > 1 => j # 1
      OBVIOUS
    <2> QED BY <1>1, <2>1
  <1> QED BY <1>1, <1>2, <1>3, <1>4, <1>5, <1>6 DEF IndexShows, i, t, p

LEMMA IndexStride ==
    ASSUME NEW one \in Archives, NEW ref, IndexLaidOut(one, ref), Cut(one.inodes),
           NEW j \in 1..Len(one.tree[ref].index), j > 1
    PROVE  LET index == one.tree[ref].index
           IN  index[j].place = index[j - 1].place
                                + IndexLength(Item(one, one.inodes, index[j - 1].place))
  <1>1. j # 1
    OBVIOUS
  <1> QED BY <1>1 DEF IndexLaidOut

\* A turn comes to the next entry, or is the last.
LEMMA IndexTurnAt ==
    ASSUME NEW one \in Archives, NEW ref, IndexLaidOut(one, ref), Cut(one.inodes),
           NEW name, NEW i, NEW j, IndexPos(one, ref, i, j), NEW x, Best(one, ref, i, name, x)
    PROVE  LET y == IndexTurn(one, i, name)
               n == Len(one.tree[ref].index)
           IN  /\ j > n => y = i
               /\ j <= n => \/ y.rv = "next" /\ y.remaining = 0 /\ Best(one, ref, y, name, x)
                            \/ IndexPos(one, ref, y, j + 1) /\ Best(one, ref, y, name, j)
  <1> DEFINE index == one.tree[ref].index
             n == Len(index)
             y == IndexTurn(one, i, name)
             t == one.inodes
             p == index[j].place
             item == Item(one, t, p)
             z == IndexLength(item)
             b == Begin(one, i, t, i.next_offset, IndexSize, "index")
             c == IndexNamed(one, b)
  <1>1. /\ DOMAIN i = IndexFields /\ i.rv = "next" /\ i.next_offset \in Nat
        /\ j \in 1..(n + 1) /\ i.remaining = n + 1 - j
        /\ j <= n => Reaches(t, i.meta, i.next_offset, p, IndexSize)
    BY DEF IndexPos
  <1>2. n \in Nat /\ ~Ended(i)
    BY <1>1 DEF IndexLaidOut, IsSequence, Ended
  <1>3. j > n => y = i
    <2>1. j > n => i.remaining = 0
      BY <1>1, <1>2
    <2> QED BY <2>1 DEF IndexTurn
  <1>4. ASSUME j <= n
        PROVE  \/ y.rv = "next" /\ y.remaining = 0 /\ Best(one, ref, y, name, x)
               \/ IndexPos(one, ref, y, j + 1) /\ Best(one, ref, y, name, j)
    <2>1. j \in 1..n /\ i.remaining # 0
      BY <1>1, <1>2, <1>4
    <2>2. /\ item \in IndexItem /\ p \in Nat /\ z \in Nat \ {0} /\ z >= IndexSize
          /\ Begins(one, t, p, IndexSize, "index") /\ Begins(one, t, p, z, "index")
      <3>1. IndexShows(one, ref, j)
        BY <2>1, IndexFacts
      <3> QED BY <3>1 DEF IndexShows
    <2>3. y = IndexTaken(c, Shown(one, c.meta), name)
      BY <1>2, <2>1 DEF IndexTurn, IndexStep, IndexNext
    <2> HIDE DEF item, z, p, t
    <2>4. Comes(one, t, i, b, p, IndexSize)
      <3>1. {"rv", "meta"} \subseteq DOMAIN i
        BY <1>1 DEF IndexFields
      <3>2. Cut(t)
        BY DEF t
      <3> QED BY <1>1, <1>2, <1>4, <2>2, <3>1, <3>2, BeginComes
    <2> HIDE DEF b
    <2>5. /\ DOMAIN b = IndexFields /\ ~Ended(b) /\ Rests(t, b.meta, p, IndexSize) /\ Shown(one, b.meta) = item
          /\ b["rv"] = i["rv"] /\ b["remaining"] = i["remaining"] /\ b["entry"] = i["entry"]
      BY <1>1, <2>4 DEF Comes, IndexFields, item
    <2>6. Comes(one, t, b, c, p, z)
      <3>1. c = Extend(one, b, t, z, "index")
        BY <2>5 DEF IndexNamed, t, z
      <3>2. {"rv", "meta"} \subseteq DOMAIN b
        BY <2>5 DEF IndexFields
      <3>3. Cut(t)
        BY DEF t
      <3> HIDE DEF c
      <3> QED BY <2>2, <2>5, <3>1, <3>2, <3>3, ExtendComes
    <2> HIDE DEF c
    <2>7. /\ DOMAIN c = IndexFields /\ ~Ended(c) /\ Rests(t, c.meta, p, z) /\ Shown(one, c.meta) = item
          /\ c["rv"] = i["rv"] /\ c["remaining"] = i["remaining"] /\ c["entry"] = i["entry"]
      BY <2>5, <2>6 DEF Comes, IndexFields, item
    <2>8. CASE Before(name, item.name)
      <3>1. y = [c EXCEPT !.remaining = 0]
        BY <2>3, <2>7, <2>8 DEF IndexTaken
      <3> HIDE DEF y
      <3>2. y.rv = "next" /\ y.remaining = 0 /\ y.entry = i.entry
        BY <1>1, <2>7, <3>1 DEF IndexFields
      <3> QED BY <3>2 DEF Best, y
    <2>9. CASE ~Before(name, item.name)
      <3>1. y = [c EXCEPT !.entry = item, !.next_offset = z, !.remaining = @ - 1]
        BY <2>3, <2>7, <2>9 DEF IndexTaken, z
      <3> HIDE DEF y
      <3>2. /\ DOMAIN y = IndexFields /\ y.rv = "next" /\ y.remaining = i.remaining - 1 /\ y.entry = item
            /\ y.next_offset = z /\ y.meta = c.meta
        BY <1>1, <2>7, <3>1 DEF IndexFields
      <3>3. Best(one, ref, y, name, j)
        BY <2>1, <2>9, <3>2 DEF Best, item, t, p
      <3> DEFINE l == j + 1
      <3>4. l \in 1..(n + 1) /\ y.remaining = n + 1 - l /\ l - 1 = j /\ l > 1 /\ (l <= n => l \in 1..n)
        <4>1. y.remaining = i.remaining - 1 /\ i.remaining = n + 1 - j /\ n \in Nat /\ j \in 1..n
          BY <1>1, <1>2, <2>1, <3>2
        <4> HIDE DEF n
        <4> QED BY <4>1
      <3> HIDE DEF l
      <3>5. l <= n => Reaches(t, y.meta, y.next_offset, index[l].place, IndexSize)
        <4> SUFFICES ASSUME l <= n PROVE Reaches(t, y.meta, y.next_offset, index[l].place, IndexSize)
          OBVIOUS
        <4>1. index[l].place = index[l - 1].place + IndexLength(Item(one, one.inodes, index[l - 1].place))
          <5>1. l \in 1..Len(one.tree[ref].index) /\ l > 1
            BY <3>4
          <5> QED BY <5>1, IndexStride
        <4>2. index[l].place = p + z
          BY <3>4, <4>1 DEF p, z, item, t
        <4>3. Rests(t, y.meta, p, z) /\ p \in Nat /\ z \in Nat /\ z >= z
          BY <2>2, <2>7, <3>2
        <4> QED BY <3>2, <4>2, <4>3 DEF Reaches
      <3>6. IndexPos(one, ref, y, l)
        BY <2>2, <3>2, <3>4, <3>5 DEF IndexPos, t
      <3> QED BY <3>3, <3>6 DEF l, y
    <2> QED BY <2>8, <2>9
  <1> QED BY <1>3, <1>4

\* The scan takes an entry of the index that does not begin after the name, or none.
LEMMA ScanAt ==
    ASSUME NEW one \in Archives, NEW ref, IndexLaidOut(one, ref), Cut(one.inodes),
           NEW name, NEW i, IndexPos(one, ref, i, 1), Best(one, ref, i, name, 0)
    PROVE  LET y == IndexScan(one, i, name) IN y.rv = "next" /\ \E x : Best(one, ref, y, name, x)
  <1> DEFINE n == Len(one.tree[ref].index)
             y == IndexScan(one, i, name)
             Stopped(w) == w.rv = "next" /\ w.remaining = 0 /\ \E x : Best(one, ref, w, name, x)
             Runs(w, k) == IndexPos(one, ref, w, k + 1) /\ \E x : Best(one, ref, w, name, x)
  <1>1. n \in Nat /\ i.remaining = n
    <2>1. n \in Nat
      BY DEF IndexLaidOut, IsSequence
    <2>2. i.remaining = n + 1 - 1
      BY DEF IndexPos
    <2> HIDE DEF n
    <2> QED BY <2>1, <2>2
  <1> HIDE DEF n
  <1>2. PICK g : /\ g[0] = i /\ y = g[n]
                 /\ \A k \in 1..n : g[k] = IndexTurn(one, g[k - 1], name)
    <2> HIDE DEF Stopped, Runs
    <2>1. i.remaining \in Nat
      BY <1>1
    <2>2. PICK g : /\ g[0] = i /\ IndexScan(one, i, name) = g[i.remaining]
                   /\ \A k \in 1..i.remaining : g[k] = IndexTurn(one, g[k - 1], name)
      BY <2>1, IndexTurns
    <2> QED BY <1>1, <2>2
  <1> DEFINE S == {k \in Nat : k <= n => Stopped(g[k]) \/ Runs(g[k], k)}
  <1>3. 0 \in S
    <2>1. 0 + 1 = 1
      OBVIOUS
    <2> QED BY <1>2, <2>1
  <1>4. ASSUME NEW k \in Nat, k \in S PROVE k + 1 \in S
    <2> SUFFICES ASSUME k + 1 <= n PROVE Stopped(g[k + 1]) \/ Runs(g[k + 1], k + 1)
      OBVIOUS
    <2> DEFINE l == k + 1
               v == g[k]
               w == g[l]
    <2>1. w = IndexTurn(one, v, name)
      <3>1. l \in 1..n /\ l - 1 = k
        BY <1>1
      <3> HIDE DEF l
      <3> QED BY <1>2, <3>1
    <2>2. Stopped(v) \/ Runs(v, k)
      BY <1>1, <1>4
    <2>3. CASE Stopped(v)
      <3>1. w = v
        BY <2>1, <2>3 DEF IndexTurn
      <3> QED BY <2>3, <3>1
    <2>4. CASE Runs(v, k)
      <3> HIDE DEF v, w
      <3>1. PICK x : IndexPos(one, ref, v, l) /\ Best(one, ref, v, name, x)
        BY <2>4
      <3>2. l <= n
        OBVIOUS
      <3> HIDE DEF l
      <3>3. \/ w.rv = "next" /\ w.remaining = 0 /\ Best(one, ref, w, name, x)
            \/ IndexPos(one, ref, w, l + 1) /\ Best(one, ref, w, name, l)
        BY <2>1, <3>1, <3>2, IndexTurnAt DEF n
      <3>4. Stopped(w) \/ Runs(w, l)
        BY <3>3
      <3> QED BY <3>4 DEF w, l
    <2> QED BY <2>2, <2>3, <2>4
  <1>5. n \in S
    <2> HIDE DEF S
    <2> QED BY <1>1, <1>3, <1>4, EveryNumber
  <1>6. y.rv = "next" /\ \E x : Best(one, ref, y, name, x)
    <2>1. Stopped(g[n]) \/ Runs(g[n], n)
      BY <1>1, <1>5
    <2>2. Runs(g[n], n) => g[n].rv = "next"
      BY DEF IndexPos
    <2> QED BY <1>2, <2>1, <2>2
  <1> QED BY <1>6

-----------------------------------------------------------------------------
(* A lookup *)

\* Nothing lies before the first entry.
LEMMA FromFirst ==
    ASSUME NEW one \in Archives, NEW L, ListingHolds(one, L), NEW k \in 1..Len(L)
    PROVE  From(L, 1) <= From(L, k)
  <1> DEFINE n == Len(L)
             S == {i \in Nat : i + 1 <= n => From(L, 1) <= From(L, i + 1)}
  <1>1. n \in Nat /\ 1 \in 1..n
    BY EntryOrder
  <1>2. From(L, 1) \in Nat
    BY <1>1, Places
  <1>3. 0 \in S
    <2>1. 0 + 1 = 1
      OBVIOUS
    <2> QED BY <1>2, <2>1
  <1>4. ASSUME NEW i \in Nat, i \in S PROVE i + 1 \in S
    <2> DEFINE l == i + 1
    <2> SUFFICES ASSUME l + 1 <= n PROVE From(L, 1) <= From(L, l + 1)
      OBVIOUS
    <2>1. l \in 1..n /\ l < n /\ From(L, 1) <= From(L, l)
      BY <1>1, <1>4
    <2> HIDE DEF l
    <2>2. /\ From(L, l) \in Nat /\ L[l].place \in Nat /\ EntryEnd(L[l]) \in Nat
          /\ From(L, l) <= L[l].place /\ L[l].place + EntrySize <= EntryEnd(L[l])
          /\ From(L, l + 1) = EntryEnd(L[l])
      BY <2>1, Places
    <2> QED BY <1>2, <2>1, <2>2, EntrySizeAssumption
  <1>5. k - 1 \in S
    <2>1. Nat \subseteq S
      <3> HIDE DEF S
      <3> QED BY <1>3, <1>4, EveryNumber
    <2>2. k - 1 \in Nat
      OBVIOUS
    <2> QED BY <2>1, <2>2
  <1> DEFINE i == k - 1
  <1>6. i \in Nat /\ i + 1 = k /\ k <= n
    BY <1>1
  <1>7. i + 1 <= n => From(L, 1) <= From(L, i + 1)
    BY <1>5
  <1> HIDE DEF i, n, S
  <1> QED BY <1>6, <1>7

\* The offset in the metablock of a place that is counted from another one's metablock.
LEMMA OffsetOf ==
    ASSUME NEW h \in Nat, NEW p \in Nat, h <= p
    PROVE  ((h % MetaSize) + (p - h)) % MetaSize = p % MetaSize
  <1> DEFINE b == BlockOf(h)
             c == BlockOf(p)
             r == h % MetaSize
             v == p % MetaSize
             x == r + (p - h)
             e == BlockOf(x)
             w == x % MetaSize
  <1>1. b \in Nat \ {0} /\ h = Start(b) + r /\ r \in 0..(MetaSize - 1)
    BY BlockOfPlace
  <1>2. x \in Nat /\ p = Start(b) + x
    <2>1. Start(b) \in Nat
      BY <1>1, Starts
    <2>2. r \in Nat
      BY <1>1, Starts
    <2> HIDE DEF b, r
    <2> QED BY <1>1, <2>1, <2>2
  <1> HIDE DEF x
  <1>3. e \in Nat \ {0} /\ x = Start(e) + w /\ w \in 0..(MetaSize - 1)
    BY <1>2, BlockOfPlace
  <1> HIDE DEF b, r, e, w, v
  <1> DEFINE g == b + e - 1
  <1>4. g \in Nat \ {0} /\ Start(g) = Start(b) + Start(e)
    <2> DEFINE s == b - 1
               u == e - 1
    <2>1. s \in Nat /\ u \in Nat /\ g - 1 = s + u /\ g \in Nat \ {0}
      BY <1>1, <1>3
    <2>2. Start(b) = s * MetaSize /\ Start(e) = u * MetaSize
      BY DEF Start
    <2> HIDE DEF s, u, g
    <2>3. (s + u) * MetaSize = s * MetaSize + u * MetaSize
      BY <2>1, MetaSizeAssumption
    <2>4. Start(g) = (s + u) * MetaSize
      BY <2>1 DEF Start
    <2> QED BY <2>1, <2>2, <2>3, <2>4
  <1> HIDE DEF g
  <1>5. p = Start(g) + w
    <2>1. Start(b) \in Nat /\ Start(e) \in Nat
      BY <1>1, <1>3, Starts
    <2> QED BY <1>2, <1>3, <1>4, <2>1, MetaSizeAssumption
  <1>6. (Start(g) + w) % MetaSize = w
    BY <1>3, <1>4, PlaceInBlock
  <1>7. p % MetaSize = w
    BY <1>5, <1>6
  <1> QED BY <1>7 DEF w, x, r

\* The index led to entry a of the listing, or past what can be kept of its place.
Moves(one, ref, i, a, d) ==
    LET L == one.tree[ref].listing
    IN  /\ a \in 1..Len(L) /\ i.entry.name = L[a].name
        /\ \/ d.rv = "error" /\ d.remaining_size \in Nat /\ L[a].from > OffsetMax
           \/ Pos(one, L, d, a) /\ d.last = <<>>

\* The iterator, moved to the fragment that an entry of the index leads to.
LEMMA MovedAt ==
    ASSUME NEW one \in Archives, LaidOut(one), NEW ref \in DOMAIN one.tree, one.tree[ref].type = "directory",
           IndexLaidOut(one, ref), NEW file, file.inode = InodeOf(one, ref),
           NEW x \in 1..Len(one.tree[ref].index), NEW i, i.rv = "next",
           i.entry = Item(one, one.inodes, one.tree[ref].index[x].place)
    PROVE  Moves(one, ref, i, one.tree[ref].index[x].entry, Indexed(FreshDirectory(file), i))
  <1> DEFINE L == one.tree[ref].listing
             a == one.tree[ref].index[x].entry
             item == Item(one, one.inodes, one.tree[ref].index[x].place)
             d0 == FreshDirectory(file)
             inode == InodeOf(one, ref)
             d == Indexed(d0, i)
             t == one.directories
             h == L[1].header
             p == L[a].header
             o == inode.offset
             s == o + item.index
  <1>1. /\ Pos(one, L, d0, 1) /\ d0.file = file.ref /\ d0.last = <<>> /\ d0.next_offset = o
    BY FreshAt
  <1>2. ListingHolds(one, L) /\ ListingLaidOut(one, ref) /\ Cut(one.inodes)
    BY ListingOf, InodeFacts
  <1>3. /\ a \in 1..Len(L) /\ FirstInFragment(L, a) /\ item.name = L[a].name
        /\ item.index = p - h /\ BlockOf(p) \in 1..Len(t) /\ t[BlockOf(p)].address = item.start
        /\ item.index \in Nat /\ item.start \in Nat
    <2>1. IndexShows(one, ref, x)
      BY <1>2, IndexFacts
    <2> QED BY <2>1 DEF IndexShows
  <1>15. i.entry = item
    OBVIOUS
  <1>4. L[a].from = o + p - h
    BY <1>3 DEF IndexLaidOut
  <1>5. Len(L) \in Nat /\ 1 \in 1..Len(L)
    <2>1. Len(L) \in Nat
      BY <1>2, EntryOrder
    <2>2. a \in 1..Len(L)
      BY <1>3
    <2> HIDE DEF L, a
    <2> QED BY <2>1, <2>2
  <1>6. h \in Nat /\ p \in Nat
    BY <1>2, <1>3, <1>5, EntryFacts
  <1>7. h <= p
    <2>1. From(L, 1) <= From(L, a)
      BY <1>2, <1>3, FromFirst
    <2>2. From(L, 1) = h /\ From(L, a) = p
      BY <1>3 DEF From, FirstInFragment
    <2> QED BY <2>1, <2>2
  <1>8. o = h % MetaSize /\ o \in Nat
    <2>1. Leads(t, inode.start, o, h)
      <3>1. Len(L) # 0
        BY <1>5
      <3> QED BY <1>2, <3>1 DEF ListingLaidOut
    <2>2. inode \in InodeItem
      BY InodeFacts
    <2> QED BY <2>1, <2>2 DEF Leads, InodeItem
  <1>9. s = L[a].from /\ s % MetaSize = p % MetaSize /\ s \in Nat
    <2>1. s = o + (p - h) /\ s = o + p - h /\ s \in Nat
      <3>1. item.index = p - h /\ item.index \in Nat
        BY <1>3
      <3>2. h \in Nat /\ p \in Nat /\ o \in Nat /\ s = o + item.index
        BY <1>6, <1>8
      <3> HIDE DEF item, p, h, o, s
      <3> QED BY <3>1, <3>2
    <2>2. (o + (p - h)) % MetaSize = p % MetaSize
      <3>1. h \in Nat /\ p \in Nat /\ h <= p /\ o = h % MetaSize
        BY <1>6, <1>7, <1>8
      <3> HIDE DEF h, p, o
      <3>2. ((h % MetaSize) + (p - h)) % MetaSize = p % MetaSize
        BY <3>1, OffsetOf
      <3> QED BY <3>1, <3>2
    <2> HIDE DEF s, p, h, o
    <2>3. s = L[a].from
      BY <1>4, <2>1
    <2>4. s % MetaSize = p % MetaSize
      BY <2>1, <2>2
    <2> QED BY <2>1, <2>3, <2>4
  <1>10. Behind(L, 1) = End(L) - h /\ Behind(L, a) = End(L) - p /\ End(L) \in Nat /\ p <= End(L)
    <2>1. 1 # Len(L) + 1 /\ a # Len(L) + 1
      <3>1. a \in 1..Len(L)
        BY <1>3
      <3> HIDE DEF L, a
      <3> QED BY <1>5, <3>1
    <2>2. From(L, 1) = h /\ From(L, a) = p
      BY <1>3 DEF From, FirstInFragment
    <2>3. /\ From(L, a) \in Nat /\ L[a].place \in Nat /\ EntryEnd(L[a]) \in Nat
          /\ From(L, a) <= L[a].place /\ L[a].place + EntrySize <= EntryEnd(L[a])
      BY <1>2, <1>3, Places
    <2>4. EntryEnd(L[a]) <= End(L) /\ End(L) \in Nat
      BY <1>2, <1>3, Ends
    <2>5. p <= End(L)
      <3> HIDE DEF p, L, a
      <3> QED BY <2>2, <2>3, <2>4, EntrySizeAssumption
    <2> QED BY <2>1, <2>2, <2>4, <2>5 DEF Behind
  <1>11. /\ DOMAIN d0 = DirFields /\ d0.rv = "next" /\ d0.remaining_size = End(L) - h
    BY <1>1, <1>10 DEF Pos
  <1> HIDE DEF d0, inode, L, a, item, t, h, p, o
  <1>12. ~Ended(i) /\ ~(d0.remaining_size < item.index) /\ d0.remaining_size \in Nat
         /\ d0.remaining_size - item.index = End(L) - p
    <2>1. ~Ended(i)
      BY DEF Ended
    <2> DEFINE e == End(L)
               u == d0.remaining_size
               w == item.index
    <2>2. /\ u = e - h /\ e \in Nat /\ p <= e /\ h \in Nat /\ p \in Nat /\ h <= p
          /\ w = p - h /\ w \in Nat
      BY <1>3, <1>6, <1>7, <1>10, <1>11
    <2> HIDE DEF e, u, w
    <2>3. ~(u < w) /\ u \in Nat /\ u - w = e - p
      BY <2>2
    <2> QED BY <2>1, <2>3 DEF e, u, w
  <1>13. CASE s > OffsetMax
    <2>1. d = [d0 EXCEPT !.rv = "error"]
      BY <1>1, <1>12, <1>13, <1>15 DEF Indexed, Fails
    <2> HIDE DEF d
    <2>2. d.rv = "error" /\ d.remaining_size = d0.remaining_size
      BY <1>11, <2>1 DEF DirFields
    <2> QED BY <1>3, <1>9, <1>12, <1>13, <1>15, <2>2 DEF Moves, d, d0, L, a
  <1>14. CASE ~(s > OffsetMax)
    <2> DEFINE y == [d0 EXCEPT !.remaining_size = @ - item.index]
    <2>1. d = [y EXCEPT !.meta = FreshMetaReader(item.start), !.next_offset = s % MetaSize, !.remaining_entries = 0]
      BY <1>1, <1>12, <1>14, <1>15 DEF Indexed, LoadMetablock
    <2> HIDE DEF d, s
    <2>2. /\ DOMAIN d = DirFields /\ d.rv = "next" /\ d.next_offset = s % MetaSize /\ d.remaining_entries = 0
          /\ d.remaining_size = d0.remaining_size - item.index /\ d.last = d0.last
          /\ d.meta = FreshMetaReader(item.start)
      BY <1>11, <2>1 DEF DirFields
    <2>3. s % MetaSize \in Nat
      BY <1>9, MetaSizeAssumption
    <2>4. Reaches(t, d.meta, d.next_offset, p, FragmentSize)
      <3>1. p = Start(BlockOf(p)) + (p % MetaSize)
        BY <1>6, BlockOfPlace
      <3> QED BY <1>3, <1>9, <2>2, <3>1 DEF Reaches
    <2>5. From(L, a) = p /\ Asks(L, a) = FragmentSize
      BY <1>3 DEF From, Asks, p
    <2>6. Pos(one, L, d, a)
      BY <1>3, <1>10, <1>12, <2>2, <2>3, <2>4, <2>5 DEF Pos, t
    <2> QED BY <1>1, <1>3, <1>15, <2>2, <2>6 DEF Moves, d, d0, L, a
  <1> QED BY <1>13, <1>14

\* An entry of the index does not lead past the name.
LEMMA TakenAt ==
    ASSUME NEW one \in Archives, LaidOut(one), NEW ref \in DOMAIN one.tree, one.tree[ref].type = "directory",
           IndexLaidOut(one, ref), NEW file, file.inode = InodeOf(one, ref), NEW name,
           NEW i, i.rv = "next", NEW x, x # 0, Best(one, ref, i, name, x)
    PROVE  LET L == one.tree[ref].listing
               d == Indexed(FreshDirectory(file), i)
           IN  \/ /\ d.rv = "error" /\ d.remaining_size \in Nat
                  /\ \E k \in 1..Len(L) : L[k].from > OffsetMax /\ ~Before(name, L[k].name)
               \/ \E b \in 1..(Len(L) + 1) :
                     Pos(one, L, d, b) /\ d.last = <<>> /\ \A k \in 1..(b - 1) : L[k].name # name
  <1> DEFINE L == one.tree[ref].listing
             index == one.tree[ref].index
             a == index[x].entry
             d == Indexed(FreshDirectory(file), i)
  <1>1. /\ x \in 1..Len(index) /\ i.entry = Item(one, one.inodes, index[x].place)
        /\ ~Before(name, i.entry.name)
    BY DEF Best
  <1>2. /\ a \in 1..Len(L) /\ i.entry.name = L[a].name
        /\ \/ d.rv = "error" /\ d.remaining_size \in Nat /\ L[a].from > OffsetMax
           \/ Pos(one, L, d, a) /\ d.last = <<>>
    <2>1. Moves(one, ref, i, a, d)
      BY <1>1, MovedAt
    <2> QED BY <2>1 DEF Moves
  <1>3. ListingHolds(one, L) /\ ListingLaidOut(one, ref)
    BY ListingOf
  <1>4. Len(L) \in Nat
    BY <1>3, EntryOrder
  <1> HIDE DEF a, d
  <1>5. a \in 1..(Len(L) + 1) /\ \A k \in 1..(a - 1) : k < a /\ k \in 1..Len(L)
    BY <1>2, <1>4
  <1>6. \A k \in 1..(a - 1) : L[k].name # name
    <2> SUFFICES ASSUME NEW k \in 1..(a - 1), L[k].name = name PROVE FALSE
      OBVIOUS
    <2>1. Before(L[k].name, L[a].name)
      BY <1>2, <1>3, <1>5 DEF ListingLaidOut
    <2> QED BY <1>1, <1>2, <2>1
  <1> HIDE DEF L
  <1>7. \/ /\ d.rv = "error" /\ d.remaining_size \in Nat
           /\ \E k \in 1..Len(L) : L[k].from > OffsetMax /\ ~Before(name, L[k].name)
        \/ \E b \in 1..(Len(L) + 1) :
              Pos(one, L, d, b) /\ d.last = <<>> /\ \A k \in 1..(b - 1) : L[k].name # name
    BY <1>1, <1>2, <1>5, <1>6
  <1> QED BY <1>7 DEF d, L

\* directory_iterator_index_lookup
LEMMA PositionedAt ==
    ASSUME NEW one \in Archives, LaidOut(one), NEW ref \in DOMAIN one.tree, one.tree[ref].type = "directory",
           NEW file, file = InodeRead(one, ref), NEW name
    PROVE  LET L == one.tree[ref].listing
               d == Positioned(one, file, FreshDirectory(file), name)
           IN  \/ /\ d.rv = "error" /\ d.remaining_size \in Nat
                  /\ \E k \in 1..Len(L) : L[k].from > OffsetMax /\ ~Before(name, L[k].name)
               \/ \E a \in 1..(Len(L) + 1) :
                     Pos(one, L, d, a) /\ d.last = <<>> /\ \A i \in 1..(a - 1) : L[i].name # name
  <1> DEFINE L == one.tree[ref].listing
             index == one.tree[ref].index
             inode == InodeOf(one, ref)
             d0 == FreshDirectory(file)
             d == Positioned(one, file, d0, name)
             u == one.tree[ref].place
             t == one.inodes
             i0 == FreshIndex(file)
             i == IndexScan(one, i0, name)
  <1>1. /\ DOMAIN file = FileFields /\ file.rv = "ok" /\ file.inode = inode /\ file.ref = ref
        /\ Rests(t, file.meta, u, InodeLength(inode))
    BY InodeReads
  <1>2. Pos(one, L, d0, 1) /\ d0.last = <<>> /\ d0.next_offset = inode.offset
    BY <1>1, FreshAt
  <1>3. ListingHolds(one, L) /\ ListingLaidOut(one, ref) /\ (inode.extended => IndexLaidOut(one, ref))
    BY ListingOf DEF LaidOut, DirectoryLaidOut
  <1>4. Len(L) \in Nat /\ 1 \in 1..(Len(L) + 1)
    <2>1. Len(L) \in Nat
      BY <1>3, EntryOrder
    <2> QED BY <2>1
  <1>5. /\ Cut(t) /\ inode \in InodeItem /\ TypeSize(inode) \in Nat \ {0} /\ u \in Nat
        /\ InodeLength(inode) = InodeHeader + TypeSize(inode) + PayloadSize(inode)
    BY InodeFacts
  <1>6. CASE ~inode.extended
    <2>1. d = d0
      BY <1>1, <1>6 DEF Positioned
    <2>2. \A k \in 1..(1 - 1) : L[k].name # name
      OBVIOUS
    <2> HIDE DEF d, d0, L
    <2>3. \E a \in 1..(Len(L) + 1) :
             Pos(one, L, d, a) /\ d.last = <<>> /\ \A k \in 1..(a - 1) : L[k].name # name
      BY <1>2, <1>4, <2>1, <2>2
    <2> QED BY <2>3 DEF d, d0, L
  <1>7. CASE inode.extended
    <2>1. IndexLaidOut(one, ref)
      BY <1>3, <1>7
    <2>2. Len(index) \in Nat /\ Len(index) = inode.indexes /\ inode.offset <= OffsetMax
      BY <2>1 DEF IndexLaidOut, IsSequence
    <2>3. /\ DOMAIN i0 = IndexFields /\ i0.rv = "next" /\ i0.next_offset = InodeHeader + TypeSize(inode)
          /\ i0.remaining = inode.indexes /\ i0.entry.start = inode.start /\ i0.entry.index = 0
          /\ i0.meta = file.meta
      BY <1>1 DEF FreshIndex, IndexFields
    <2>4. InodeLength(inode) = InodeHeader + TypeSize(inode) /\ InodeLength(inode) \in Nat
      <3>1. inode.type = "directory"
        <4>1. InodeLaidOut(one, ref)
          BY DEF LaidOut
        <4> QED BY <4>1 DEF InodeLaidOut
      <3>2. PayloadSize(inode) = 0
        BY <3>1 DEF PayloadSize
      <3> HIDE DEF inode
      <3> QED BY <1>5, <3>2, InodeHeaderAssumption
    <2>5. IndexPos(one, ref, i0, 1)
      <3>1. 1 <= Len(index) => index[1].place = u + InodeLength(inode)
        <4> SUFFICES ASSUME 1 <= Len(index) PROVE index[1].place = u + InodeLength(inode)
          OBVIOUS
        <4>1. 1 \in 1..Len(index)
          BY <2>2
        <4> QED BY <2>1, <4>1 DEF IndexLaidOut
      <3>2. 1 <= Len(index) => Reaches(t, i0.meta, i0.next_offset, index[1].place, IndexSize)
        <4> SUFFICES ASSUME 1 <= Len(index) PROVE Reaches(t, i0.meta, i0.next_offset, index[1].place, IndexSize)
          OBVIOUS
        <4> DEFINE c == InodeLength(inode)
        <4>1. /\ Rests(t, i0.meta, u, c) /\ u \in Nat /\ c \in Nat /\ i0.next_offset = c
              /\ c >= c /\ index[1].place = u + c
          BY <1>1, <1>5, <2>3, <2>4, <3>1
        <4> HIDE DEF c, i0, t, u, index
        <4> QED BY <4>1 DEF Reaches
      <3>3. 1 \in 1..(Len(index) + 1) /\ i0.remaining = Len(index) + 1 - 1
        BY <2>2, <2>3
      <3> HIDE DEF i0
      <3> QED BY <2>3, <2>4, <3>2, <3>3 DEF IndexPos
    <2>6. Best(one, ref, i0, name, 0)
      BY <2>3 DEF Best
    <2>7. i.rv = "next" /\ \E x : Best(one, ref, i, name, x)
      <3> HIDE DEF i0
      <3> QED BY <1>5, <2>1, <2>5, <2>6, ScanAt
    <2>8. d = Indexed(d0, i)
      BY <1>1, <1>7 DEF Positioned
    <2> HIDE DEF i, i0
    <2>9. PICK x : Best(one, ref, i, name, x)
      BY <2>7
    <2>10. CASE x = 0
      <3>1. i.entry.start = inode.start /\ i.entry.index = 0
        BY <2>9, <2>10 DEF Best
      <3>2. inode.offset \in Nat /\ inode.start \in Nat
        BY <1>5 DEF InodeItem
      <3>3. d0.remaining_size = Behind(L, 1) /\ Behind(L, 1) \in Nat /\ DOMAIN d0 = DirFields
        BY <1>2, <1>3, <1>4, BehindLess DEF Pos
      <3>4. d0.remaining_entries = 0
        BY <1>2 DEF Pos, FirstInFragment
      <3>5. d = LoadMetablock([d0 EXCEPT !.remaining_size = @ - 0], inode.start, (inode.offset + 0) % MetaSize)
        <4>1. ~Ended(i) /\ ~(inode.offset + 0 > OffsetMax) /\ ~(d0.remaining_size < 0)
          <5>1. ~Ended(i)
            BY <2>7 DEF Ended
          <5> QED BY <2>2, <3>2, <3>3, <5>1, OffsetMaxAssumption
        <4> HIDE DEF d0, inode
        <4> QED BY <1>2, <2>8, <3>1, <4>1 DEF Indexed
      <3> DEFINE y == [d0 EXCEPT !.remaining_size = @ - 0]
      <3>6. /\ DOMAIN d = DirFields /\ d.rv = d0.rv /\ d.last = d0.last /\ d.remaining_entries = 0
            /\ d.remaining_size = d0.remaining_size /\ d.meta = FreshMetaReader(inode.start)
            /\ d.next_offset = inode.offset % MetaSize
        <4>1. d.remaining_size = d0.remaining_size - 0
          <5> HIDE DEF d0, d, inode
          <5> QED BY <3>3, <3>5 DEF LoadMetablock, DirFields
        <4>2. d.remaining_size = d0.remaining_size
          <5> HIDE DEF d0, d
          <5> QED BY <3>3, <4>1
        <4>3. inode.offset + 0 = inode.offset
          BY <3>2
        <4> HIDE DEF d0, d, inode
        <4> QED BY <3>3, <3>5, <4>2, <4>3 DEF LoadMetablock, DirFields
      <3>7. 1 <= Len(L) => Reaches(one.directories, d.meta, d.next_offset, From(L, 1), Asks(L, 1))
        <4> SUFFICES ASSUME 1 <= Len(L) PROVE Reaches(one.directories, d.meta, d.next_offset, From(L, 1), Asks(L, 1))
          OBVIOUS
        <4> DEFINE h == L[1].header
                   v == one.directories
        <4>1. Leads(v, inode.start, inode.offset, h)
          <5>1. Len(L) # 0
            BY <1>4
          <5> QED BY <1>3, <5>1 DEF ListingLaidOut
        <4>2. h \in Nat
          <5>1. 1 \in 1..Len(L)
            BY <1>4
          <5> QED BY <1>3, <5>1, EntryFacts
        <4>3. From(L, 1) = h
          BY DEF From, FirstInFragment
        <4> HIDE DEF h, v, d
        <4>4. h = Start(BlockOf(h)) + (h % MetaSize) /\ h % MetaSize \in 0..(MetaSize - 1) /\ BlockOf(h) \in Nat \ {0}
          BY <4>2, BlockOfPlace
        <4>5. (h % MetaSize) % MetaSize = h % MetaSize
          <5> DEFINE k == h % MetaSize
          <5>1. k \in 0..(MetaSize - 1)
            BY <4>4
          <5> HIDE DEF k
          <5>2. (Start(1) + k) % MetaSize = k
            BY <5>1, PlaceInBlock
          <5>3. Start(1) + k = k
            BY <5>1, Starts
          <5>4. k % MetaSize = k
            BY <5>2, <5>3
          <5> QED BY <5>4 DEF k
        <4>6. /\ BlockOf(h) \in 1..Len(v) /\ v[BlockOf(h)].address = inode.start
              /\ d.next_offset = h % MetaSize /\ d.meta = FreshMetaReader(v[BlockOf(h)].address)
          BY <3>6, <4>1, <4>5 DEF Leads
        <4> QED BY <4>3, <4>4, <4>6 DEF Reaches, v
      <3>8. inode.offset % MetaSize \in Nat
        BY <3>2, MetaSizeAssumption
      <3>9. FirstInFragment(L, 1)
        BY DEF FirstInFragment
      <3> HIDE DEF d, d0, L, inode
      <3>10. Pos(one, L, d, 1) /\ d.last = <<>>
        <4>1. d0.rv = "next"
          BY <1>2 DEF Pos
        <4> QED BY <1>2, <3>3, <3>6, <3>7, <3>8, <3>9, <4>1 DEF Pos
      <3>11. \A k \in 1..(1 - 1) : L[k].name # name
        OBVIOUS
      <3>12. \E a \in 1..(Len(L) + 1) :
               Pos(one, L, d, a) /\ d.last = <<>> /\ \A k \in 1..(a - 1) : L[k].name # name
        BY <1>4, <3>10, <3>11
      <3> QED BY <3>12 DEF d, d0, L
    <2>11. CASE x # 0
      <3> HIDE DEF d, d0, L
      <3>1. d = Indexed(FreshDirectory(file), i)
        BY <2>8 DEF d0
      <3>2. file.inode = InodeOf(one, ref)
        BY <1>1
      <3>3. \/ /\ d.rv = "error" /\ d.remaining_size \in Nat
               /\ \E k \in 1..Len(L) : L[k].from > OffsetMax /\ ~Before(name, L[k].name)
            \/ \E b \in 1..(Len(L) + 1) :
                  Pos(one, L, d, b) /\ d.last = <<>> /\ \A k \in 1..(b - 1) : L[k].name # name
        BY <2>1, <2>7, <2>9, <2>11, <3>1, <3>2, TakenAt DEF L
      <3> QED BY <3>3 DEF d, d0, L
    <2> QED BY <2>10, <2>11
  <1>8. inode.extended \in BOOLEAN
    BY <1>5 DEF InodeItem
  <1> QED BY <1>6, <1>7

\* A search that has failed stays failed.
LEMMA FindFails ==
    ASSUME NEW one, NEW d, d.rv = "error", d.remaining_size \in Nat, NEW name
    PROVE  FindEntry(one, NextEntry(one, d), name).rv = "error"
  <1> DEFINE n == d.remaining_size + 1
             f == FindEntry(one, d, name)
  <1>1. NextEntry(one, d) = d /\ Ended(d)
    BY DEF NextEntry, Ended
  <1>2. n \in Nat /\ n = d.remaining_size + 1
    OBVIOUS
  <1> HIDE DEF n
  <1>3. PICK g : /\ g[0] = d /\ f = Finalized(g[n])
                 /\ \A k \in 1..n : g[k] = FindTurn(one, g[k - 1], name)
    BY <1>2, FindTurns
  <1> DEFINE S == {k \in Nat : k <= n => g[k] = d}
  <1>4. 0 \in S
    BY <1>3
  <1>5. ASSUME NEW k \in Nat, k \in S PROVE k + 1 \in S
    <2> SUFFICES ASSUME k + 1 <= n PROVE g[k + 1] = d
      OBVIOUS
    <2> DEFINE l == k + 1
    <2>1. l \in 1..n /\ l - 1 = k /\ k <= n
      BY <1>2
    <2> HIDE DEF l
    <2>2. g[l] = FindTurn(one, d, name)
      BY <1>3, <1>5, <2>1
    <2>3. g[l] = d
      BY <1>1, <2>2 DEF FindTurn
    <2> QED BY <2>3 DEF l
  <1>6. g[n] = d
    <2>1. n \in S
      <3> HIDE DEF S
      <3> QED BY <1>2, <1>4, <1>5, EveryNumber
    <2> QED BY <1>2, <2>1
  <1>7. f = d
    BY <1>1, <1>3, <1>6 DEF Finalized
  <1> HIDE DEF f
  <1>8. f.rv = "error"
    BY <1>7
  <1> QED BY <1>1, <1>8 DEF f

\* sqsh_directory_iterator_lookup
LEMMA LookupFinds ==
    ASSUME NEW one \in Archives, LaidOut(one), NEW ref \in DOMAIN one.tree, one.tree[ref].type = "directory",
           NEW file, file = InodeRead(one, ref), NEW name
    PROVE  LET L == one.tree[ref].listing
               d == DirectoryLookup(one, file, FreshDirectory(file), name)
           IN  \/ d.rv = "error" /\ \E k \in 1..Len(L) : L[k].from > OffsetMax /\ ~Before(name, L[k].name)
               \/ d.rv = "end" /\ \A k \in 1..Len(L) : L[k].name # name
               \/ d.rv = "next" /\ \E k \in 1..Len(L) : L[k].name = name /\ EntryRef(d) = L[k].ref
  <1> DEFINE L == one.tree[ref].listing
             q == Positioned(one, file, FreshDirectory(file), name)
             d == DirectoryLookup(one, file, FreshDirectory(file), name)
  <1>1. ListingHolds(one, L)
    BY ListingOf
  <1>2. d = FindEntry(one, NextEntry(one, q), name)
    BY DEF DirectoryLookup
  <1>3. \/ /\ q.rv = "error" /\ q.remaining_size \in Nat
           /\ \E k \in 1..Len(L) : L[k].from > OffsetMax /\ ~Before(name, L[k].name)
        \/ \E a \in 1..(Len(L) + 1) :
              Pos(one, L, q, a) /\ q.last = <<>> /\ \A i \in 1..(a - 1) : L[i].name # name
    BY PositionedAt
  <1> HIDE DEF d, q, L
  <1>4. CASE /\ q.rv = "error" /\ q.remaining_size \in Nat
             /\ \E k \in 1..Len(L) : L[k].from > OffsetMax /\ ~Before(name, L[k].name)
    <2>1. d.rv = "error"
      BY <1>2, <1>4, FindFails
    <2> QED BY <1>4, <2>1 DEF d, L
  <1>5. ASSUME NEW a \in 1..(Len(L) + 1), Pos(one, L, q, a), q.last = <<>>, \A i \in 1..(a - 1) : L[i].name # name
        PROVE  \/ d.rv = "end" /\ \A k \in 1..Len(L) : L[k].name # name
               \/ d.rv = "next" /\ \E k \in 1..Len(L) : L[k].name = name /\ EntryRef(d) = L[k].ref
    <2>1. \/ d.rv = "end" /\ \A i \in a..Len(L) : L[i].name # name
          \/ d.rv = "next" /\ \E k \in a..Len(L) : L[k].name = name /\ EntryRef(d) = L[k].ref
      BY <1>1, <1>2, <1>5, FindEntryAt
    <2>2. Len(L) \in Nat
      BY <1>1, EntryOrder
    <2>3. \A k \in 1..Len(L) : k \in 1..(a - 1) \/ k \in a..Len(L)
      BY <2>2
    <2>4. \A k \in a..Len(L) : k \in 1..Len(L)
      BY <2>2
    <2> QED BY <1>5, <2>1, <2>3, <2>4
  <1>6. \/ d.rv = "error" /\ \E k \in 1..Len(L) : L[k].from > OffsetMax /\ ~Before(name, L[k].name)
        \/ d.rv = "end" /\ \A k \in 1..Len(L) : L[k].name # name
        \/ d.rv = "next" /\ \E k \in 1..Len(L) : L[k].name = name /\ EntryRef(d) = L[k].ref
    BY <1>3, <1>4, <1>5 DEF d, L
  <1> QED BY <1>6 DEF d, L

-----------------------------------------------------------------------------
(* Attributes that are laid out *)

AttrsHold(one, A) ==
    /\ Cut(one.xattrs) /\ IsSequence(A) /\ \A k \in 1..Len(A) : AttributeLaidOut(one, A, k)

KeyOf(one, A, k) == Item(one, one.xattrs, A[k].place)
Rest(A, k) == IF k = Len(A) + 1 THEN 0 ELSE A[k].rest

\* What is known of an attribute where it lies.
LEMMA AttributeFacts ==
    ASSUME NEW one \in Archives, NEW A, AttrsHold(one, A), NEW k \in 1..Len(A)
    PROVE  LET t == one.xattrs
               p == A[k].place
               key == KeyOf(one, A, k)
               named == KeySize + Len(key.name) + ValueSize
           IN  /\ key \in KeyItem /\ p \in Nat /\ Len(key.name) \in Nat /\ key.size \in Nat
               /\ KeyLength(key) = named + key.size /\ named \in Nat /\ KeyLength(key) \in Nat \ {0}
               /\ KeySize <= named /\ named <= KeyLength(key)
               /\ Begins(one, t, p, KeySize, "key") /\ Begins(one, t, p, named, "key")
               /\ Begins(one, t, p, KeyLength(key), "key")
               /\ FullName(key) = A[k].name /\ Prefix(key.type) # <<>>
               /\ Len(A) \in Nat /\ Rest(A, k) \in Nat
               /\ Rest(A, k) = Len(A[k].name) + Len(A[k].value) + 1 + Rest(A, k + 1)
               /\ k < Len(A) => A[k + 1].place = p + KeyLength(key)
  <1> DEFINE t == one.xattrs
             p == A[k].place
             key == KeyOf(one, A, k)
             named == KeySize + Len(key.name) + ValueSize
  <1>1. Cut(t) /\ Len(A) \in Nat /\ AttributeLaidOut(one, A, k)
    BY DEF AttrsHold, IsSequence
  <1>2. /\ Begins(one, t, p, KeySize, "key") /\ Begins(one, t, p, KeyLength(key), "key")
        /\ FullName(key) = A[k].name /\ A[k].rest \in Nat
        /\ A[k].rest = Len(A[k].name) + Len(A[k].value) + 1 + (IF k < Len(A) THEN A[k + 1].rest ELSE 0)
        /\ k < Len(A) => A[k + 1].place = p + KeyLength(key)
    BY <1>1 DEF AttributeLaidOut, KeyOf
  <1>3. p \in Nat /\ TableLength(t) \in Nat
    BY <1>1, <1>2, TableBytes DEF Begins
  <1>4. key = Item(one, t, p)
    BY DEF KeyOf
  <1> HIDE DEF t, p
  <1>5. key \in KeyItem
    <2> HIDE DEF key
    <2> QED BY <1>2, <1>4, ItemKinds
  <1> HIDE DEF key
  <1>6. Len(key.name) \in Nat /\ key.size \in Nat /\ key.type \in {"security", "trusted", "user"}
    <2>1. key.name \in Seq(Nat) /\ key.size \in Nat /\ key.type \in {"security", "trusted", "user"}
      BY <1>5 DEF KeyItem
    <2> QED BY <2>1
  <1>7. Prefix(key.type) # <<>>
    <2>1. <<1>> # <<>> /\ <<2>> # <<>> /\ <<3>> # <<>>
      OBVIOUS
    <2> QED BY <1>6, <2>1 DEF Prefix
  <1>8. /\ KeyLength(key) = named + key.size /\ named \in Nat \ {0} /\ KeyLength(key) \in Nat \ {0}
        /\ KeySize <= named /\ named <= KeyLength(key) /\ KeySize \in Nat \ {0}
    BY <1>6, KeySizeAssumption, ValueSizeAssumption DEF KeyLength
  <1> HIDE DEF named
  <1>9. Begins(one, t, p, named, "key")
    BY <1>2, <1>3, <1>8, BeginsLess
  <1>10. Rest(A, k) = A[k].rest /\ Rest(A, k + 1) = IF k < Len(A) THEN A[k + 1].rest ELSE 0
    BY <1>1 DEF Rest
  <1> QED BY <1>1, <1>2, <1>3, <1>5, <1>6, <1>7, <1>8, <1>9, <1>10 DEF key, t, p, named

-----------------------------------------------------------------------------
(* The iterator in a list of attributes *)

XattrFields == {"meta", "remaining_entries", "remaining_size", "next_offset", "key", "value", "rv"}

\* The iterator is about to come to attribute k, or to the end behind the last one.
XPos(one, A, x, k) ==
    /\ DOMAIN x = XattrFields /\ x.rv = "next" /\ x.next_offset \in Nat
    /\ x.remaining_entries = Len(A) + 1 - k /\ x.remaining_size = Rest(A, k)
    /\ k <= Len(A) => Reaches(one.xattrs, x.meta, x.next_offset, A[k].place, KeySize)

\* The iterator has come to attribute k.
XIsAt(one, A, x, k) == x.key = KeyOf(one, A, k) /\ x.value = A[k].value

ValueFields == {"rv", "value", "meta"}

\* xattr_value_indirect_load, or the value in place
LEMMA ValueHolds ==
    ASSUME NEW one \in Archives, NEW A, AttrsHold(one, A), NEW k \in 1..Len(A)
    PROVE  LET v == ValueOf(one, KeyOf(one, A, k)) IN v.rv = "next" /\ v.value = A[k].value
  <1> DEFINE t == one.xattrs
             key == KeyOf(one, A, k)
             p == A[k].shared
             value == Item(one, t, p)
             z == ValueSize + Len(value.value)
             v0 == [rv |-> "next", value |-> <<>>, meta |-> FreshMetaReader(key.ref[1])]
             a == Begin(one, v0, t, key.ref[2], ValueSize, "value")
             b == ValueNamed(one, a)
             v == ValueOf(one, key)
  <1>1. Cut(t) /\ AttributeLaidOut(one, A, k)
    BY DEF AttrsHold
  <1>2. CASE ~key.indirect
    <2>1. key.value = A[k].value
      BY <1>1, <1>2 DEF AttributeLaidOut, KeyOf
    <2>2. ~key.indirect
      BY <1>2
    <2> HIDE DEF key
    <2>3. v = [rv |-> "next", value |-> key.value]
      BY <2>2 DEF ValueOf
    <2> HIDE DEF v
    <2>4. v.rv = "next" /\ v.value = A[k].value
      BY <2>1, <2>3
    <2> QED BY <2>4 DEF v, key
  <1>3. CASE key.indirect
    <2>1. /\ key.size = RefSize
          /\ Begins(one, t, p, ValueSize, "value") /\ Begins(one, t, p, z, "value")
          /\ Leads(t, key.ref[1], key.ref[2], p) /\ value.value = A[k].value
      BY <1>1, <1>3 DEF AttributeLaidOut, KeyOf
    <2>2. v = ValueShown(one, b)
      <3> DEFINE w == [rv |-> IF key.size = RefSize THEN "next" ELSE "error", value |-> <<>>,
                       meta |-> FreshMetaReader(key.ref[1])]
      <3>1. key.indirect /\ key.size = RefSize
        BY <1>3, <2>1
      <3> HIDE DEF key
      <3>2. w = v0
        BY <3>1
      <3>3. ValueOf(one, key) = IndirectValue(one, key)
        BY <3>1 DEF ValueOf
      <3>4. IndirectValue(one, key)
                = ValueShown(one, ValueNamed(one, Begin(one, w, one.xattrs, key.ref[2], ValueSize, "value")))
        BY DEF IndirectValue
      <3> QED BY <3>2, <3>3, <3>4
    <2>3. p \in Nat
      BY <2>1 DEF Begins
    <2> HIDE DEF t, key, p
    <2>4. value \in ValueItem
      BY <2>1, ItemKinds
    <2>5. Len(value.value) \in Nat
      <3>1. value.value \in Seq(Nat)
        BY <2>4 DEF ValueItem
      <3> QED BY <3>1
    <2> HIDE DEF value
    <2>6. z \in Nat \ {0} /\ ValueSize \in Nat \ {0} /\ z >= ValueSize
      BY <2>5, ValueSizeAssumption
    <2>7. DOMAIN v0 = ValueFields /\ v0.rv = "next" /\ v0.meta = FreshMetaReader(key.ref[1])
      BY DEF ValueFields
    <2> HIDE DEF v0
    <2>8. /\ BlockOf(p) \in 1..Len(t) /\ t[BlockOf(p)].address = key.ref[1] /\ key.ref[2] = p % MetaSize
      BY <2>1 DEF Leads
    <2>9. p = Start(BlockOf(p)) + (p % MetaSize) /\ p % MetaSize \in Nat
      <3>1. p % MetaSize \in 0..(MetaSize - 1)
        BY <2>3, BlockOfPlace
      <3>2. p % MetaSize \in Nat
        BY <3>1, MetaSizeAssumption
      <3> QED BY <2>3, <3>2, BlockOfPlace
    <2>10. Reaches(t, v0.meta, key.ref[2], p, ValueSize) /\ key.ref[2] \in Nat
      BY <2>7, <2>8, <2>9 DEF Reaches
    <2>11. Comes(one, t, v0, a, p, ValueSize)
      <3>1. {"rv", "meta"} \subseteq DOMAIN v0 /\ ~Ended(v0)
        BY <2>7 DEF Ended, ValueFields
      <3> QED BY <1>1, <2>1, <2>10, <3>1, BeginComes
    <2> HIDE DEF a
    <2>12. /\ DOMAIN a = ValueFields /\ ~Ended(a) /\ Rests(t, a.meta, p, ValueSize) /\ Shown(one, a.meta) = value
           /\ a["rv"] = v0["rv"]
      BY <2>7, <2>11 DEF Comes, ValueFields, value
    <2>13. Comes(one, t, a, b, p, z)
      <3>1. b = Extend(one, a, t, z, "value")
        BY <2>12 DEF ValueNamed, t
      <3>2. {"rv", "meta"} \subseteq DOMAIN a
        BY <2>12 DEF ValueFields
      <3> HIDE DEF b, z
      <3> QED BY <1>1, <2>1, <2>6, <2>12, <3>1, <3>2, ExtendComes DEF z
    <2> HIDE DEF b
    <2>14. DOMAIN b = ValueFields /\ ~Ended(b) /\ Shown(one, b.meta) = value /\ b["rv"] = a["rv"]
      BY <2>12, <2>13 DEF Comes, ValueFields, value
    <2>15. v = [b EXCEPT !.value = value.value]
      BY <2>2, <2>14 DEF ValueShown
    <2> HIDE DEF v
    <2>16. v.rv = "next" /\ v.value = A[k].value
      BY <2>1, <2>7, <2>12, <2>14, <2>15 DEF ValueFields
    <2> QED BY <2>16 DEF v, key
  <1> QED BY <1>2, <1>3

\* sqsh_xattr_iterator_next in a list that is laid out.
LEMMA XattrNextAt ==
    ASSUME NEW one \in Archives, NEW A, AttrsHold(one, A), NEW k \in 1..Len(A), NEW x, XPos(one, A, x, k)
    PROVE  LET y == XattrNext(one, x) IN XPos(one, A, y, k + 1) /\ XIsAt(one, A, y, k)
  <1> DEFINE t == one.xattrs
             p == A[k].place
             key == KeyOf(one, A, k)
             named == KeySize + Len(key.name) + ValueSize
             z == KeyLength(key)
             a == Begin(one, x, t, x.next_offset, KeySize, "key")
             b == Extend(one, a, t, named, "key")
             c == Extend(one, b, t, named + key.size, "key")
             v == ValueOf(one, key)
             y == XattrNext(one, x)
  <1>1. /\ key \in KeyItem /\ p \in Nat /\ Len(key.name) \in Nat /\ key.size \in Nat
        /\ z = named + key.size /\ named \in Nat /\ z \in Nat \ {0}
        /\ KeySize <= named /\ named <= z
        /\ Begins(one, t, p, KeySize, "key") /\ Begins(one, t, p, named, "key") /\ Begins(one, t, p, z, "key")
        /\ FullName(key) = A[k].name /\ Prefix(key.type) # <<>>
        /\ Len(A) \in Nat /\ Rest(A, k) \in Nat
        /\ Rest(A, k) = Len(A[k].name) + Len(A[k].value) + 1 + Rest(A, k + 1)
        /\ k < Len(A) => A[k + 1].place = p + z
    BY AttributeFacts
  <1>2. /\ DOMAIN x = XattrFields /\ x.rv = "next" /\ x.next_offset \in Nat
        /\ x.remaining_entries = Len(A) + 1 - k /\ x.remaining_size = Rest(A, k)
        /\ Reaches(t, x.meta, x.next_offset, p, KeySize)
    <2>1. k <= Len(A)
      BY <1>1
    <2> QED BY <2>1 DEF XPos
  <1>3. ~Ended(x) /\ x.remaining_entries # 0
    BY <1>1, <1>2 DEF Ended
  <1>4. v.rv = "next" /\ v.value = A[k].value
    BY ValueHolds
  <1>5. y = KeyShown(one, KeyNamed(one, a))
    BY <1>3 DEF XattrNext
  <1>6. Cut(t) /\ key = Item(one, t, p) /\ KeySize \in Nat \ {0}
    BY KeySizeAssumption DEF AttrsHold, KeyOf
  <1>7. named \in Nat \ {0}
    BY <1>1, <1>6
  <1> HIDE DEF t, p, key, named, z, v, y
  <1>8. Comes(one, t, x, a, p, KeySize)
    <2>1. {"rv", "meta"} \subseteq DOMAIN x
      BY <1>2 DEF XattrFields
    <2> QED BY <1>1, <1>2, <1>3, <1>6, <2>1, BeginComes
  <1> HIDE DEF a
  <1>9. /\ DOMAIN a = XattrFields /\ ~Ended(a) /\ Rests(t, a.meta, p, KeySize) /\ Shown(one, a.meta) = key
        /\ a["rv"] = x["rv"] /\ a["remaining_size"] = x["remaining_size"]
        /\ a["remaining_entries"] = x["remaining_entries"]
    BY <1>2, <1>6, <1>8 DEF Comes, XattrFields
  <1>10. Comes(one, t, a, b, p, named)
    <2>1. {"rv", "meta"} \subseteq DOMAIN a
      BY <1>9 DEF XattrFields
    <2> QED BY <1>1, <1>6, <1>7, <1>9, <2>1, ExtendComes
  <1>11. KeyNamed(one, a) = c
    BY <1>1, <1>9 DEF KeyNamed, b, c, named, t
  <1> HIDE DEF b
  <1>12. /\ DOMAIN b = XattrFields /\ ~Ended(b) /\ Rests(t, b.meta, p, named) /\ Shown(one, b.meta) = key
         /\ b["rv"] = a["rv"] /\ b["remaining_size"] = a["remaining_size"]
         /\ b["remaining_entries"] = a["remaining_entries"]
    BY <1>6, <1>9, <1>10 DEF Comes, XattrFields
  <1>13. Comes(one, t, b, c, p, z)
    <2>1. {"rv", "meta"} \subseteq DOMAIN b
      BY <1>12 DEF XattrFields
    <2>2. c = Extend(one, b, t, z, "key")
      BY <1>1
    <2> HIDE DEF c
    <2> QED BY <1>1, <1>6, <1>12, <2>1, <2>2, ExtendComes
  <1> HIDE DEF c
  <1>14. /\ DOMAIN c = XattrFields /\ ~Ended(c) /\ Rests(t, c.meta, p, z) /\ Shown(one, c.meta) = key
         /\ c["rv"] = b["rv"] /\ c["remaining_size"] = b["remaining_size"]
         /\ c["remaining_entries"] = b["remaining_entries"]
    BY <1>6, <1>12, <1>13 DEF Comes, XattrFields
  <1>15. y = Valued(c, key, v)
    BY <1>5, <1>11, <1>14 DEF KeyShown, v
  <1> DEFINE processed == Len(FullName(key)) + Len(v.value) + 1
             l == k + 1
  <1>16. Rest(A, l) \in Nat /\ Rest(A, k) = processed + Rest(A, l) /\ l <= Len(A) + 1 /\ l - 1 = k
         /\ processed \in Nat
    <2>1. Rest(A, l) \in Nat
      <3>1. CASE l = Len(A) + 1
        BY <3>1 DEF Rest
      <3>2. CASE l \in 1..Len(A)
        <4> HIDE DEF l
        <4> QED BY <3>2, AttributeFacts
      <3> QED BY <1>1, <3>1, <3>2
    <2>2. Len(FullName(key)) = Len(A[k].name) /\ Len(v.value) = Len(A[k].value)
      BY <1>1, <1>4
    <2>3. processed \in Nat
      <3>1. Len(FullName(key)) \in Nat
        <4>1. FullName(key) \in Seq(Nat)
          <5>1. key.name \in Seq(Nat) /\ key.type \in {"security", "trusted", "user"}
            BY <1>1 DEF KeyItem
          <5>2. Prefix(key.type) \in Seq(Nat)
            BY <5>1 DEF Prefix
          <5> QED BY <5>1, <5>2 DEF FullName
        <4> QED BY <4>1
      <3>2. Len(v.value) \in Nat
        <4>1. v.value \in Seq(Nat)
          <5>1. key.indirect \in BOOLEAN /\ key.value \in Seq(Nat)
            BY <1>1 DEF KeyItem
          <5>2. CASE ~key.indirect
            BY <5>1, <5>2 DEF ValueOf, v
          <5>3. CASE key.indirect
            <6>1. AttributeLaidOut(one, A, k)
              BY DEF AttrsHold
            <6> DEFINE s == A[k].shared
                       item == Item(one, one.xattrs, s)
            <6>2. Begins(one, one.xattrs, s, ValueSize, "value") /\ item.value = A[k].value
              BY <5>3, <6>1 DEF AttributeLaidOut, KeyOf, key
            <6>3. item \in ValueItem
              <7> HIDE DEF s
              <7> QED BY <6>2, ItemKinds
            <6>4. item.value \in Seq(Nat)
              BY <6>3 DEF ValueItem
            <6> QED BY <1>4, <6>2, <6>4
          <5> QED BY <5>1, <5>2, <5>3
        <4> QED BY <4>1
      <3> QED BY <3>1, <3>2
    <2> HIDE DEF l
    <2>4. Rest(A, k) = processed + Rest(A, l)
      BY <1>1, <2>2 DEF l
    <2>5. l <= Len(A) + 1 /\ l - 1 = k
      BY <1>1 DEF l
    <2> QED BY <2>1, <2>3, <2>4, <2>5
  <1> HIDE DEF processed, l
  <1>17. y = [c EXCEPT !.key = key, !.value = v.value, !.remaining_entries = @ - 1,
                       !.next_offset = named + key.size, !.remaining_size = @ - processed]
    <2>1. ~(v.rv # "next" \/ processed > c.remaining_size)
      <3>1. c.remaining_size = Rest(A, k)
        BY <1>2, <1>9, <1>12, <1>14
      <3> QED BY <1>4, <1>16, <3>1
    <2> QED BY <1>15, <2>1 DEF Valued, processed, named
  <1>18. /\ DOMAIN y = XattrFields /\ y.rv = "next" /\ y.meta = c.meta /\ y.key = key /\ y.value = v.value
         /\ y.next_offset = z /\ y.remaining_entries = x.remaining_entries - 1
         /\ y.remaining_size = x.remaining_size - processed
    BY <1>1, <1>2, <1>9, <1>12, <1>14, <1>17 DEF XattrFields
  <1>19. y.remaining_entries = Len(A) + 1 - l /\ y.remaining_size = Rest(A, l)
    <2>1. k \in Nat /\ Len(A) \in Nat /\ l - 1 = k /\ l = k + 1
      BY <1>1 DEF l
    <2>2. y.remaining_entries = Len(A) + 1 - k - 1
      BY <1>2, <1>18
    <2>3. y.remaining_size = Rest(A, k) - processed
      BY <1>2, <1>18
    <2>4. y.remaining_entries = Len(A) + 1 - l
      BY <2>1, <2>2
    <2>5. y.remaining_size = Rest(A, l)
      BY <1>16, <2>3
    <2> QED BY <2>4, <2>5
  <1>20. l <= Len(A) => Reaches(t, y.meta, y.next_offset, A[l].place, KeySize)
    <2> SUFFICES ASSUME l <= Len(A) PROVE Reaches(t, y.meta, z, A[l].place, KeySize)
      BY <1>18
    <2>1. A[l].place = p + z
      <3>1. k < Len(A)
        BY <1>1 DEF l
      <3> QED BY <1>1, <3>1 DEF l
    <2>2. Rests(t, y.meta, p, z) /\ p \in Nat /\ z \in Nat /\ z >= z
      BY <1>1, <1>14, <1>18
    <2> QED BY <2>1, <2>2 DEF Reaches
  <1>21. XPos(one, A, y, l)
    BY <1>1, <1>18, <1>19, <1>20 DEF XPos, t
  <1>22. XIsAt(one, A, y, k)
    BY <1>4, <1>18 DEF XIsAt, key
  <1> QED BY <1>21, <1>22 DEF l, y

LEMMA XattrNextEnds ==
    ASSUME NEW one \in Archives, NEW A, AttrsHold(one, A), NEW x, XPos(one, A, x, Len(A) + 1)
    PROVE  XattrNext(one, x).rv = "end"
  <1>1. Len(A) \in Nat
    BY DEF AttrsHold, IsSequence
  <1>2. DOMAIN x = XattrFields /\ x.rv = "next" /\ x.remaining_entries = 0 /\ x.remaining_size = 0
    BY <1>1 DEF XPos, Rest
  <1>3. XattrNext(one, x) = [x EXCEPT !.rv = "end"]
    BY <1>2 DEF XattrNext, Ended
  <1> QED BY <1>2, <1>3 DEF XattrFields

-----------------------------------------------------------------------------
(* The attributes of a file *)

AttrsOf(one, ref) == one.tree[ref].attrs
NoAttrs(one, inode) == ~inode.extended \/ inode.xattr = 0 \/ one.xattr_count = 0
IdsOf(one, inode) == Item(one, one.xattr_ids.blocks, (inode.xattr - 1) * XattrIdSize)

LEMMA AttrsOfFile ==
    ASSUME NEW one \in Archives, LaidOut(one), NEW ref \in DOMAIN one.tree
    PROVE  /\ AttrsHold(one, AttrsOf(one, ref)) /\ Len(AttrsOf(one, ref)) \in Nat
           /\ NoAttrs(one, InodeOf(one, ref)) => Len(AttrsOf(one, ref)) = 0
  <1> DEFINE A == AttrsOf(one, ref)
             inode == InodeOf(one, ref)
  <1>1. Cut(one.xattrs) /\ AttributesLaidOut(one, ref)
    BY DEF LaidOut
  <1>2. /\ IsSequence(A) /\ (NoAttrs(one, inode) => A = <<>>)
        /\ ~NoAttrs(one, inode) => \A k \in 1..Len(A) : AttributeLaidOut(one, A, k)
    BY <1>1 DEF AttributesLaidOut, AttrsOf, NoAttrs
  <1>3. Len(A) \in Nat
    BY <1>2 DEF IsSequence
  <1>4. NoAttrs(one, inode) => Len(A) = 0
    BY <1>2
  <1>5. \A k \in 1..Len(A) : AttributeLaidOut(one, A, k)
    <2> HIDE DEF A, inode
    <2>1. Len(A) = 0 => 1..Len(A) = {}
      OBVIOUS
    <2> QED BY <1>2, <1>4, <2>1
  <1> HIDE DEF A, inode
  <1> QED BY <1>1, <1>2, <1>3, <1>4, <1>5 DEF AttrsHold, A, inode

\* sqsh__xattr_table_get
LEMMA IdsShown ==
    ASSUME NEW one \in Archives, LaidOut(one), NEW ref \in DOMAIN one.tree, ~NoAttrs(one, InodeOf(one, ref))
    PROVE  LET inode == InodeOf(one, ref)
               A == AttrsOf(one, ref)
               ids == IdsOf(one, inode)
               m == TableGet(XattrTable(one), inode.xattr - 1)
           IN  /\ MetaOk(m) /\ Shown(one, m) = ids /\ ids.offset \in Nat /\ ids.count = Len(A)
               /\ Len(A) = 0 => ids.size = 0
               /\ Len(A) # 0 => ids.size = A[1].rest /\ Leads(one.xattrs, ids.start, ids.offset, A[1].place)
  <1> DEFINE inode == InodeOf(one, ref)
             A == AttrsOf(one, ref)
             ids == IdsOf(one, inode)
             index == inode.xattr - 1
             m == TableGet(XattrTable(one), index)
  <1>1. ElementsLaidOut(one, one.xattr_ids, XattrIdSize, one.xattr_count, "xattr_id") /\ AttributesLaidOut(one, ref)
    BY DEF LaidOut
  <1>2. /\ inode.xattr <= one.xattr_count /\ ids.count = Len(A)
        /\ IF Len(A) = 0 THEN ids.size = 0
           ELSE ids.size = A[1].rest /\ Leads(one.xattrs, ids.start, ids.offset, A[1].place)
    BY <1>1 DEF AttributesLaidOut, AttrsOf, NoAttrs, IdsOf
  <1>3. inode \in InodeItem /\ inode.xattr # 0
    BY InodeFacts DEF NoAttrs
  <1>4. inode.xattr \in Nat /\ one.xattr_count \in Nat
    BY <1>1, <1>3 DEF InodeItem, ElementsLaidOut
  <1>5. index \in 0..(one.xattr_count - 1)
    <2> HIDE DEF inode
    <2> QED BY <1>2, <1>3, <1>4
  <1> DEFINE t == one.xattr_ids.blocks
             p == index * XattrIdSize
  <1>6. ids = Item(one, t, p)
    BY DEF IdsOf
  <1> HIDE DEF index, ids
  <1>7. MetaOk(m) /\ Shown(one, m) = ids
    BY <1>1, <1>5, <1>6, XattrIdSizeAssumption, TableShows DEF XattrTable
  <1>8. Begins(one, t, p, XattrIdSize, "xattr_id")
    BY <1>1, <1>5 DEF ElementsLaidOut
  <1> HIDE DEF t, p
  <1>9. ids \in XattrIdItem
    BY <1>6, <1>8, ItemKinds
  <1>10. ids.offset \in Nat
    BY <1>9 DEF XattrIdItem
  <1> QED BY <1>2, <1>7, <1>10 DEF ids, index

\* sqsh__xattr_iterator_init
LEMMA FreshXattrsAt ==
    ASSUME NEW one \in Archives, LaidOut(one), NEW ref \in DOMAIN one.tree, NEW file, file.inode = InodeOf(one, ref)
    PROVE  LET x == FreshXattrs(one, file)
           IN  XPos(one, AttrsOf(one, ref), x, 1)
  <1> DEFINE A == AttrsOf(one, ref)
             inode == InodeOf(one, ref)
             ids == IdsOf(one, inode)
             m == TableGet(XattrTable(one), inode.xattr - 1)
             x == FreshXattrs(one, file)
             y == [NoAttributes EXCEPT !.meta = m]
             n == Len(A)
  <1>1. AttrsHold(one, A) /\ n \in Nat /\ (NoAttrs(one, inode) => n = 0)
    BY AttrsOfFile
  <1>2. CASE NoAttrs(one, inode)
    <2>1. x = NoAttributes
      <3>1. file.inode = inode
        OBVIOUS
      <3> HIDE DEF inode
      <3> QED BY <1>2, <3>1 DEF NoAttrs, FreshXattrs
    <2> HIDE DEF x, A, inode
    <2>2. /\ DOMAIN x = XattrFields /\ x.rv = "next" /\ x.next_offset = 0
          /\ x.remaining_entries = 0 /\ x.remaining_size = 0
      BY <2>1 DEF NoAttributes, XattrFields
    <2>3. n = 0
      BY <1>1, <1>2
    <2>4. Len(A) + 1 - 1 = 0 /\ Rest(A, 1) = 0 /\ ~(1 <= Len(A))
      BY <2>3 DEF Rest
    <2> QED BY <2>2, <2>4 DEF XPos, x, A
  <1>3. CASE ~NoAttrs(one, inode)
    <2>1. /\ MetaOk(m) /\ Shown(one, m) = ids /\ ids.offset \in Nat /\ ids.count = n
          /\ n = 0 => ids.size = 0
          /\ n # 0 => ids.size = A[1].rest /\ Leads(one.xattrs, ids.start, ids.offset, A[1].place)
      BY <1>3, IdsShown
    <2>2. x = AttributesShown(one, Checked(y))
      <3>1. file.inode = inode
        OBVIOUS
      <3> HIDE DEF inode
      <3> QED BY <1>3, <3>1 DEF NoAttrs, FreshXattrs
    <2> HIDE DEF x, A, inode, m, ids, n
    <2>3. DOMAIN y = XattrFields /\ y.rv = "next" /\ y.meta = m
      BY DEF NoAttributes, XattrFields
    <2> HIDE DEF y
    <2>4. Checked(y) = y /\ ~Ended(y)
      BY <2>1, <2>3 DEF Checked, Ended
    <2>5. x = AttributesAt(y, ids)
      BY <2>1, <2>2, <2>3, <2>4 DEF AttributesShown
    <2>6. /\ DOMAIN x = XattrFields /\ x.rv = "next" /\ x.next_offset = ids.offset
          /\ x.remaining_entries = n /\ x.remaining_size = ids.size /\ x.meta = FreshMetaReader(ids.start)
      BY <2>1, <2>3, <2>5 DEF AttributesAt, XattrFields
    <2>7. ids.size = Rest(A, 1)
      <3>1. n = 0 <=> 1 = Len(A) + 1
        BY <1>1 DEF n
      <3> QED BY <2>1, <3>1 DEF Rest
    <2>8. 1 <= n => Reaches(one.xattrs, x.meta, x.next_offset, A[1].place, KeySize)
      <3> SUFFICES ASSUME 1 <= n PROVE Reaches(one.xattrs, x.meta, x.next_offset, A[1].place, KeySize)
        OBVIOUS
      <3> DEFINE p == A[1].place
                 t == one.xattrs
      <3>1. n # 0 /\ 1 \in 1..n
        BY <1>1
      <3>2. /\ BlockOf(p) \in 1..Len(t) /\ t[BlockOf(p)].address = ids.start /\ ids.offset = p % MetaSize
        BY <2>1, <3>1 DEF Leads
      <3>3. p \in Nat
        <4>1. 1 \in 1..Len(A)
          BY <3>1 DEF n
        <4> QED BY <1>1, <4>1, AttributeFacts
      <3> HIDE DEF p, t
      <3>4. p = Start(BlockOf(p)) + (p % MetaSize)
        BY <3>3, BlockOfPlace
      <3>5. Reaches(t, x.meta, x.next_offset, p, KeySize)
        BY <2>6, <3>2, <3>4 DEF Reaches
      <3> QED BY <3>5 DEF p, t
    <2>9. n = Len(A) + 1 - 1
      BY <1>1 DEF n
    <2> QED BY <2>1, <2>6, <2>7, <2>8, <2>9 DEF XPos, x, A, n
  <1> QED BY <1>2, <1>3

-----------------------------------------------------------------------------
(* The names of the attributes *)

NamesOf(A, j) == [i \in 1..j |-> A[i].name]

\* The turns of the loop over the attributes, one by one.
NamesBy(one, x, n, g) ==
    /\ g[0] = [x |-> XattrNext(one, x), names |-> <<>>]
    /\ XattrNames(one, x) = [rv |-> g[n + 1].x.rv, names |-> g[n + 1].names]
    /\ \A k \in 1..(n + 1) : g[k] = NamesTurn(one, g[k - 1])

\* Every listing of the names takes these turns.
LEMMA NamesTurns ==
    ASSUME NEW one, NEW x, x.remaining_entries \in Nat
    PROVE  \E g : NamesBy(one, x, x.remaining_entries, g)
  <1> DEFINE n == x.remaining_entries + 1
             l == [x |-> XattrNext(one, x), names |-> <<>>]
             G(m, g) == g = [k \in 0..m |-> IF k = 0 THEN l ELSE NamesTurn(one, g[k - 1])]
             S == {m \in Nat : \E g : G(m, g)}
  <1>1. 0 \in S
    <2> DEFINE g == [k \in 0..0 |-> l]
    <2> HIDE DEF l
    <2>1. G(0, g)
      OBVIOUS
    <2> QED BY <2>1
  <1>2. ASSUME NEW m \in Nat, m \in S PROVE m + 1 \in S
    <2> HIDE DEF l
    <2>1. PICK g : G(m, g)
      BY <1>2
    <2> DEFINE h == [k \in 0..(m + 1) |-> IF k = m + 1 THEN NamesTurn(one, g[m]) ELSE g[k]]
    <2>2. \A k \in 0..m : g[k] = IF k = 0 THEN l ELSE NamesTurn(one, g[k - 1])
      BY <2>1
    <2>3. \A k \in 0..(m + 1) : h[k] = IF k = 0 THEN l ELSE NamesTurn(one, h[k - 1])
      BY <2>2
    <2>4. h = [k \in 0..(m + 1) |-> h[k]]
      OBVIOUS
    <2> HIDE DEF h
    <2>5. G(m + 1, h)
      BY <2>3, <2>4
    <2> QED BY <2>5
  <1>3. Nat \subseteq S
    <2> HIDE DEF S
    <2> QED BY <1>1, <1>2, EveryNumber
  <1>4. \E g : G(n, g)
    <2>1. n \in Nat
      OBVIOUS
    <2> HIDE DEF n, G
    <2> QED BY <1>3, <2>1 DEF S
  <1> DEFINE f == CHOOSE g : G(n, g)
  <1>5. G(n, f)
    BY <1>4
  <1>6. XattrNames(one, x) = [rv |-> f[n].x.rv, names |-> f[n].names]
    BY DEF XattrNames, Turns
  <1> HIDE DEF f
  <1>7. n \in Nat
    OBVIOUS
  <1> HIDE DEF l
  <1>8. f[0] = l /\ \A k \in 1..n : f[k] = NamesTurn(one, f[k - 1])
    <2> HIDE DEF n
    <2> QED BY <1>5, <1>7
  <1>9. NamesBy(one, x, x.remaining_entries, f)
    BY <1>6, <1>8 DEF l, NamesBy
  <1> QED BY <1>9

LEMMA AttributeNames ==
    ASSUME NEW one \in Archives, NEW A, AttrsHold(one, A), NEW k \in 1..Len(A)
    PROVE  A[k].name \in Seq(Nat) /\ A[k].name = FullName(KeyOf(one, A, k)) /\ KeyOf(one, A, k) \in KeyItem
  <1> DEFINE key == KeyOf(one, A, k)
  <1>1. key \in KeyItem /\ FullName(key) = A[k].name
    BY AttributeFacts
  <1> HIDE DEF key
  <1>2. key.name \in Seq(Nat) /\ key.type \in {"security", "trusted", "user"}
    BY <1>1 DEF KeyItem
  <1>3. Prefix(key.type) \in Seq(Nat)
    BY <1>2 DEF Prefix
  <1>4. FullName(key) \in Seq(Nat)
    BY <1>2, <1>3 DEF FullName
  <1> QED BY <1>1, <1>4 DEF key

LEMMA NameAppended ==
    ASSUME NEW A, NEW j \in Nat, \A i \in 1..(j + 1) : A[i].name \in Seq(Nat)
    PROVE  Append(NamesOf(A, j), A[j + 1].name) = NamesOf(A, j + 1)
  <1> DEFINE F(i) == A[i].name
  <1>1. \A i \in 1..(j + 1) : F(i) \in Seq(Nat)
    OBVIOUS
  <1> HIDE DEF F
  <1> DEFINE s == [i \in 1..j |-> F(i)]
             t == [i \in 1..(j + 1) |-> F(i)]
  <1>2. s \in Seq(Seq(Nat)) /\ Len(s) = j
    BY <1>1
  <1>3. t \in Seq(Seq(Nat)) /\ Len(t) = j + 1
    BY <1>1
  <1>4. F(j + 1) \in Seq(Nat)
    BY <1>1
  <1>5. Append(s, F(j + 1)) = t
    <2> DEFINE y == F(j + 1)
               u == Append(s, y)
    <2> HIDE DEF y
    <2>1. y \in Seq(Nat)
      BY <1>4 DEF y
    <2> DEFINE n == j + 1
    <2>6. n \in Nat /\ n = j + 1
      OBVIOUS
    <2>2. \A i \in 1..n : t[i] = F(i)
      OBVIOUS
    <2>3. \A i \in 1..j : s[i] = F(i)
      OBVIOUS
    <2> HIDE DEF s, t
    <2>4. u \in Seq(Seq(Nat)) /\ Len(u) = n /\ (\A i \in 1..j : u[i] = s[i]) /\ u[n] = y
      BY <1>2, <2>1, <2>6
    <2> HIDE DEF u, n
    <2>5. \A i \in 1..n : u[i] = t[i]
      <3> SUFFICES ASSUME NEW i \in 1..n PROVE u[i] = t[i]
        OBVIOUS
      <3>1. CASE i \in 1..j
        BY <2>2, <2>3, <2>4, <3>1
      <3>2. CASE i = n
        BY <2>2, <2>4, <2>6, <3>2 DEF y
      <3> QED BY <2>6, <3>1, <3>2
    <2>7. Len(t) = n
      BY <1>3, <2>6
    <2>9. u \in Seq(Seq(Nat)) /\ t \in Seq(Seq(Nat)) /\ Len(u) = Len(t)
      BY <1>3, <2>4, <2>7
    <2>10. \A i \in 1..Len(u) : u[i] = t[i]
      BY <2>4, <2>5
    <2> DEFINE T == Seq(Nat)
    <2> HIDE DEF T
    <2>11. u \in Seq(T) /\ t \in Seq(T)
      BY <2>9 DEF T
    <2>8. u = t
      BY <2>9, <2>10, <2>11, SeqEqual
    <2> QED BY <2>8 DEF u, y
  <1>6. s = NamesOf(A, j) /\ t = NamesOf(A, j + 1)
    BY DEF NamesOf, F
  <1> HIDE DEF s, t
  <1> QED BY <1>5, <1>6 DEF F

\* The loop after j names: about to answer the next, or through.
NamesRun(one, A, l, j) ==
    /\ l.names = NamesOf(A, j)
    /\ j < Len(A) => XPos(one, A, l.x, j + 2) /\ XIsAt(one, A, l.x, j + 1)
    /\ j = Len(A) => l.x.rv = "end"

LEMMA NamesRunOn ==
    ASSUME NEW one \in Archives, NEW A, AttrsHold(one, A), NEW l, NEW j \in Nat, j < Len(A), NamesRun(one, A, l, j)
    PROVE  NamesRun(one, A, NamesTurn(one, l), j + 1)
  <1> DEFINE k == j + 1
             x == l.x
             y == XattrNext(one, x)
             m == NamesTurn(one, l)
  <1>1. Len(A) \in Nat /\ k \in 1..Len(A) /\ k + 1 = j + 2
    <2>1. Len(A) \in Nat
      BY DEF AttrsHold, IsSequence
    <2> QED BY <2>1
  <1>2. XPos(one, A, x, k + 1) /\ XIsAt(one, A, x, k) /\ l.names = NamesOf(A, j)
    BY <1>1 DEF NamesRun
  <1>3. x.rv = "next" /\ x.key = KeyOf(one, A, k)
    BY <1>2 DEF XPos, XIsAt
  <1>4. A[k].name = FullName(x.key) /\ \A i \in 1..Len(A) : A[i].name \in Seq(Nat)
    BY <1>1, <1>3, AttributeNames
  <1>5. m = [x |-> y, names |-> Append(l.names, FullName(x.key))]
    BY <1>3 DEF NamesTurn, Ended
  <1>6. Append(NamesOf(A, j), A[j + 1].name) = NamesOf(A, j + 1)
    <2>1. \A i \in 1..(j + 1) : i \in 1..Len(A)
      BY <1>1
    <2> QED BY <1>4, <2>1, NameAppended
  <1> HIDE DEF y, m, x
  <1>7. m.x = y /\ m.names = NamesOf(A, k)
    BY <1>2, <1>4, <1>5, <1>6
  <1>8. CASE k = Len(A)
    <2>1. y.rv = "end"
      <3>1. XPos(one, A, x, Len(A) + 1)
        BY <1>2, <1>8
      <3> QED BY <3>1, XattrNextEnds DEF y
    <2> QED BY <1>7, <1>8, <2>1 DEF NamesRun, m
  <1>9. CASE k # Len(A)
    <2> DEFINE i == k + 1
    <2>1. i \in 1..Len(A) /\ k < Len(A) /\ i + 1 = k + 2
      BY <1>1, <1>9
    <2>2. XPos(one, A, x, i)
      BY <1>2
    <2> HIDE DEF i
    <2>3. XPos(one, A, y, i + 1) /\ XIsAt(one, A, y, i)
      BY <2>1, <2>2, XattrNextAt DEF y
    <2> QED BY <1>7, <1>9, <2>1, <2>3 DEF NamesRun, m, i
  <1> QED BY <1>8, <1>9

\* The names that are answered are those of the attributes, in order.
LEMMA NamesAt ==
    ASSUME NEW one \in Archives, NEW A, AttrsHold(one, A), NEW x, XPos(one, A, x, 1)
    PROVE  XattrNames(one, x) = [rv |-> "end", names |-> NamesOf(A, Len(A))]
  <1> DEFINE n == Len(A)
             y == XattrNext(one, x)
  <1>1. n \in Nat
    BY DEF AttrsHold, IsSequence
  <1>2. x.remaining_entries = n
    BY <1>1 DEF XPos
  <1> HIDE DEF n, y
  <1>20. PICK g : NamesBy(one, x, n, g)
    BY <1>1, <1>2, NamesTurns
  <1>3. /\ g[0] = [x |-> y, names |-> <<>>]
        /\ XattrNames(one, x) = [rv |-> g[n + 1].x.rv, names |-> g[n + 1].names]
        /\ \A k \in 1..(n + 1) : g[k] = NamesTurn(one, g[k - 1])
    BY <1>20 DEF NamesBy, y
  <1> USE DEF n, y
  <1> DEFINE S == {j \in Nat : j <= n => NamesRun(one, A, g[j], j)}
  <1>4. 0 \in S
    <2>1. g[0].x = y /\ g[0].names = <<>>
      BY <1>3
    <2>2. NamesOf(A, 0) = <<>>
      BY DEF NamesOf
    <2>3. CASE n = 0
      <3>1. XPos(one, A, x, Len(A) + 1)
        BY <2>3
      <3>2. y.rv = "end"
        BY <3>1, XattrNextEnds
      <3> QED BY <2>1, <2>2, <2>3, <3>2 DEF NamesRun
    <2>4. CASE n # 0
      <3>1. 1 \in 1..Len(A)
        BY <1>1, <2>4
      <3>2. XPos(one, A, y, 1 + 1) /\ XIsAt(one, A, y, 1)
        BY <3>1, XattrNextAt
      <3>3. XPos(one, A, y, 0 + 2) /\ XIsAt(one, A, y, 0 + 1)
        BY <3>2
      <3> HIDE DEF y
      <3> QED BY <2>1, <2>2, <2>4, <3>3 DEF NamesRun
    <2> QED BY <2>3, <2>4
  <1> HIDE DEF y
  <1>5. ASSUME NEW j \in Nat, j \in S PROVE j + 1 \in S
    <2> SUFFICES ASSUME j + 1 <= n PROVE NamesRun(one, A, g[j + 1], j + 1)
      OBVIOUS
    <2>1. j < n /\ j <= n /\ j + 1 \in 1..(n + 1) /\ (j + 1) - 1 = j
      BY <1>1
    <2>2. NamesRun(one, A, g[j], j)
      BY <1>5, <2>1
    <2>3. NamesRun(one, A, NamesTurn(one, g[j]), j + 1)
      BY <2>1, <2>2, NamesRunOn
    <2>4. g[j + 1] = NamesTurn(one, g[j])
      <3> HIDE DEF n
      <3> QED BY <1>3, <2>1
    <2> QED BY <2>3, <2>4
  <1>6. n \in S
    <2> HIDE DEF S
    <2> QED BY <1>1, <1>4, <1>5, EveryNumber
  <1>7. NamesRun(one, A, g[n], n)
    BY <1>1, <1>6
  <1>8. g[n].x.rv = "end" /\ g[n].names = NamesOf(A, n)
    BY <1>7 DEF NamesRun
  <1>9. g[n + 1] = g[n]
    <2>1. n + 1 \in 1..(n + 1) /\ (n + 1) - 1 = n
      BY <1>1
    <2>2. g[n + 1] = NamesTurn(one, g[n])
      <3> HIDE DEF n
      <3> QED BY <1>3, <2>1
    <2> QED BY <1>8, <2>2 DEF NamesTurn, Ended
  <1> HIDE DEF n
  <1>10. XattrNames(one, x) = [rv |-> "end", names |-> NamesOf(A, n)]
    BY <1>3, <1>8, <1>9
  <1> QED BY <1>10 DEF n

-----------------------------------------------------------------------------
(* Comparing names *)

\* What follows a first character.
LEMMA TailOf ==
    ASSUME NEW name \in Seq(Nat), NEW c \in Nat
    PROVE  LET rest == SubSeq(name, 2, Len(name))
           IN  /\ IsPrefix(<<c>>, name) <=> Len(name) >= 1 /\ name[1] = c
               /\ Len(name) >= 1 => /\ rest \in Seq(Nat) /\ Len(rest) = Len(name) - 1
                                    /\ \A i \in 1..Len(rest) : rest[i] = name[i + 1]
  <1>1. IsPrefix(<<c>>, name) <=> Len(name) >= 1 /\ name[1] = c
    <2> DEFINE u == <<c>>
               v == SubSeq(name, 1, 1)
    <2>2. u \in Seq(Nat) /\ Len(u) = 1 /\ u[1] = c
      OBVIOUS
    <2>3. Len(name) >= 1 => v \in Seq(Nat) /\ Len(v) = 1 /\ v[1] = name[1]
      OBVIOUS
    <2> HIDE DEF u
    <2>1. SubSeq(u, 1, 1) = u
      <3>1. SubSeq(u, 1, 1) \in Seq(Nat) /\ Len(SubSeq(u, 1, 1)) = 1 /\ SubSeq(u, 1, 1)[1] = u[1]
        BY <2>2
      <3>2. \A k \in 1..1 : SubSeq(u, 1, 1)[k] = u[k]
        BY <3>1
      <3> QED BY <2>2, <3>1, <3>2, SeqEqual
    <2>4. IsPrefix(u, name) <=> 1 <= Len(name) /\ u = v
      BY <2>1, <2>2 DEF IsPrefix
    <2> HIDE DEF v
    <2>5. ASSUME 1 <= Len(name), name[1] = c PROVE u = v
      <3>1. \A i \in 1..1 : u[i] = v[i]
        BY <2>2, <2>3, <2>5
      <3> QED BY <2>2, <2>3, <2>5, <3>1, SeqEqual
    <2>6. ASSUME 1 <= Len(name), u = v PROVE name[1] = c
      BY <2>2, <2>3, <2>6
    <2>7. Len(name) \in Nat
      OBVIOUS
    <2>8. Len(name) >= 1 <=> 1 <= Len(name)
      BY <2>7
    <2>9. IsPrefix(u, name) <=> Len(name) >= 1 /\ name[1] = c
      BY <2>4, <2>5, <2>6, <2>8
    <2> QED BY <2>9 DEF u
  <1>2. Len(name) >= 1 => /\ SubSeq(name, 2, Len(name)) \in Seq(Nat)
                          /\ Len(SubSeq(name, 2, Len(name))) = Len(name) - 1
                          /\ \A i \in 1..(Len(name) - 1) : SubSeq(name, 2, Len(name))[i] = name[i + 1]
    <2> DEFINE n == Len(name)
               v == SubSeq(name, 2, n)
    <2> SUFFICES ASSUME n >= 1
                 PROVE  v \in Seq(Nat) /\ Len(v) = n - 1 /\ \A i \in 1..(n - 1) : v[i] = name[i + 1]
      OBVIOUS
    <2>1. n \in Nat /\ 2 \in Int /\ n \in Int /\ \A i \in 2..n : name[i] \in Nat
      OBVIOUS
    <2> HIDE DEF n
    <2>2. /\ v \in Seq(Nat) /\ Len(v) = IF 2 <= n THEN n - 2 + 1 ELSE 0
          /\ \A i \in 1..(n - 2 + 1) : v[i] = name[2 + i - 1]
      BY <2>1, SubSeqProperties
    <2> HIDE DEF v
    <2>3. Len(v) = n - 1
      BY <2>1, <2>2
    <2>4. ASSUME NEW i \in 1..(n - 1) PROVE v[i] = name[i + 1]
      <3>1. i \in 1..(n - 2 + 1) /\ 2 + i - 1 = i + 1
        BY <2>1
      <3>2. v[i] = name[2 + i - 1]
        BY <2>2, <3>1
      <3> QED BY <3>1, <3>2
    <2> QED BY <2>2, <2>3, <2>4
  <1> QED BY <1>1, <1>2

\* A name with a first character in front.
LEMMA HeadOf ==
    ASSUME NEW c \in Nat, NEW s \in Seq(Nat)
    PROVE  LET t == <<c>> \o s
           IN  /\ t \in Seq(Nat) /\ Len(t) = Len(s) + 1 /\ t[1] = c /\ \A i \in 1..Len(s) : t[i + 1] = s[i]
  <1> DEFINE u == <<c>>
             t == u \o s
  <1>1. u \in Seq(Nat) /\ Len(u) = 1 /\ u[1] = c
    OBVIOUS
  <1> HIDE DEF u
  <1> DEFINE n == Len(s)
  <1>2. /\ t \in Seq(Nat) /\ Len(t) = Len(u) + n
        /\ \A i \in 1..(Len(u) + n) : t[i] = IF i <= Len(u) THEN u[i] ELSE s[i - Len(u)]
    BY <1>1, ConcatProperties
  <1>5. n \in Nat
    OBVIOUS
  <1> HIDE DEF t, n
  <1>3. t[1] = c /\ Len(t) = n + 1
    BY <1>1, <1>2, <1>5
  <1>4. \A i \in 1..n : t[i + 1] = s[i]
    <2> SUFFICES ASSUME NEW i \in 1..n PROVE t[i + 1] = s[i]
      OBVIOUS
    <2>1. i + 1 \in 1..(1 + n) /\ ~(i + 1 <= 1) /\ (i + 1) - 1 = i
      BY <1>5
    <2>2. t[i + 1] = s[(i + 1) - 1]
      BY <1>1, <1>2, <2>1
    <2> QED BY <2>1, <2>2
  <1>6. t \in Seq(Nat) /\ Len(t) = n + 1 /\ t[1] = c /\ \A i \in 1..n : t[i + 1] = s[i]
    BY <1>2, <1>3, <1>4
  <1> QED BY <1>6 DEF t, u, n

\* sqsh_xattr_iterator_fullname_cmp tells the key's name, and what comes behind it.
LEMMA Compares ==
    ASSUME NEW key \in KeyItem, NEW name \in Seq(Nat)
    PROVE  /\ CompareName(key, name) = "equal" <=> FullName(key) = name
           /\ CompareName(key, name) = "after" => Before(FullName(key), name)
           /\ CompareName(key, name) \in {"equal", "after", "before"}
  <1> DEFINE s == key.name
             rest == SubSeq(name, 2, Len(name))
             full == FullName(key)
             cmp == CompareName(key, name)
  <1>1. s \in Seq(Nat) /\ key.type \in {"security", "trusted", "user"}
    BY DEF KeyItem
  <1>2. PICK c \in Nat : Prefix(key.type) = <<c>>
    BY <1>1 DEF Prefix
  <1>3. full = <<c>> \o s
    BY <1>2 DEF FullName
  <1>4. Len(<<c>>) = 1 /\ 1 + 1 = 2 /\ <<c>>[1] = c
    OBVIOUS
  <1>5. cmp = IF ~IsPrefix(<<c>>, name) THEN IF After(name, <<c>>, 1) THEN "after" ELSE "before"
              ELSE IF Len(rest) # Len(s) THEN "before"
              ELSE IF rest = s THEN "equal" ELSE IF After(rest, s, Len(rest)) THEN "after" ELSE "before"
    <2> DEFINE p == <<c>>
    <2>1. Prefix(key.type) = p /\ Len(p) = 1
      BY <1>2
    <2> HIDE DEF p, s
    <2>2. Len(p) + 1 = 2
      BY <2>1
    <2>3. cmp = CASE ~IsPrefix(p, name) -> IF After(name, p, Len(p)) THEN "after" ELSE "before"
                  [] IsPrefix(p, name) /\ Len(SubSeq(name, Len(p) + 1, Len(name))) # Len(s) -> "before"
                  [] OTHER -> IF SubSeq(name, Len(p) + 1, Len(name)) = s THEN "equal"
                              ELSE IF After(SubSeq(name, Len(p) + 1, Len(name)), s,
                                            Len(SubSeq(name, Len(p) + 1, Len(name))))
                                   THEN "after" ELSE "before"
      BY <2>1 DEF CompareName, s
    <2>4. cmp = CASE ~IsPrefix(p, name) -> IF After(name, p, 1) THEN "after" ELSE "before"
                  [] IsPrefix(p, name) /\ Len(rest) # Len(s) -> "before"
                  [] OTHER -> IF rest = s THEN "equal" ELSE IF After(rest, s, Len(rest)) THEN "after" ELSE "before"
      BY <2>1, <2>2, <2>3
    <2> HIDE DEF rest, cmp
    <2> QED BY <2>4 DEF p
  <1> HIDE DEF s, cmp
  <1>6. full \in Seq(Nat) /\ Len(full) = Len(s) + 1 /\ full[1] = c /\ \A i \in 1..Len(s) : full[i + 1] = s[i]
    <2> HIDE DEF full
    <2> QED BY <1>1, <1>3, HeadOf
  <1> HIDE DEF full
  <1>7. /\ IsPrefix(<<c>>, name) <=> Len(name) >= 1 /\ name[1] = c
        /\ Len(name) >= 1 => /\ rest \in Seq(Nat) /\ Len(rest) = Len(name) - 1
                             /\ \A i \in 1..Len(rest) : rest[i] = name[i + 1]
    BY TailOf
  <1> HIDE DEF rest
  <1>8. Len(name) \in Nat /\ Len(s) \in Nat
    BY <1>1
  <1>9. ASSUME IsPrefix(<<c>>, name), Len(rest) = Len(s), rest = s PROVE full = name
    <2>1. Len(full) = Len(name)
      BY <1>6, <1>7, <1>8, <1>9
    <2>2. \A i \in 1..Len(name) : full[i] = name[i]
      <3> SUFFICES ASSUME NEW i \in 1..Len(name) PROVE full[i] = name[i]
        OBVIOUS
      <3>1. CASE i = 1
        BY <1>6, <1>7, <1>9, <3>1
      <3>2. CASE i # 1
        <4> DEFINE k == i - 1
        <4>1. k \in 1..Len(s) /\ k + 1 = i
          BY <1>7, <1>8, <1>9, <3>2
        <4> HIDE DEF k
        <4>2. full[k + 1] = s[k] /\ rest[k] = name[k + 1]
          BY <1>6, <1>7, <1>9, <4>1
        <4>3. full[k + 1] = name[k + 1]
          BY <1>9, <4>2
        <4> QED BY <4>1, <4>3
      <3> QED BY <3>1, <3>2
    <2> QED BY <1>6, <2>1, <2>2, SeqEqual
  <1>10. ASSUME full = name PROVE IsPrefix(<<c>>, name) /\ Len(rest) = Len(s) /\ rest = s
    <2>1. Len(name) >= 1 /\ name[1] = c /\ Len(name) = Len(s) + 1
      BY <1>6, <1>8, <1>10
    <2>2. rest \in Seq(Nat) /\ Len(rest) = Len(s) /\ \A i \in 1..Len(rest) : rest[i] = name[i + 1]
      BY <1>7, <1>8, <2>1
    <2>3. \A i \in 1..Len(s) : rest[i] = s[i]
      BY <1>6, <1>10, <2>2
    <2>4. rest = s
      BY <1>1, <2>2, <2>3, SeqEqual
    <2> QED BY <1>7, <2>1, <2>2, <2>4
  <1>11. cmp = "equal" <=> full = name
    <2>1. cmp = "equal" => IsPrefix(<<c>>, name) /\ Len(rest) = Len(s) /\ rest = s
      BY <1>5
    <2>2. IsPrefix(<<c>>, name) /\ Len(rest) = Len(s) /\ rest = s => cmp = "equal"
      BY <1>5
    <2> QED BY <1>9, <1>10, <2>1, <2>2
  <1>12. ASSUME ~IsPrefix(<<c>>, name), After(name, <<c>>, 1) PROVE Before(full, name)
    <2>1. 1 <= Len(name) /\ name[1] > c
      <3>1. PICK k \in 1..1 : k <= Len(name) /\ (k > Len(<<c>>) \/ name[k] > <<c>>[k])
        BY <1>12 DEF After
      <3>2. k = 1
        BY <3>1
      <3> QED BY <1>4, <3>1, <3>2
    <2>2. 1 \in 1..Len(full) /\ full[1] < name[1] /\ \A i \in 1..(1 - 1) : full[i] = name[i]
      BY <1>6, <1>8, <2>1
    <2> QED BY <1>6, <2>1, <2>2, BeforeByCharacter
  <1>13. ASSUME IsPrefix(<<c>>, name), Len(rest) = Len(s), After(rest, s, Len(rest)) PROVE Before(full, name)
    <2>1. PICK k \in 1..Len(rest) : /\ k <= Len(rest) /\ SubSeq(rest, 1, k - 1) = SubSeq(s, 1, k - 1)
                                    /\ k > Len(s) \/ rest[k] > s[k]
      BY <1>13 DEF After
    <2>2. /\ Len(name) >= 1 /\ name[1] = c /\ rest \in Seq(Nat) /\ Len(name) = Len(s) + 1
          /\ k \in 1..Len(s) /\ rest[k] > s[k] /\ \A i \in 1..Len(s) : rest[i] = name[i + 1]
      BY <1>7, <1>8, <1>13, <2>1
    <2>3. \A i \in 1..(k - 1) : rest[i] = s[i]
      <3> SUFFICES ASSUME NEW i \in 1..(k - 1) PROVE rest[i] = s[i]
        OBVIOUS
      <3>1. SubSeq(rest, 1, k - 1)[i] = rest[i] /\ SubSeq(s, 1, k - 1)[i] = s[i]
        <4>1. k - 1 \in 0..Len(s) /\ k - 1 \in 0..Len(rest)
          BY <1>8, <1>13, <2>2
        <4>2. SubSeq(rest, 1, k - 1)[i] = rest[i]
          BY <2>2, <4>1
        <4>3. SubSeq(s, 1, k - 1)[i] = s[i]
          BY <1>1, <4>1
        <4> QED BY <4>2, <4>3
      <3> QED BY <2>1, <3>1
    <2> DEFINE l == k + 1
    <2>4. l \in 1..Len(full) /\ l <= Len(name) /\ l - 1 = k
      BY <1>6, <1>8, <2>2
    <2>5. full[l] = s[k] /\ name[l] = rest[k] /\ s[k] \in Nat /\ rest[k] \in Nat
      <3>1. k \in 1..Len(rest)
        BY <1>13, <2>2
      <3>2. full[l] = s[k] /\ name[l] = rest[k]
        BY <1>6, <2>2
      <3>3. rest[k] \in Nat
        <4> HIDE DEF l
        <4>1. rest \in Seq(Nat)
          BY <2>2
        <4> QED BY <3>1, <4>1, ElementOfSeq
      <3>4. s[k] \in Nat
        <4>1. k \in 1..Len(s)
          BY <2>2
        <4> HIDE DEF l
        <4> QED BY <1>1, <4>1, ElementOfSeq
      <3> QED BY <3>2, <3>3, <3>4
    <2>6. full[l] < name[l]
      BY <2>2, <2>5
    <2>7. \A i \in 1..(l - 1) : full[i] = name[i]
      <3> SUFFICES ASSUME NEW i \in 1..k PROVE full[i] = name[i]
        BY <2>4
      <3>1. CASE i = 1
        BY <1>6, <2>2, <3>1
      <3>2. CASE i # 1
        <4> DEFINE j == i - 1
        <4>1. j \in 1..(k - 1) /\ j \in 1..Len(s) /\ j + 1 = i
          BY <1>8, <2>2, <3>2
        <4> HIDE DEF j
        <4>2. full[j + 1] = s[j] /\ rest[j] = name[j + 1] /\ rest[j] = s[j]
          BY <1>6, <2>2, <2>3, <4>1
        <4>3. full[j + 1] = name[j + 1]
          BY <4>2
        <4> QED BY <4>1, <4>3
      <3> QED BY <3>1, <3>2
    <2> HIDE DEF l
    <2> QED BY <1>6, <2>4, <2>6, <2>7, BeforeByCharacter
  <1>14. cmp = "after" => Before(full, name)
    <2>1. cmp = "after" => \/ ~IsPrefix(<<c>>, name) /\ After(name, <<c>>, 1)
                           \/ IsPrefix(<<c>>, name) /\ Len(rest) = Len(s) /\ After(rest, s, Len(rest))
      BY <1>5
    <2> QED BY <1>12, <1>13, <2>1
  <1>15. cmp \in {"equal", "after", "before"}
    BY <1>5
  <1> QED BY <1>11, <1>14, <1>15 DEF full, cmp

-----------------------------------------------------------------------------
(* Looking an attribute up *)

LEMMA XattrTurns ==
    ASSUME NEW one, NEW x, NEW name, x.remaining_entries \in Nat
    PROVE  \E g : /\ g[0] = x /\ FindXattr(one, x, name) = g[x.remaining_entries + 2]
                  /\ \A k \in 1..(x.remaining_entries + 2) : g[k] = XattrTurn(one, g[k - 1], name)
  <1> DEFINE n == x.remaining_entries + 2
             G(m, g) == g = [k \in 0..m |-> IF k = 0 THEN x ELSE XattrTurn(one, g[k - 1], name)]
             S == {m \in Nat : \E g : G(m, g)}
  <1>1. 0 \in S
    <2> DEFINE g == [k \in 0..0 |-> x]
    <2>1. G(0, g)
      OBVIOUS
    <2> QED BY <2>1
  <1>2. ASSUME NEW m \in Nat, m \in S PROVE m + 1 \in S
    <2>1. PICK g : G(m, g)
      BY <1>2
    <2> DEFINE h == [k \in 0..(m + 1) |-> IF k = m + 1 THEN XattrTurn(one, g[m], name) ELSE g[k]]
    <2>2. \A k \in 0..m : g[k] = IF k = 0 THEN x ELSE XattrTurn(one, g[k - 1], name)
      BY <2>1
    <2>3. \A k \in 0..(m + 1) : h[k] = IF k = 0 THEN x ELSE XattrTurn(one, h[k - 1], name)
      BY <2>2
    <2>4. h = [k \in 0..(m + 1) |-> h[k]]
      OBVIOUS
    <2> HIDE DEF h
    <2>5. G(m + 1, h)
      BY <2>3, <2>4
    <2> QED BY <2>5
  <1>3. Nat \subseteq S
    <2> HIDE DEF S
    <2> QED BY <1>1, <1>2, EveryNumber
  <1>4. \E g : G(n, g)
    <2>1. n \in Nat
      OBVIOUS
    <2> HIDE DEF n, G
    <2> QED BY <1>3, <2>1 DEF S
  <1> DEFINE f == CHOOSE g : G(n, g)
  <1>5. G(n, f)
    BY <1>4
  <1>6. FindXattr(one, x, name) = f[n]
    BY DEF FindXattr, Turns
  <1> HIDE DEF f
  <1>7. n \in Nat
    OBVIOUS
  <1>8. f[0] = x /\ \A k \in 1..n : f[k] = XattrTurn(one, f[k - 1], name)
    <2> HIDE DEF n
    <2> QED BY <1>5, <1>7
  <1> QED BY <1>6, <1>8

Descending(A) == \A j, k \in 1..Len(A) : j < k => Before(A[k].name, A[j].name)

\* The search is over: no attribute has the name, as far as they descend, or one that has it is shown.
XOver(one, A, y, name) ==
    \/ y.rv = "end" /\ (Descending(A) => \A i \in 1..Len(A) : A[i].name # name)
    \/ y.rv = "next" /\ \E k \in 1..Len(A) : A[k].name = name /\ XIsAt(one, A, y, k)

\* The search has come to attribute k, past others.
XRuns(one, A, y, name, k) ==
    /\ k \in 1..Len(A) /\ XPos(one, A, y, k + 1) /\ XIsAt(one, A, y, k)
    /\ \A i \in 1..(k - 1) : A[i].name # name

\* The attribute behind the first k.
LEMMA XattrGoesOn ==
    ASSUME NEW one \in Archives, NEW A, AttrsHold(one, A), NEW name, NEW x, NEW k \in 1..(Len(A) + 1),
           XPos(one, A, x, k), \A i \in 1..(k - 1) : A[i].name # name
    PROVE  LET y == XattrNext(one, x) IN XOver(one, A, y, name) \/ XRuns(one, A, y, name, k)
  <1> DEFINE y == XattrNext(one, x)
  <1>1. Len(A) \in Nat
    BY DEF AttrsHold, IsSequence
  <1>2. CASE k = Len(A) + 1
    <2>1. y.rv = "end"
      BY <1>2, XattrNextEnds
    <2>2. \A i \in 1..Len(A) : i \in 1..(k - 1)
      BY <1>1, <1>2
    <2> HIDE DEF y
    <2> QED BY <2>1, <2>2 DEF XOver, y
  <1>3. CASE k # Len(A) + 1
    <2>1. k \in 1..Len(A)
      BY <1>1, <1>3
    <2>2. XPos(one, A, y, k + 1) /\ XIsAt(one, A, y, k)
      BY <2>1, XattrNextAt
    <2> HIDE DEF y
    <2> QED BY <2>1, <2>2 DEF XRuns, y
  <1> QED BY <1>2, <1>3

LEMMA XattrTurnAt ==
    ASSUME NEW one \in Archives, NEW A, AttrsHold(one, A), NEW name \in Seq(Nat), NEW y
    PROVE  LET z == XattrTurn(one, y, name)
           IN  /\ XOver(one, A, y, name) => XOver(one, A, z, name)
               /\ \A k : XRuns(one, A, y, name, k) => XOver(one, A, z, name) \/ XRuns(one, A, z, name, k + 1)
  <1> DEFINE z == XattrTurn(one, y, name)
  <1>1. Len(A) \in Nat
    BY DEF AttrsHold, IsSequence
  <1>2. ASSUME NEW k \in 1..Len(A), XIsAt(one, A, y, k)
        PROVE  /\ CompareName(y.key, name) = "equal" <=> A[k].name = name
               /\ CompareName(y.key, name) = "after" => Before(A[k].name, name)
    <2>1. y.key = KeyOf(one, A, k) /\ KeyOf(one, A, k) \in KeyItem /\ A[k].name = FullName(KeyOf(one, A, k))
      BY <1>2, AttributeNames DEF XIsAt
    <2> DEFINE key == KeyOf(one, A, k)
    <2> HIDE DEF key
    <2>2. y.key = key /\ key \in KeyItem /\ A[k].name = FullName(key)
      BY <2>1 DEF key
    <2>3. /\ CompareName(key, name) = "equal" <=> FullName(key) = name
          /\ CompareName(key, name) = "after" => Before(FullName(key), name)
      BY <2>2, Compares
    <2> QED BY <2>2, <2>3
  <1>3. ASSUME XOver(one, A, y, name) PROVE XOver(one, A, z, name)
    <2>1. CASE y.rv = "end"
      <3>1. z = y
        BY <2>1 DEF XattrTurn, Ended
      <3> QED BY <1>3, <3>1
    <2>2. CASE y.rv = "next" /\ \E k \in 1..Len(A) : A[k].name = name /\ XIsAt(one, A, y, k)
      <3>1. CompareName(y.key, name) = "equal"
        BY <1>2, <2>2
      <3>2. z = y
        BY <2>2, <3>1 DEF XattrTurn, Ended
      <3> QED BY <1>3, <3>2
    <2> QED BY <1>3, <2>1, <2>2 DEF XOver
  <1>4. ASSUME NEW k, XRuns(one, A, y, name, k)
        PROVE  XOver(one, A, z, name) \/ XRuns(one, A, z, name, k + 1)
    <2>1. /\ k \in 1..Len(A) /\ XPos(one, A, y, k + 1) /\ XIsAt(one, A, y, k)
          /\ \A i \in 1..(k - 1) : A[i].name # name
      BY <1>4 DEF XRuns
    <2>2. DOMAIN y = XattrFields /\ y.rv = "next"
      BY <2>1 DEF XPos
    <2>3. /\ CompareName(y.key, name) = "equal" <=> A[k].name = name
          /\ CompareName(y.key, name) = "after" => Before(A[k].name, name)
      BY <1>2, <2>1
    <2>4. CASE CompareName(y.key, name) = "equal"
      <3>1. z = y
        BY <2>2, <2>4 DEF XattrTurn, Ended
      <3> HIDE DEF z
      <3> QED BY <2>1, <2>2, <2>3, <2>4, <3>1 DEF XOver
    <2>5. CASE CompareName(y.key, name) = "after"
      <3>1. z = [y EXCEPT !.rv = "end"]
        BY <2>2, <2>5 DEF XattrTurn, Ended
      <3>2. z.rv = "end"
        BY <2>2, <3>1 DEF XattrFields
      <3>3. ASSUME Descending(A), NEW i \in 1..Len(A) PROVE A[i].name # name
        <4>1. Before(A[k].name, name) /\ ~(A[k].name = name)
          BY <2>3, <2>5
        <4>2. A[i].name \in Seq(Nat) /\ A[k].name \in Seq(Nat)
          BY <2>1, AttributeNames
        <4>3. CASE i \in 1..(k - 1)
          BY <2>1, <4>3
        <4>4. CASE i = k
          BY <4>1, <4>4
        <4>5. CASE k < i
          <5>1. Before(A[i].name, A[k].name)
            BY <2>1, <3>3, <4>5 DEF Descending
          <5>2. Before(A[i].name, name)
            BY <4>1, <4>2, <5>1, BeforeTransitive
          <5> QED BY <4>2, <5>2, BeforeIrreflexive
        <4>6. i \in 1..(k - 1) \/ i = k \/ k < i
          BY <1>1, <2>1
        <4> QED BY <4>3, <4>4, <4>5, <4>6
      <3> HIDE DEF z
      <3> QED BY <3>2, <3>3 DEF XOver
    <2>6. CASE CompareName(y.key, name) \notin {"equal", "after"}
      <3> DEFINE l == k + 1
      <3>1. z = XattrNext(one, y)
        BY <2>2, <2>6 DEF XattrTurn, Ended
      <3>2. l \in 1..(Len(A) + 1) /\ l - 1 = k
        BY <1>1, <2>1
      <3>3. \A i \in 1..(l - 1) : A[i].name # name
        <4>1. A[k].name # name
          BY <2>3, <2>6
        <4>2. \A i \in 1..k : i \in 1..(k - 1) \/ i = k
          BY <2>1
        <4> QED BY <2>1, <3>2, <4>1, <4>2
      <3>4. XPos(one, A, y, l)
        BY <2>1
      <3> HIDE DEF l, z
      <3>5. XOver(one, A, z, name) \/ XRuns(one, A, z, name, l)
        BY <3>1, <3>2, <3>3, <3>4, XattrGoesOn
      <3> QED BY <3>5 DEF l
    <2> QED BY <2>4, <2>5, <2>6
  <1> HIDE DEF z
  <1>5. \A k : XRuns(one, A, y, name, k) => XOver(one, A, z, name) \/ XRuns(one, A, z, name, k + 1)
    BY <1>4
  <1> QED BY <1>3, <1>5 DEF z

-----------------------------------------------------------------------------
\* sqsh_xattr_iterator_lookup finds the value of a name that an attribute has; that none has it, it
\* tells where the names descend.
LEMMA XattrFinds ==
    ASSUME NEW one \in Archives, NEW A, AttrsHold(one, A), NEW name \in Seq(Nat), NEW x, XPos(one, A, x, 1)
    PROVE  XOver(one, A, XattrLookup(one, x, name), name)
  <1> DEFINE y == XattrNext(one, x)
             z == XattrLookup(one, x, name)
             m == y.remaining_entries
  <1>1. Len(A) \in Nat
    BY DEF AttrsHold, IsSequence
  <1>2. XOver(one, A, y, name) \/ XRuns(one, A, y, name, 1)
    <2>1. 1 \in 1..(Len(A) + 1) /\ \A i \in 1..(1 - 1) : A[i].name # name
      BY <1>1
    <2> QED BY <2>1, XattrGoesOn
  <1>3. m \in Nat /\ m + 3 > Len(A)
    <2>1. CASE Len(A) = 0
      <3>1. DOMAIN x = XattrFields /\ x.rv = "next" /\ x.remaining_entries = 0 /\ x.remaining_size = 0
        BY <2>1 DEF XPos, Rest
      <3>2. y = [x EXCEPT !.rv = "end"]
        BY <3>1 DEF XattrNext, Ended
      <3>3. m = 0
        BY <3>1, <3>2 DEF XattrFields
      <3> QED BY <2>1, <3>3
    <2>2. CASE Len(A) # 0
      <3>1. 1 \in 1..Len(A)
        BY <1>1, <2>2
      <3>2. XPos(one, A, y, 1 + 1)
        BY <3>1, XattrNextAt
      <3> HIDE DEF y
      <3>3. m = Len(A) + 1 - (1 + 1)
        BY <3>2 DEF XPos
      <3> QED BY <1>1, <2>2, <3>3
    <2> QED BY <2>1, <2>2
  <1>4. z = FindXattr(one, y, name)
    BY DEF XattrLookup
  <1> HIDE DEF y, z
  <1>5. PICK g : /\ g[0] = y /\ z = g[m + 2]
                 /\ \A k \in 1..(m + 2) : g[k] = XattrTurn(one, g[k - 1], name)
    <2>1. y.remaining_entries \in Nat
      BY <1>3
    <2> QED BY <1>4, <2>1, XattrTurns
  <1> DEFINE n == m + 2
             P(j) == j <= n => XOver(one, A, g[j], name) \/ XRuns(one, A, g[j], name, j + 1)
             S == {j \in Nat : P(j)}
  <1>6. n \in Nat /\ n + 1 > Len(A) /\ z = g[n] /\ \A k \in 1..n : g[k] = XattrTurn(one, g[k - 1], name)
    BY <1>1, <1>3, <1>5
  <1> HIDE DEF m, n
  <1>7. 0 \in S
    BY <1>2, <1>5
  <1>8. ASSUME NEW j \in Nat, j \in S PROVE j + 1 \in S
    <2>1. SUFFICES ASSUME j + 1 <= n
                   PROVE  XOver(one, A, g[j + 1], name) \/ XRuns(one, A, g[j + 1], name, j + 1 + 1)
      OBVIOUS
    <2>2. g[j + 1] = XattrTurn(one, g[j], name)
      <3>1. j + 1 \in 1..n /\ j + 1 - 1 = j
        BY <1>6, <2>1
      <3> QED BY <1>6, <3>1
    <2>3. XOver(one, A, g[j], name) \/ XRuns(one, A, g[j], name, j + 1)
      BY <1>6, <1>8, <2>1
    <2> DEFINE u == g[j]
               w == g[j + 1]
               i == j + 1
    <2> HIDE DEF u, w, i, S
    <2>4. w = XattrTurn(one, u, name) /\ (XOver(one, A, u, name) \/ XRuns(one, A, u, name, i))
      BY <2>2, <2>3 DEF u, w, i
    <2>5. /\ XOver(one, A, u, name) => XOver(one, A, XattrTurn(one, u, name), name)
          /\ \A k : XRuns(one, A, u, name, k)
                => XOver(one, A, XattrTurn(one, u, name), name)
                   \/ XRuns(one, A, XattrTurn(one, u, name), name, k + 1)
      BY XattrTurnAt
    <2>6. XOver(one, A, w, name) \/ XRuns(one, A, w, name, i + 1)
      BY <2>4, <2>5
    <2> QED BY <2>6 DEF w, i
  <1>9. n \in S
    <2> HIDE DEF S
    <2> QED BY <1>6, <1>7, <1>8, EveryNumber
  <1>10. ~XRuns(one, A, g[n], name, n + 1)
    <2>1. n + 1 \notin 1..Len(A)
      BY <1>1, <1>6
    <2> QED BY <2>1 DEF XRuns
  <1>11. XOver(one, A, g[n], name)
    <2>1. n <= n
      BY <1>6
    <2> QED BY <1>9, <1>10, <2>1
  <1>12. XOver(one, A, z, name)
    BY <1>6, <1>11
  <1> QED BY <1>12 DEF z

-----------------------------------------------------------------------------
(* Inodes of a sound archive *)

\* What a writer of archives sees to: every inode has a number of its own, with which the export
\* table, if there is one, leads to it; its bytes and its ids are found where its reference says;
\* and the entries of a directory lead to inodes.
TablesHold(one) ==
    /\ DOMAIN one.tree \subseteq Nat \X Nat
    /\ one.root \in DOMAIN one.tree
    /\ \A r, q \in DOMAIN one.tree : one.tree[r].number = one.tree[q].number => r = q
    /\ \A ref \in DOMAIN one.tree :
          LET file == InodeRead(one, ref)
              held == one.tree[ref]
          IN  /\ file.rv = "ok" /\ file.inode.number = held.number /\ file.inode.type = held.type
              /\ SizeOf(file.inode) = held.size /\ HardLinks(file.inode) = held.links
              /\ GetId(one, file.inode.uid) = held.owner[1]
              /\ GetId(one, file.inode.gid) = held.owner[2]
              /\ held.number \in 1..one.inode_count
              /\ one.exported => Exported(one, held.number) = ref
              /\ held.type = "directory" =>
                    \A name \in Names :
                        LET d == DirectoryLookup(one, file, FreshDirectory(file), name)
                        IN  Ended(d) \/ EntryRef(d) \in DOMAIN one.tree

\* The tables of an archive that is laid out lead to what its tree says.
LEMMA LaidOutHolds ==
    ASSUME NEW one \in Archives, LaidOut(one)
    PROVE  TablesHold(one)
  <1> SUFFICES ASSUME NEW ref \in DOMAIN one.tree
               PROVE  LET file == InodeRead(one, ref)
                          held == one.tree[ref]
                      IN  /\ file.rv = "ok" /\ file.inode.number = held.number /\ file.inode.type = held.type
                          /\ SizeOf(file.inode) = held.size /\ HardLinks(file.inode) = held.links
                          /\ GetId(one, file.inode.uid) = held.owner[1]
                          /\ GetId(one, file.inode.gid) = held.owner[2]
                          /\ held.number \in 1..one.inode_count
                          /\ one.exported => Exported(one, held.number) = ref
                          /\ held.type = "directory" =>
                                \A name \in Names :
                                    LET d == DirectoryLookup(one, file, FreshDirectory(file), name)
                                    IN  Ended(d) \/ EntryRef(d) \in DOMAIN one.tree
    BY DEF TablesHold, LaidOut
  <1> DEFINE file == InodeRead(one, ref)
             held == one.tree[ref]
             inode == InodeOf(one, ref)
  <1>1. file.rv = "ok" /\ file.inode = inode
    BY InodeReads
  <1>2. /\ held.type = inode.type /\ held.size = SizeOf(inode) /\ held.links = HardLinks(inode)
        /\ inode.uid < one.id_count /\ inode.gid < one.id_count
        /\ held.owner = <<IdOf(one, inode.uid), IdOf(one, inode.gid)>>
        /\ held.number = inode.number /\ held.number \in 1..one.inode_count
        /\ one.exported => Item(one, one.export.blocks, (held.number - 1) * ExportSize).ref = ref
    <2>1. InodeLaidOut(one, ref)
      BY DEF LaidOut
    <2> QED BY <2>1 DEF InodeLaidOut
  <1>3. inode.uid \in Nat /\ inode.gid \in Nat
    <2>1. inode \in InodeItem
      BY InodeFacts
    <2> HIDE DEF inode
    <2> QED BY <2>1 DEF InodeItem
  <1>4. held.type = "directory" =>
            \A name \in Names :
                LET d == DirectoryLookup(one, file, FreshDirectory(file), name)
                IN  Ended(d) \/ EntryRef(d) \in DOMAIN one.tree
    <2> SUFFICES ASSUME held.type = "directory", NEW name \in Names
                 PROVE  LET d == DirectoryLookup(one, file, FreshDirectory(file), name)
                        IN  Ended(d) \/ EntryRef(d) \in DOMAIN one.tree
      OBVIOUS
    <2> DEFINE L == held.listing
               d == DirectoryLookup(one, file, FreshDirectory(file), name)
    <2>1. d.rv \in {"error", "end"} \/ \E k \in 1..Len(L) : EntryRef(d) = L[k].ref
      BY LookupFinds
    <2>2. \A k \in 1..Len(L) : L[k].ref \in DOMAIN one.tree
      BY ListingOf DEF ListingHolds, EntryLaidOut
    <2> HIDE DEF d, L
    <2>3. Ended(d) \/ EntryRef(d) \in DOMAIN one.tree
      BY <2>1, <2>2 DEF Ended
    <2> QED BY <2>3 DEF d
  <1> HIDE DEF file, held, inode
  <1>5. GetId(one, inode.uid) = IdOf(one, inode.uid) /\ GetId(one, inode.gid) = IdOf(one, inode.gid)
    BY <1>2, <1>3, IdsHold
  <1>6. one.exported => Exported(one, held.number) = ref
    BY <1>2, ExportHolds
  <1>7. /\ file.inode.number = held.number /\ file.inode.type = held.type
        /\ SizeOf(file.inode) = held.size /\ HardLinks(file.inode) = held.links
        /\ GetId(one, file.inode.uid) = held.owner[1]
        /\ GetId(one, file.inode.gid) = held.owner[2]
    BY <1>1, <1>2, <1>5
  <1> QED BY <1>1, <1>2, <1>4, <1>6, <1>7 DEF file, held

\* An inode map that holds nothing but inodes, each by its number.
Fits(one, m) ==
    /\ DOMAIN m = 1..one.inode_count
    /\ \A n \in 1..one.inode_count :
          m[n] = NoRef \/ (m[n] \in DOMAIN one.tree /\ one.tree[m[n]].number = n)

\* What is in a map is in another, too.
Keeps(one, m, later) == \A n : MapGet(one, m, n) # NoRef => MapGet(one, later, n) = MapGet(one, m, n)

LEMMA RefIsNoNull == ASSUME NEW one, TablesHold(one), NEW ref \in DOMAIN one.tree PROVE ref # NoRef
  BY NoRefAssumption DEF TablesHold

\* An inode that is read is the one that its reference names.
LEMMA InodeReadRef ==
    ASSUME NEW one, NEW ref
    PROVE  InodeRead(one, ref).ref = ref
  <1> DEFINE file == [rv |-> "ok", meta |-> FreshMetaReader(ref[1]), inode |-> NoItem, ref |-> ref]
             Fields == {"rv", "meta", "inode", "ref"}
             Same(f) == DOMAIN f = Fields /\ f.ref = ref
  <1>1. \A f, table, offset, size, kind : Same(f) => Same(Begin(one, f, table, offset, size, kind))
    <2> SUFFICES ASSUME NEW f, NEW table, NEW offset, NEW size, NEW kind, Same(f)
                 PROVE  Same(Begin(one, f, table, offset, size, kind))
      OBVIOUS
    <2> DEFINE b == Begin(one, f, table, offset, size, kind)
    <2>1. {"rv", "meta"} \subseteq DOMAIN f /\ "ref" \in DOMAIN f \ {"rv", "meta"}
      OBVIOUS
    <2>2. DOMAIN b = DOMAIN f /\ \A x \in DOMAIN f \ {"rv", "meta"} : b[x] = f[x]
      BY <2>1, BeginKeeps
    <2> HIDE DEF b
    <2>3. b["ref"] = f["ref"]
      BY <2>1, <2>2
    <2>4. Same(b)
      BY <2>2, <2>3
    <2> QED BY <2>4 DEF b
  <1>2. Same(file)
    OBVIOUS
  <1>3. \A f : Same(f) => Same(Fails(f))
    BY DEF Fails
  <1>4. \A f : Same(f) => Same(InodeFields(one, f))
    <2> SUFFICES ASSUME NEW f, Same(f) PROVE Same(InodeFields(one, f))
      OBVIOUS
    <2> DEFINE inode == Shown(one, f.meta)
               g == Extend(one, f, one.inodes, InodeHeader + TypeSize(inode), "inode")
               h == Extend(one, g, one.inodes, InodeHeader + TypeSize(inode) + PayloadSize(inode), "inode")
    <2>1. InodeFields(one, f) \in {f, Fails(f), h}
      BY DEF InodeFields
    <2> HIDE DEF inode, Same
    <2>2. Same(g)
      BY <1>1 DEF Extend
    <2> HIDE DEF g
    <2>3. Same(h)
      BY <1>1, <2>2 DEF Extend
    <2> QED BY <1>3, <2>1, <2>3
  <1>5. \A f : Same(f) => Same(InodeShown(one, f))
    BY DEF InodeShown
  <1>6. InodeRead(one, ref) = InodeShown(one, InodeFields(one,
            Begin(one, file, one.inodes, ref[2], InodeHeader, "inode")))
    BY DEF InodeRead
  <1> HIDE DEF file, Same
  <1>7. Same(InodeRead(one, ref))
    BY <1>1, <1>2, <1>4, <1>5, <1>6
  <1> QED BY <1>7 DEF Same

\* sqsh_inode_map_set2 with an inode of the archive.
LEMMA EnteredFits ==
    ASSUME NEW one, one.inode_count \in Nat, TablesHold(one), NEW m, Fits(one, m), NEW ref \in DOMAIN one.tree,
           NEW memory
    PROVE  LET n == one.tree[ref].number
               set == MapSet(one, m, n, ref, memory)
           IN  /\ set.ok /\ Fits(one, set.map) /\ Keeps(one, m, set.map)
               /\ MapGet(one, set.map, n) \in {NoRef, ref} /\ (memory => MapGet(one, set.map, n) = ref)
  <1> DEFINE n == one.tree[ref].number
             set == MapSet(one, m, n, ref, memory)
             e == [m EXCEPT ![n] = ref]
  <1>1. n \in 1..one.inode_count /\ (one.exported => Exported(one, n) = ref)
    BY DEF TablesHold
  <1>2. ref # NoRef
    BY RefIsNoNull
  <1>3. \A r \in DOMAIN one.tree : one.tree[r].number = n => r = ref
    BY DEF TablesHold
  <1>4. one.tree[ref].number = n
    OBVIOUS
  <1> HIDE DEF n
  <1>5. CASE one.exported
    <2>1. set = [map |-> m, ok |-> Exported(one, n) = ref]
      BY <1>1, <1>5 DEF MapSet
    <2> HIDE DEF set
    <2>2. set.ok /\ set.map = m
      BY <1>1, <1>5, <2>1
    <2>3. MapGet(one, m, n) = ref
      BY <1>1, <1>5 DEF MapGet
    <2> QED BY <2>2, <2>3 DEF Keeps, set, n
  <1>6. CASE ~one.exported
    <2> DEFINE later == IF memory \/ HasBlock(m, n) THEN e ELSE m
    <2>1. set = [map |-> later, ok |-> m[n] \in {NoRef, ref}]
      BY <1>1, <1>6 DEF MapSet
    <2>2. m[n] \in {NoRef, ref}
      BY <1>1, <1>3 DEF Fits
    <2>3. /\ DOMAIN e = 1..one.inode_count /\ e[n] = ref
          /\ \A k \in 1..one.inode_count : k # n => e[k] = m[k]
      BY <1>1 DEF Fits
    <2>4. later \in {e, m} /\ (memory => later = e)
      OBVIOUS
    <2> HIDE DEF set, e, later
    <2>5. set.ok /\ set.map = later
      BY <2>1, <2>2
    <2>6. Fits(one, e)
      BY <1>4, <2>3 DEF Fits
    <2>7. \A k, x : MapGet(one, x, k) = IF k \in 1..one.inode_count THEN x[k] ELSE NoRef
      BY <1>6 DEF MapGet
    <2>8. Keeps(one, m, e) /\ Keeps(one, m, m)
      BY <2>2, <2>3, <2>7 DEF Keeps
    <2>9. MapGet(one, e, n) = ref /\ MapGet(one, m, n) \in {NoRef, ref}
      BY <1>1, <2>2, <2>3, <2>7
    <2> QED BY <2>4, <2>5, <2>6, <2>8, <2>9 DEF set, n
  <1> QED BY <1>5, <1>6

\* sqsh_open_by_ref of an inode of the archive.
LEMMA OpenedFits ==
    ASSUME NEW one, one.inode_count \in Nat, TablesHold(one), NEW m, Fits(one, m), NEW ref \in DOMAIN one.tree,
           NEW memory
    PROVE  LET f == Opened(one, m, ref, memory)
           IN  f.file = InodeRead(one, ref) /\ Fits(one, f.map) /\ Keeps(one, m, f.map)
  <1> DEFINE file == InodeRead(one, ref)
             f == Opened(one, m, ref, memory)
             set == MapSet(one, m, file.inode.number, file.ref, memory)
  <1>1. file.rv = "ok" /\ file.inode.number = one.tree[ref].number /\ file.ref = ref
    BY InodeReadRef DEF TablesHold
  <1>2. f = InMap(one, m, file, memory)
    BY DEF Opened
  <1>3. set.ok /\ Fits(one, set.map) /\ Keeps(one, m, set.map)
    <2> DEFINE entered == MapSet(one, m, one.tree[ref].number, ref, memory)
    <2>1. entered.ok /\ Fits(one, entered.map) /\ Keeps(one, m, entered.map)
      BY EnteredFits
    <2>2. set = entered
      BY <1>1
    <2> HIDE DEF set, entered
    <2> QED BY <2>1, <2>2
  <1> HIDE DEF file
  <1>4. f = Registered(file, set)
    BY <1>1, <1>2 DEF InMap
  <1> HIDE DEF set, f
  <1>5. f.file = file /\ f.map = set.map
    BY <1>3, <1>4 DEF Registered
  <1>6. f.file = file /\ Fits(one, f.map) /\ Keeps(one, m, f.map)
    BY <1>3, <1>5
  <1> QED BY <1>6 DEF f, file

\* What the kernel knows of a sound archive is in it, and can be asked for or is lost.
Known(ino, ref) ==
    /\ ref \in DOMAIN archive.tree /\ (RefOf(ino) = ref \/ Lost(ino))
    /\ IF ino = FuseRoot THEN ref = archive.root ELSE ino = ToIno(archive.tree[ref].number)

KnownResolve ==
    /\ archive \in Archives
    /\ archive.sound =>
          /\ Fits(archive, map) /\ InodeAnswered
          /\ FuseRoot \in DOMAIN known
          /\ \A ino \in DOMAIN known : Known(ino, known[ino])

\* The number that an inode of the kernel stands for.
LEMMA KnownNumber ==
    ASSUME archive.inode_count \in Nat, TablesHold(archive), NEW ino, NEW ref, Known(ino, ref), ino # FuseRoot
    PROVE  FromIno(ino) = archive.tree[ref].number
  <1> DEFINE n == archive.tree[ref].number
  <1>1. n \in 1..archive.inode_count /\ ino = ToIno(n)
    BY DEF Known, TablesHold
  <1> HIDE DEF n
  <1>2. FromIno(ino) = n
    BY <1>1 DEF ToIno, FromIno
  <1> QED BY <1>2 DEF n

\* What is known stays known when the map grows, and what is lost never stands for another file.
LEMMA KnownKept ==
    ASSUME archive.inode_count \in Nat, TablesHold(archive), archive' = archive, scarce' = scarce,
           Fits(archive, map'), Keeps(archive, map, map'), NEW ino, NEW ref, Known(ino, ref)
    PROVE  Known(ino, ref)' /\ (~Lost(ino) => ~Lost(ino)')
  <1>1. ref # NoRef
    BY RefIsNoNull DEF Known
  <1>2. CASE ~Lost(ino)
    <2>1. RefOf(ino) = ref
      BY <1>2 DEF Known
    <2>2. RefOf(ino)' = ref
      BY <1>1, <2>1 DEF RefOf, Keeps
    <2> QED BY <1>1, <2>2 DEF Known, Lost
  <1>3. CASE Lost(ino)
    <2>1. ino # FuseRoot
      BY <1>1, <1>3 DEF Known, Lost, RefOf
    <2> DEFINE n == archive.tree[ref].number
    <2>2. FromIno(ino) = n
      BY <2>1, KnownNumber
    <2>3. /\ n \in 1..archive.inode_count /\ (archive.exported => Exported(archive, n) = ref)
          /\ \A r \in DOMAIN archive.tree : archive.tree[r].number = n => r = ref
      BY DEF TablesHold, Known
    <2> HIDE DEF n
    <2>4. MapGet(archive, map', n) \in {NoRef, ref}
      BY <2>3 DEF MapGet, Fits
    <2>5. RefOf(ino)' \in {NoRef, ref}
      BY <2>1, <2>2, <2>4 DEF RefOf
    <2> QED BY <1>3, <2>5 DEF Known, Lost
  <1> QED BY <1>2, <1>3

\* Opening an inode that the kernel knows, and one that is lost.
LEMMA KnownOpens ==
    ASSUME KnownResolve, archive.sound, TablesHold(archive), NEW ino \in DOMAIN known, ~Lost(ino), NEW memory
    PROVE  LET f == FileOpen(ino, memory)
           IN  f.file = InodeRead(archive, known[ino]) /\ Fits(archive, f.map) /\ Keeps(archive, map, f.map)
  <1> DEFINE ref == known[ino]
  <1>1. ref \in DOMAIN archive.tree /\ RefOf(ino) = ref
    BY DEF KnownResolve, Known
  <1>2. ref # NoRef
    BY <1>1, RefIsNoNull
  <1>3. FileOpen(ino, memory) = Opened(archive, map, ref, memory)
    BY <1>1, <1>2 DEF FileOpen, OpenedRef
  <1>4. archive.inode_count \in Nat /\ Fits(archive, map)
    BY ArchivesAssumption DEF KnownResolve
  <1> HIDE DEF ref
  <1>5. LET f == Opened(archive, map, ref, memory)
        IN  f.file = InodeRead(archive, ref) /\ Fits(archive, f.map) /\ Keeps(archive, map, f.map)
    BY <1>1, <1>4, OpenedFits
  <1> QED BY <1>3, <1>5 DEF ref

\* Whatever is asked about an inode whose file cannot be opened is refused.
LEMMA NotOpened ==
    ASSUME NEW ino, NEW f, f.file.rv = "error", Asked(ino, f)
    PROVE  /\ map' = f.map /\ known' = known /\ handle' = handle
           /\ last'.ino = ino /\ last'.rv = "EIO"
  <1>1. \A op, a, v : Answer(op, ino, a, "EIO", v).ino = ino /\ Answer(op, ino, a, "EIO", v).rv = "EIO"
    BY DEF Answer
  <1>2. f.file.rv # "ok"
    OBVIOUS
  <1>3. CASE GetAttr(ino, f) \/ Access(ino, f) \/ OpenFile(ino, f) \/ ReadLink(ino, f)
    <2>1. CASE GetAttr(ino, f)
      BY <1>1, <1>2, <2>1 DEF GetAttr
    <2>2. CASE Access(ino, f)
      BY <1>1, <1>2, <2>2 DEF Access
    <2>3. CASE OpenFile(ino, f)
      BY <1>1, <1>2, <2>3 DEF OpenFile
    <2>4. CASE ReadLink(ino, f)
      BY <1>1, <1>2, <2>4 DEF ReadLink
    <2> QED BY <1>3, <2>1, <2>2, <2>3, <2>4
  <1>4. ASSUME NEW size, ListXattr(ino, f, size)
        PROVE  /\ map' = f.map /\ known' = known /\ handle' = handle
               /\ last'.ino = ino /\ last'.rv = "EIO"
    BY <1>1, <1>2, <1>4 DEF ListXattr
  <1>5. ASSUME NEW size, NEW name, GetXattr(ino, f, name, size)
        PROVE  /\ map' = f.map /\ known' = known /\ handle' = handle
               /\ last'.ino = ino /\ last'.rv = "EIO"
    BY <1>1, <1>2, <1>5 DEF GetXattr
  <1>6. ASSUME NEW name, NEW again, Lookup(ino, f, name, again)
        PROVE  /\ map' = f.map /\ known' = known /\ handle' = handle
               /\ last'.ino = ino /\ last'.rv = "EIO"
    BY <1>1, <1>2, <1>6 DEF Lookup, LookupFails
  <1>7. ASSUME NEW h, OpenDir(ino, f, h)
        PROVE  /\ map' = f.map /\ known' = known /\ handle' = handle
               /\ last'.ino = ino /\ last'.rv = "EIO"
    BY <1>1, <1>2, <1>7 DEF OpenDir, OpenDirFails
  <1> QED BY <1>3, <1>4, <1>5, <1>6, <1>7 DEF Asked

LEMMA LostAsked ==
    ASSUME archive' = archive, scarce' = scarce, NEW ino, Lost(ino), NEW memory, Asked(ino, FileOpen(ino, memory))
    PROVE  /\ map' = map /\ known' = known /\ handle' = handle
           /\ last'.ino = ino /\ Lost(ino)' /\ Refused'
  <1> DEFINE f == FileOpen(ino, memory)
  <1>1. f.file.rv = "error" /\ f.map = map
    BY DEF Lost, FileOpen, OpenedRef
  <1> HIDE DEF f
  <1>2. map' = f.map /\ known' = known /\ handle' = handle /\ last'.ino = ino /\ last'.rv = "EIO"
    BY <1>1, NotOpened DEF f
  <1>3. Lost(ino)'
    BY <1>1, <1>2 DEF Lost, RefOf
  <1>4. Lost(last.ino)'
    BY <1>2, <1>3 DEF Lost, RefOf
  <1> QED BY <1>1, <1>2, <1>3, <1>4 DEF Refused

\* What a request that tells the kernel of nothing new leaves as it is.
LEMMA KnownUnchanged ==
    ASSUME KnownResolve, archive.sound, TablesHold(archive), archive' = archive, scarce' = scarce, known' = known,
           Fits(archive, map'), Keeps(archive, map, map'), InodeAnswered'
    PROVE  KnownResolve'
  <1>0. archive.inode_count \in Nat
    BY ArchivesAssumption DEF KnownResolve
  <1>1. \A ino \in DOMAIN known : Known(ino, known[ino])'
    <2> SUFFICES ASSUME NEW ino \in DOMAIN known PROVE Known(ino, known[ino])'
      OBVIOUS
    <2>1. Known(ino, known[ino])
      BY DEF KnownResolve
    <2>2. \A ref : Known(ino, ref) => Known(ino, ref)'
      BY <1>0, KnownKept
    <2> DEFINE ref == known[ino]
    <2>3. ref' = ref
      OBVIOUS
    <2>4. Known(ino, ref)'
      <3> HIDE DEF ref
      <3> QED BY <2>1, <2>2, <2>3 DEF ref
    <2> QED BY <2>4
  <1>2. Fits(archive, map)'
    BY DEF Fits
  <1> QED BY <1>1, <1>2 DEF KnownResolve

\* Nothing is said about other answers.
LEMMA OtherAnswers ==
    ASSUME last'.op \notin {"getattr", "access", "open", "readlink"}
    PROVE  InodeAnswered'
  BY DEF InodeAnswered

\* fs_getattr, fs_access, fs_open and fs_readlink answer what the inode holds.
LEMMA InodeAsked ==
    ASSUME KnownResolve, archive.sound, TablesHold(archive), archive' = archive, NEW ino \in DOMAIN known,
           ~Lost(ino), NEW memory,
           LET f == FileOpen(ino, memory)
           IN  GetAttr(ino, f) \/ Access(ino, f) \/ OpenFile(ino, f) \/ ReadLink(ino, f)
    PROVE  InodeFound' /\ last'.ino = ino
  <1> DEFINE f == FileOpen(ino, memory)
             ref == known[ino]
             held == archive.tree[ref]
  <1>1. Known(ino, ref)
    BY DEF KnownResolve
  <1>2. f.file = InodeRead(archive, ref)
    BY KnownOpens
  <1>3. /\ f.file.ref = ref /\ f.file.rv = "ok"
        /\ f.file.inode.number = held.number /\ f.file.inode.type = held.type
        /\ SizeOf(f.file.inode) = held.size /\ HardLinks(f.file.inode) = held.links
        /\ GetId(archive, f.file.inode.uid) = held.owner[1]
        /\ GetId(archive, f.file.inode.gid) = held.owner[2]
    BY <1>1, <1>2, InodeReadRef DEF TablesHold, Known
  <1>4. held = Holds(known[ino])
    BY DEF Holds
  <1> HIDE DEF f
  <1>5. CASE GetAttr(ino, f)
    <2> DEFINE value == CommonGetAttr(f.file)
    <2>1. known' = known /\ last' = Answer("getattr", ino, <<>>, "ok", value)
      BY <1>3, <1>5 DEF GetAttr
    <2>2. /\ value.ref = ref /\ value.type = held.type /\ value.size = held.size /\ value.links = held.links
          /\ value.uid = held.owner[1] /\ value.gid = held.owner[2] /\ value.ino = ToIno(held.number)
      BY <1>3 DEF CommonGetAttr
    <2>3. ino # FuseRoot => ino = ToIno(held.number)
      BY <1>1 DEF Known
    <2> HIDE DEF value, held
    <2>4. last'.op = "getattr" /\ last'.ino = ino /\ last'.rv = "ok" /\ last'.value = value
      BY <2>1 DEF Answer
    <2>5. Holds(known[last.ino])' = held
      BY <1>4, <2>1, <2>4 DEF Holds
    <2>6. /\ last'.rv = "ok" /\ last'.value.ref = known'[last'.ino] /\ last'.value.type = held.type
          /\ last'.value.size = held.size /\ last'.value.links = held.links
          /\ last'.value.uid = held.owner[1] /\ last'.value.gid = held.owner[2]
          /\ (last'.ino # FuseRoot => last'.value.ino = last'.ino)
      BY <2>1, <2>2, <2>3, <2>4
    <2> QED BY <2>4, <2>5, <2>6 DEF InodeFound
  <1>6. CASE Access(ino, f)
    <2>1. PICK rv \in {"ok", "EACCES"} : last' = Answer("access", ino, <<>>, rv, NoRef)
      BY <1>3, <1>6 DEF Access
    <2>2. last'.op = "access" /\ last'.ino = ino /\ last'.rv = rv
      BY <2>1 DEF Answer
    <2> QED BY <2>2 DEF InodeFound
  <1>7. CASE OpenFile(ino, f)
    <2>1. known' = known /\ last' = Answer("open", ino, <<>>, "ok", ref)
      BY <1>3, <1>7 DEF OpenFile
    <2>2. last'.op = "open" /\ last'.ino = ino /\ last'.rv = "ok" /\ last'.value = ref
      BY <2>1 DEF Answer
    <2> QED BY <2>1, <2>2 DEF InodeFound
  <1>8. CASE ReadLink(ino, f)
    <2>1. /\ known' = known
          /\ last' = IF held.type = "symlink" THEN Answer("readlink", ino, <<>>, "ok", ref)
                     ELSE Answer("readlink", ino, <<>>, "EINVAL", NoRef)
      BY <1>3, <1>8 DEF ReadLink
    <2> HIDE DEF held
    <2>2. /\ last'.op = "readlink" /\ last'.ino = ino
          /\ held.type = "symlink" => last'.rv = "ok" /\ last'.value = ref
          /\ held.type # "symlink" => last'.rv = "EINVAL"
      BY <2>1 DEF Answer
    <2>3. Holds(known[last.ino])' = held
      BY <1>4, <2>1, <2>2 DEF Holds
    <2> QED BY <2>1, <2>2, <2>3 DEF InodeFound
  <1> QED BY <1>5, <1>6, <1>7, <1>8 DEF f

\* fs_lookup: the inode that is found is in the archive, and so is what the kernel is told of.
LEMMA LookupResolves ==
    ASSUME KnownResolve, archive.sound, TablesHold(archive), archive' = archive, scarce' = scarce,
           NEW ino \in DOMAIN known, ~Lost(ino), NEW memory, NEW again \in Memory,
           TypeOfIno(ino) = "directory", NEW name \in Names, Lookup(ino, FileOpen(ino, memory), name, again)
    PROVE  KnownResolve'
  <1> DEFINE f == FileOpen(ino, memory)
             d == DirectoryLookup(archive, f.file, FreshDirectory(f.file), name)
             child == Opened(archive, f.map, EntryRef(d), again)
             n == child.file.inode.number
             ref == child.file.ref
             set == MapSet(archive, child.map, n, ref, again)
  <1>1. f.file = InodeRead(archive, known[ino]) /\ Fits(archive, f.map) /\ Keeps(archive, map, f.map)
    BY KnownOpens
  <1>2. f.file.rv = "ok" /\ known[ino] \in DOMAIN archive.tree
    BY <1>1 DEF KnownResolve, Known, TablesHold
  <1>3. archive.inode_count \in Nat
    BY ArchivesAssumption DEF KnownResolve
  <1>4. last'.op = "lookup" /\ InodeAnswered'
    <2>1. \A a, r, v : Answer("lookup", ino, a, r, v).op = "lookup"
      BY DEF Answer
    <2>2. \A m, rv : LookupFails(ino, name, m, rv) => last'.op = "lookup"
      BY <2>1 DEF LookupFails
    <2>3. \A c, x : LookupEntered(ino, name, c, x) => last'.op = "lookup"
      BY <2>1, <2>2 DEF LookupEntered
    <2>4. \A c : LookupOpened(ino, name, c, again) => last'.op = "lookup"
      BY <2>2, <2>3 DEF LookupOpened
    <2>5. \A m, x : LookupFound(ino, name, m, x, again) => last'.op = "lookup"
      BY <2>2, <2>4 DEF LookupFound
    <2>6. last'.op = "lookup"
      BY <2>2, <2>5 DEF Lookup
    <2> QED BY <2>6, OtherAnswers
  <1>5. \/ known' = known /\ map' \in {f.map, child.map, set.map} /\ (Ended(d) => map' = f.map)
        \/ ~Ended(d) /\ map' = set.map /\ known' = Told(ToIno(n), ref)
    <2> HIDE DEF d
    <2>1. CASE Ended(d)
      <3>1. LookupFound(ino, name, f.map, d, again)
        BY <1>2 DEF Lookup, d
      <3> HIDE DEF f
      <3> QED BY <2>1, <3>1 DEF LookupFound, LookupFails, Ended
    <2>2. CASE ~Ended(d)
      <3>1. LookupOpened(ino, name, child, again)
        BY <1>2, <2>2 DEF Lookup, LookupFound, Ended, d
      <3> HIDE DEF child
      <3>2. LookupFails(ino, name, child.map, "EIO") \/ LookupEntered(ino, name, child, set)
        BY <3>1 DEF LookupOpened
      <3> QED BY <2>2, <3>2 DEF LookupFails, LookupEntered
    <2> QED BY <2>1, <2>2
  <1>6. ~Ended(d) => EntryRef(d) \in DOMAIN archive.tree
    <2>1. archive.tree[known[ino]].type = "directory"
      BY DEF TypeOfIno
    <2> QED BY <1>1, <1>2, <2>1 DEF TablesHold
  <1>7. ~Ended(d) => /\ child.file = InodeRead(archive, EntryRef(d))
                     /\ Fits(archive, child.map) /\ Keeps(archive, f.map, child.map)
    <2> HIDE DEF f
    <2> QED BY <1>1, <1>3, <1>6, OpenedFits
  <1>8. ~Ended(d) => ref = EntryRef(d) /\ ref \in DOMAIN archive.tree /\ n = archive.tree[ref].number
    BY <1>6, <1>7, InodeReadRef DEF TablesHold
  <1> HIDE DEF f, d, child, n, ref
  <1>9. ~Ended(d) => /\ Fits(archive, set.map) /\ Keeps(archive, child.map, set.map)
                     /\ MapGet(archive, set.map, n) \in {NoRef, ref}
                     /\ (again => MapGet(archive, set.map, n) = ref)
    <2> SUFFICES ASSUME ~Ended(d)
                 PROVE  /\ Fits(archive, set.map) /\ Keeps(archive, child.map, set.map)
                        /\ MapGet(archive, set.map, n) \in {NoRef, ref}
                        /\ (again => MapGet(archive, set.map, n) = ref)
      OBVIOUS
    <2> DEFINE k == archive.tree[ref].number
               entered == MapSet(archive, child.map, k, ref, again)
    <2>1. /\ Fits(archive, entered.map) /\ Keeps(archive, child.map, entered.map)
          /\ MapGet(archive, entered.map, k) \in {NoRef, ref}
          /\ (again => MapGet(archive, entered.map, k) = ref)
      <3> HIDE DEF set
      <3>1. Fits(archive, child.map) /\ ref \in DOMAIN archive.tree
        BY <1>7, <1>8
      <3> QED BY <1>3, <3>1, EnteredFits
    <2>2. set = entered /\ n = k
      BY <1>8
    <2> HIDE DEF set, entered, k
    <2> QED BY <2>1, <2>2
  <1> HIDE DEF set
  <1>10. Fits(archive, map') /\ Keeps(archive, map, map')
    <2>1. ~Ended(d) => Keeps(archive, map, child.map) /\ Keeps(archive, map, set.map)
      BY <1>1, <1>7, <1>9 DEF Keeps
    <2> QED BY <1>1, <1>5, <1>7, <1>9, <2>1
  <1>11. CASE known' = known
    BY <1>4, <1>10, <1>11, KnownUnchanged
  <1>12. CASE ~Ended(d) /\ map' = set.map /\ known' = Told(ToIno(n), ref)
    <2> PICK k, r : k = n /\ r = ref
      OBVIOUS
    <2>1. k \in 1..archive.inode_count /\ ToIno(k) # FuseRoot /\ FromIno(ToIno(k)) = k
      <3>1. k \in 1..archive.inode_count
        BY <1>8, <1>12 DEF TablesHold
      <3> QED BY <1>3, <3>1 DEF ToIno, FromIno, FuseRoot
    <2>2. /\ DOMAIN known' = {ToIno(k)} \cup DOMAIN known /\ known'[ToIno(k)] = r
          /\ \A i \in DOMAIN known \ {ToIno(k)} : known'[i] = known[i]
      BY <1>12 DEF Told
    <2>3. Known(ToIno(k), r)'
      <3>1. again \/ scarce
        BY DEF Memory
      <3>2. RefOf(ToIno(k))' = MapGet(archive, set.map, n)
        BY <1>12, <2>1 DEF RefOf
      <3>3. RefOf(ToIno(k))' = r \/ Lost(ToIno(k))'
        BY <1>9, <1>12, <3>1, <3>2 DEF Lost
      <3> QED BY <1>8, <1>12, <2>1, <3>3 DEF Known
    <2>4. \A i, q : Known(i, q) => Known(i, q)'
      BY <1>3, <1>10, KnownKept
    <2>5. \A i \in DOMAIN known' : Known(i, known[i])'
      <3> SUFFICES ASSUME NEW i \in DOMAIN known' PROVE Known(i, known[i])'
        OBVIOUS
      <3>1. CASE i = ToIno(k)
        <4> DEFINE q == known[i]
        <4>1. q' = r
          BY <2>2, <3>1
        <4>2. Known(i, q)'
          <5> HIDE DEF q
          <5> QED BY <2>3, <3>1, <4>1
        <4> QED BY <4>2
      <3>2. CASE i # ToIno(k)
        <4>1. i \in DOMAIN known /\ known'[i] = known[i]
          BY <2>2, <3>2
        <4>2. Known(i, known[i])
          BY <4>1 DEF KnownResolve
        <4> DEFINE q == known[i]
        <4>3. q' = q
          BY <4>1
        <4>4. Known(i, q)'
          <5> HIDE DEF q
          <5> QED BY <2>4, <4>2, <4>3 DEF q
        <4> QED BY <4>4
      <3> QED BY <3>1, <3>2
    <2>6. FuseRoot \in DOMAIN known'
      BY <2>2 DEF KnownResolve
    <2>7. Fits(archive, map)'
      BY <1>10 DEF Fits
    <2> QED BY <1>4, <2>5, <2>6, <2>7 DEF KnownResolve
  <1> QED BY <1>5, <1>11, <1>12

\* What the kernel knows can be asked for after any request.
LEMMA RequestResolves ==
    ASSUME KnownResolve, archive.sound, TablesHold(archive), archive' = archive, scarce' = scarce, Request
    PROVE  KnownResolve'
  <1>0. ASSUME NEW ino \in DOMAIN known, Lost(ino), NEW memory \in Memory, Asked(ino, FileOpen(ino, memory))
        PROVE  KnownResolve'
    <2>1. map' = map /\ known' = known /\ Refused'
      BY <1>0, LostAsked
    <2>2. InodeAnswered'
      BY <2>1 DEF InodeAnswered, Refused
    <2>3. Fits(archive, map') /\ Keeps(archive, map, map')
      BY <2>1 DEF KnownResolve, Keeps
    <2> QED BY <2>1, <2>2, <2>3, KnownUnchanged
  <1>1. ASSUME NEW ino \in DOMAIN known, ~Lost(ino), NEW memory \in Memory, Asked(ino, FileOpen(ino, memory))
        PROVE  KnownResolve'
    <2> DEFINE f == FileOpen(ino, memory)
    <2>1. Fits(archive, f.map) /\ Keeps(archive, map, f.map)
      BY <1>1, KnownOpens
    <2>2. CASE GetAttr(ino, f) \/ Access(ino, f) \/ OpenFile(ino, f) \/ ReadLink(ino, f)
      <3>1. InodeFound' /\ last'.ino = ino
        BY <1>1, <2>2, InodeAsked
      <3>2. known' = known /\ map' = f.map
        <4> HIDE DEF f
        <4> QED BY <2>2 DEF GetAttr, Access, OpenFile, ReadLink
      <3> HIDE DEF f
      <3>3. ~Lost(ino)'
        <4>1. archive.inode_count \in Nat
          BY ArchivesAssumption DEF KnownResolve
        <4>2. PICK ref : Known(ino, ref)
          BY DEF KnownResolve
        <4> QED BY <1>1, <2>1, <3>2, <4>1, <4>2, KnownKept
      <3>4. InodeAnswered'
        <4>1. ~Lost(last.ino)'
          BY <3>1, <3>3 DEF Lost, RefOf
        <4> QED BY <3>1, <4>1 DEF InodeAnswered
      <3> QED BY <2>1, <3>2, <3>4, KnownUnchanged
    <2>3. ASSUME NEW size, ListXattr(ino, f, size)
          PROVE  KnownResolve'
      <3>1. \A a, rv, v : Answer("listxattr", ino, a, rv, v).op = "listxattr"
        BY DEF Answer
      <3> HIDE DEF f
      <3>2. known' = known /\ map' = f.map
        BY <2>3 DEF ListXattr
      <3>3. \A l : ListAnswer(ino, size, l).op = "listxattr"
        BY <3>1 DEF ListAnswer, InBuffer
      <3>4. last'.op = "listxattr"
        BY <2>3, <3>1, <3>3 DEF ListXattr
      <3> QED BY <2>1, <3>2, <3>4, KnownUnchanged, OtherAnswers
    <2>4. ASSUME NEW size, NEW name, GetXattr(ino, f, name, size)
          PROVE  KnownResolve'
      <3>1. \A a, rv, v : Answer("getxattr", ino, a, rv, v).op = "getxattr"
        BY DEF Answer
      <3> HIDE DEF f
      <3>2. known' = known /\ map' = f.map
        BY <2>4 DEF GetXattr
      <3>3. \A x : XattrAnswer(ino, name, size, x).op = "getxattr"
        BY <3>1 DEF XattrAnswer, InBuffer
      <3>4. last'.op = "getxattr"
        BY <2>4, <3>1, <3>3 DEF GetXattr
      <3> QED BY <2>1, <3>2, <3>4, KnownUnchanged, OtherAnswers
    <2>5. ASSUME TypeOfIno(ino) = "directory", NEW name \in Names, NEW again \in Memory, Lookup(ino, f, name, again)
          PROVE  KnownResolve'
      BY <1>1, <2>5, LookupResolves
    <2>6. ASSUME NEW h \in Handles, OpenDir(ino, f, h)
          PROVE  KnownResolve'
      <3>1. \A a, rv, v : Answer("opendir", ino, a, rv, v).op = "opendir"
        BY DEF Answer
      <3> HIDE DEF f
      <3>2. known' = known /\ map' = f.map
        BY <2>6 DEF OpenDir
      <3>3. last'.op = "opendir"
        BY <2>6, <3>1 DEF OpenDir, OpenDirIterator, OpenDirFails
      <3> QED BY <2>1, <3>2, <3>3, KnownUnchanged, OtherAnswers
    <2> QED BY <1>1, <2>2, <2>3, <2>4, <2>5, <2>6 DEF Asked
  <1>2. ASSUME (\E h \in Handles : ReadDir(h) \/ ReleaseDir(h)) \/ ReadFails
        PROVE  KnownResolve'
    <2>1. known' = known /\ map' = map
      BY <1>2 DEF ReadDir, ReleaseDir, ReadFails
    <2>2. \A op, ino, a, rv, v : Answer(op, ino, a, rv, v).op = op
      BY DEF Answer
    <2>3. last'.op \notin {"getattr", "access", "open", "readlink"}
      <3>1. \A h, d : ReadDirAnswer(h, d) => last'.op = "readdir"
        BY <2>2 DEF ReadDirAnswer
      <3>2. \A h : ReadDir(h) => last'.op = "readdir"
        BY <3>1 DEF ReadDir
      <3>3. \A h : ReleaseDir(h) => last'.op = "releasedir"
        BY <2>2 DEF ReleaseDir
      <3>4. ReadFails => last'.op = "any"
        BY <2>2 DEF ReadFails
      <3> QED BY <1>2, <3>2, <3>3, <3>4
    <2>4. Fits(archive, map') /\ Keeps(archive, map, map')
      BY <2>1 DEF KnownResolve, Keeps
    <2> QED BY <2>1, <2>3, <2>4, KnownUnchanged, OtherAnswers
  <1> QED BY <1>0, <1>1, <1>2 DEF Request

\* The archive that is mounted, if it is sound, is laid out.
LEMMA MountedLaidOut ==
    ASSUME archive \in Archives, archive.sound
    PROVE  LaidOut(archive) /\ TablesHold(archive)
  BY SoundArchivesAssumption, LaidOutHolds

\* In every state the kernel can ask for what it knows.
LEMMA KnownInvariant == MountSpec => []KnownResolve
  <1>1. MountInit => KnownResolve
    <2> SUFFICES ASSUME MountInit PROVE KnownResolve
      OBVIOUS
    <2>1. archive \in Archives /\ archive.inode_count \in Nat
      BY ArchivesAssumption DEF MountInit
    <2>2. Fits(archive, map)
      BY <2>1 DEF MountInit, EmptyMap, Fits
    <2>3. InodeAnswered
      BY DEF MountInit, NoAnswer, InodeAnswered
    <2>4. archive.sound => Known(FuseRoot, archive.root)
      BY <2>1, MountedLaidOut DEF Known, RefOf, TablesHold
    <2> QED BY <2>1, <2>2, <2>3, <2>4 DEF MountInit, KnownResolve
  <1>2. KnownResolve /\ [MountNext]_mountVars => KnownResolve'
    <2> SUFFICES ASSUME KnownResolve, [MountNext]_mountVars PROVE KnownResolve'
      OBVIOUS
    <2>1. CASE ~archive.sound
      <3>1. archive' = archive
        BY DEF MountNext, mountVars
      <3> QED BY <2>1, <3>1 DEF KnownResolve
    <2>2. CASE archive.sound /\ MountNext
      <3>1. archive' = archive /\ scarce' = scarce /\ TablesHold(archive)
        BY <2>2, MountedLaidOut DEF KnownResolve, MountNext
      <3>2. CASE Request
        BY <2>2, <3>1, <3>2, RequestResolves
      <3>3. CASE Taken
        <4>1. known' = known /\ map' = map /\ last'.op = "none"
          BY <3>3 DEF Taken, NoAnswer
        <4>2. Fits(archive, map') /\ Keeps(archive, map, map')
          BY <2>2, <4>1 DEF KnownResolve, Keeps
        <4> QED BY <2>2, <3>1, <4>1, <4>2, KnownUnchanged, OtherAnswers
      <3> QED BY <2>2, <3>2, <3>3 DEF MountNext
    <2>3. CASE UNCHANGED mountVars
      BY <2>3 DEF mountVars, KnownResolve, Fits, Known, Lost, RefOf, InodeAnswered, InodeFound, Refused, Holds
    <2> QED BY <2>1, <2>2, <2>3
  <1> QED BY <1>1, <1>2, PTL DEF MountSpec

\* A sound archive's inodes resolve for as long as it is mounted: what the kernel was told of is
\* never exchanged in the inode map, and lost only where memory was short, whatever is asked
\* between; what is answered about it is what its inode holds, or the refusal of a lost one
\* (dyn_map_set, export_table_set, sqsh_open_by_ref, fs_common_getattr).
THEOREM InodesResolveAlways == MountSpec => []InodesResolve
  <1>1. KnownResolve => InodesResolve
    BY DEF KnownResolve, InodesResolve, Known
  <1> QED BY <1>1, KnownInvariant, PTL

-----------------------------------------------------------------------------
(* Listings of a sound archive *)

EntryTold(one, L, k) == [name |-> L[k].name, ino |-> ToIno(one.tree[L[k].ref].number)]

\* A handle has answered the first entries of its directory, and its iterator is about to come to
\* the next one.
Follows(x) ==
    LET L == archive.tree[x.dir].listing
        entries == x.listing.entries
        n == Len(entries)
    IN  /\ x.dir \in DOMAIN archive.tree /\ archive.tree[x.dir].type = "directory"
        /\ n <= Len(L) /\ \A k \in 1..n : entries[k] = EntryTold(archive, L, k)
        /\ x.listing.ended => n = Len(L)
        /\ x.iterator.rv = "next" => Pos(archive, L, x.iterator, n + 1)

HandlesFollow == archive.sound => \A h \in Handles : handle[h] = NoDir \/ Follows(handle[h])

\* What is to be answered of a directory.
LEMMA ListedEntries ==
    ASSUME archive \in Archives, LaidOut(archive), NEW ref \in DOMAIN archive.tree,
           archive.tree[ref].type = "directory"
    PROVE  LET L == archive.tree[ref].listing
           IN  /\ Len(L) \in Nat /\ Listed(ref) \in Seq(Entry) /\ Len(Listed(ref)) = Len(L)
               /\ \A k \in 1..Len(L) : Listed(ref)[k] = EntryTold(archive, L, k)
  <1> DEFINE L == archive.tree[ref].listing
             F(k) == EntryTold(archive, L, k)
             s == [k \in 1..Len(L) |-> F(k)]
  <1>1. ListingHolds(archive, L)
    BY ListingOf
  <1>2. Len(L) \in Nat /\ DOMAIN L = 1..Len(L) /\ \A k \in 1..Len(L) : EntryLaidOut(archive, L, k)
    BY <1>1 DEF ListingHolds, IsSequence
  <1>3. \A k \in 1..Len(L) : F(k) \in Entry
    <2> SUFFICES ASSUME NEW k \in 1..Len(L) PROVE F(k) \in Entry
      OBVIOUS
    <2> DEFINE r == L[k].ref
    <2>1. L[k].name \in Name /\ r \in DOMAIN archive.tree
      BY <1>2 DEF EntryLaidOut
    <2> HIDE DEF r
    <2>2. archive.tree[r].number \in Nat
      <3>1. TablesHold(archive) /\ archive.inode_count \in Nat
        BY LaidOutHolds, ArchivesAssumption
      <3> QED BY <2>1, <3>1 DEF TablesHold
    <2> DEFINE n == archive.tree[r].number
    <2> HIDE DEF n
    <2>3. ToIno(n) \in Nat
      BY <2>2 DEF ToIno, n
    <2> QED BY <2>1, <2>3 DEF Entry, EntryTold, r, n
  <1>4. Listed(ref) = s
    BY <1>2 DEF Listed, Holds, EntryTold
  <1> HIDE DEF F
  <1>5. s \in Seq(Entry) /\ Len(s) = Len(L) /\ \A k \in 1..Len(L) : s[k] = F(k)
    BY <1>2, <1>3
  <1> HIDE DEF s
  <1> QED BY <1>2, <1>4, <1>5 DEF F

\* The iterator's last name comes before that of the next entry.
LEMMA FollowsLast ==
    ASSUME archive \in Archives, LaidOut(archive), NEW x, x # NoDir, SafeHandle(x), Follows(x),
           x.iterator.rv = "next"
    PROVE  LET L == archive.tree[x.dir].listing
               k == Len(x.listing.entries) + 1
           IN  k <= Len(L) => x.iterator.last = <<>> \/ Before(x.iterator.last, L[k].name)
  <1> DEFINE L == archive.tree[x.dir].listing
             entries == x.listing.entries
             n == Len(entries)
  <1>1. entries \in Seq(Entry) /\ x.iterator.last = LastName(entries)
    BY DEF SafeHandle
  <1>2. /\ n <= Len(L) /\ \A k \in 1..n : entries[k] = EntryTold(archive, L, k)
        /\ x.dir \in DOMAIN archive.tree /\ archive.tree[x.dir].type = "directory"
    BY DEF Follows
  <1>3. \A j, k \in 1..Len(L) : j < k => Before(L[j].name, L[k].name)
    BY <1>2, ListingOf DEF ListingLaidOut
  <1>4. Len(L) \in Nat
    BY <1>2, ListedEntries
  <1> SUFFICES ASSUME n + 1 <= Len(L)
               PROVE  x.iterator.last = <<>> \/ Before(x.iterator.last, L[n + 1].name)
    OBVIOUS
  <1> HIDE DEF L, entries
  <1>5. CASE entries = <<>>
    BY <1>1, <1>5 DEF LastName
  <1>6. CASE entries # <<>>
    <2>1. n \in 1..n /\ n \in 1..Len(L) /\ n + 1 \in 1..Len(L) /\ n < n + 1
      BY <1>1, <1>4, <1>6
    <2>2. LastName(entries) = L[n].name
      <3>1. LastName(entries) = entries[n].name
        BY <1>6 DEF LastName
      <3>2. entries[n] = EntryTold(archive, L, n)
        BY <1>2, <2>1
      <3> QED BY <3>1, <3>2 DEF EntryTold
    <2> HIDE DEF n
    <2>3. Before(L[n].name, L[n + 1].name)
      BY <1>3, <2>1
    <2> QED BY <1>1, <2>2, <2>3
  <1> QED BY <1>5, <1>6

\* fs_readdir answers the next entry, or the end behind the last one.
LEMMA ReadDirFollows ==
    ASSUME archive \in Archives, LaidOut(archive), NEW x, x # NoDir, SafeHandle(x), Follows(x),
           x.iterator.rv = "next"
    PROVE  LET d == DirectoryNext(archive, x.iterator)
           IN  Follows([x EXCEPT !.iterator = d, !.listing = ListingWith(x.listing, d)])
  <1> DEFINE L == archive.tree[x.dir].listing
             entries == x.listing.entries
             n == Len(entries)
             d == DirectoryNext(archive, x.iterator)
             l == ListingWith(x.listing, d)
             y == [x EXCEPT !.iterator = d, !.listing = l]
             m == Len(l.entries)
  <1>1. DOMAIN x = {"open", "dir", "iterator", "listing"} /\ entries \in Seq(Entry)
    BY DEF SafeHandle
  <1>2. /\ n <= Len(L) /\ (\A k \in 1..n : entries[k] = EntryTold(archive, L, k))
        /\ x.dir \in DOMAIN archive.tree /\ archive.tree[x.dir].type = "directory"
        /\ Pos(archive, L, x.iterator, n + 1)
    BY DEF Follows
  <1>3. ListingHolds(archive, L) /\ Len(L) \in Nat
    BY <1>2, ListingOf, ListedEntries
  <1>4. n + 1 <= Len(L) => x.iterator.last = <<>> \/ Before(x.iterator.last, L[n + 1].name)
    BY FollowsLast
  <1>5. y.dir = x.dir /\ y.iterator = d /\ y.listing = l
    BY <1>1
  <1> HIDE DEF L, entries
  <1>6. /\ m <= Len(L) /\ (\A k \in 1..m : l.entries[k] = EntryTold(archive, L, k))
        /\ l.ended => m = Len(L)
        /\ d.rv = "next" => Pos(archive, L, d, m + 1)
    <2>1. CASE n = Len(L)
      <3>1. Pos(archive, L, x.iterator, Len(L) + 1)
        BY <1>2, <2>1
      <3>2. d.rv = "end"
        BY <1>3, <3>1, DirectoryNextEnds
      <3> HIDE DEF d
      <3>3. l.entries = entries
        BY <3>2 DEF ListingWith, entries
      <3> HIDE DEF l
      <3> QED BY <1>2, <2>1, <3>2, <3>3
    <2>2. CASE n # Len(L)
      <3> DEFINE k == n + 1
      <3>1. k \in 1..Len(L) /\ n \in Nat
        BY <1>1, <1>2, <1>3, <2>2
      <3>2. Pos(archive, L, x.iterator, k) /\ (x.iterator.last = <<>> \/ Before(x.iterator.last, L[k].name))
        BY <1>2, <1>4, <3>1
      <3> HIDE DEF k
      <3>3. /\ d.rv = "next" /\ d.inode = archive.tree[L[k].ref].number
            /\ d.entry.name = L[k].name /\ Pos(archive, L, d, k + 1)
        BY <1>3, <3>1, <3>2, DirectoryNextAt
      <3> HIDE DEF d
      <3> DEFINE e == EntryTold(archive, L, k)
      <3>4. l.entries = Append(entries, e) /\ l.ended = FALSE
        BY <3>3 DEF ListingWith, entries, EntryTold
      <3>5. e \in Entry
        <4>1. /\ Listed(x.dir) \in Seq(Entry) /\ Len(Listed(x.dir)) = Len(L)
              /\ Listed(x.dir)[k] = EntryTold(archive, L, k)
          BY <1>2, <3>1, ListedEntries DEF L
        <4> QED BY <3>1, <4>1, ElementOfSeq
      <3> HIDE DEF e, l
      <3>6. k = n + 1
        BY DEF k
      <3>7. m = k /\ l.entries[k] = e /\ \A j \in 1..n : l.entries[j] = entries[j]
        BY <1>1, <3>4, <3>5, <3>6
      <3>8. \A j \in 1..k : j \in 1..n \/ j = k
        BY <3>1, <3>6
      <3>9. \A j \in 1..m : l.entries[j] = EntryTold(archive, L, j)
        BY <1>2, <3>7, <3>8 DEF e
      <3>10. m <= Len(L)
        BY <1>3, <3>1, <3>7
      <3> QED BY <3>3, <3>4, <3>7, <3>9, <3>10
    <2> QED BY <2>1, <2>2
  <1> HIDE DEF d, l, y
  <1>7. Follows(y)
    BY <1>2, <1>5, <1>6 DEF Follows, L
  <1> QED BY <1>7 DEF y, d, l

\* A file that is opened in a sound archive is the one that its inode lays out.
LEMMA KnownFile ==
    ASSUME KnownResolve, archive.sound, NEW ino \in DOMAIN known, ~Lost(ino), NEW memory
    PROVE  LET file == FileOpen(ino, memory).file
               ref == known[ino]
           IN  /\ LaidOut(archive) /\ ref \in DOMAIN archive.tree
               /\ file = InodeRead(archive, ref)
               /\ file.rv = "ok" /\ file.inode = InodeOf(archive, ref) /\ file.ref = ref
  <1> DEFINE file == FileOpen(ino, memory).file
             ref == known[ino]
  <1>1. archive \in Archives
    BY DEF KnownResolve
  <1>2. LaidOut(archive) /\ TablesHold(archive)
    BY <1>1, MountedLaidOut
  <1>3. ref \in DOMAIN archive.tree
    BY DEF KnownResolve, Known
  <1>4. file = InodeRead(archive, ref)
    BY <1>2, KnownOpens
  <1> HIDE DEF file, ref
  <1>5. LET f == InodeRead(archive, ref) IN f.rv = "ok" /\ f.inode = InodeOf(archive, ref) /\ f.ref = ref
    BY <1>1, <1>2, <1>3, InodeReads
  <1>6. file.rv = "ok" /\ file.inode = InodeOf(archive, ref) /\ file.ref = ref
    BY <1>4, <1>5
  <1> QED BY <1>2, <1>3, <1>4, <1>6 DEF file, ref

\* What a request leaves of the handles when it changes one.
LEMMA OneFollows ==
    ASSUME HandlesFollow, archive' = archive, archive.sound, DOMAIN handle = Handles, NEW h \in Handles, NEW y,
           handle' = [handle EXCEPT ![h] = y], y = NoDir \/ Follows(y)
    PROVE  HandlesFollow'
  <1> SUFFICES ASSUME NEW g \in Handles PROVE handle'[g] = NoDir \/ Follows(handle[g])'
    BY DEF HandlesFollow
  <1>1. \A x : Follows(x) => Follows(x)'
    BY DEF Follows
  <1> DEFINE x == handle[g]
  <1>2. x' = IF g = h THEN y ELSE x
    OBVIOUS
  <1>3. x = NoDir \/ Follows(x)
    BY DEF HandlesFollow
  <1>4. x' = NoDir \/ Follows(x)'
    <2> HIDE DEF x
    <2> DEFINE z == IF g = h THEN y ELSE x
    <2>1. z = NoDir \/ Follows(z)
      BY <1>3
    <2>2. x' = z
      BY <1>2
    <2> HIDE DEF z
    <2> QED BY <1>1, <2>1, <2>2
  <1> QED BY <1>4

\* fs_opendir: nothing is answered yet.
LEMMA OpenDirFollows ==
    ASSUME KnownResolve, archive.sound, NEW ino \in DOMAIN known, ~Lost(ino), NEW memory,
           TypeOfIno(ino) = "directory"
    PROVE  LET d == FreshDirectory(FileOpen(ino, memory).file)
           IN  Follows([open |-> TRUE, dir |-> d.file, iterator |-> d, listing |-> NoListing])
  <1> DEFINE file == FileOpen(ino, memory).file
             ref == known[ino]
             L == archive.tree[ref].listing
             d == FreshDirectory(file)
             x == [open |-> TRUE, dir |-> d.file, iterator |-> d, listing |-> NoListing]
  <1>1. archive \in Archives
    BY DEF KnownResolve
  <1>2. LaidOut(archive) /\ ref \in DOMAIN archive.tree /\ file.inode = InodeOf(archive, ref) /\ file.ref = ref
    BY KnownFile
  <1>3. archive.tree[ref].type = "directory"
    BY DEF TypeOfIno
  <1> HIDE DEF file, ref
  <1>4. Pos(archive, L, d, 1) /\ d.file = ref
    BY <1>1, <1>2, <1>3, FreshAt
  <1>5. Len(L) \in Nat
    BY <1>1, <1>2, <1>3, ListedEntries
  <1> HIDE DEF d
  <1>6. x.dir = ref /\ x.iterator = d /\ x.listing.entries = <<>> /\ x.listing.ended = FALSE
    BY <1>4 DEF NoListing
  <1> HIDE DEF x
  <1> DEFINE e == x.listing.entries
  <1>7. Len(e) = 0 /\ Len(e) + 1 = 1
    BY <1>6
  <1> HIDE DEF e
  <1>8. Len(e) <= Len(L) /\ \A k \in 1..Len(e) : e[k] = EntryTold(archive, L, k)
    BY <1>5, <1>7
  <1>9. Pos(archive, L, x.iterator, Len(e) + 1)
    BY <1>4, <1>6, <1>7
  <1> HIDE DEF L
  <1>10. Follows(x)
    BY <1>2, <1>3, <1>6, <1>8, <1>9 DEF Follows, e, L
  <1> QED BY <1>10 DEF x, d, file

\* Every request leaves the handles on their way through their directories.
LEMMA FollowsRequest ==
    ASSUME KnownResolve, HandlesSafe, HandlesFollow, archive' = archive, scarce' = scarce, archive.sound, Request
    PROVE  HandlesFollow'
  <1>1. handle' = handle => HandlesFollow'
    BY DEF HandlesFollow, Follows
  <1>2. archive \in Archives /\ LaidOut(archive) /\ DOMAIN handle = Handles
    BY MountedLaidOut DEF HandlesSafe
  <1>3. ASSUME NEW ino \in DOMAIN known, NEW memory \in Memory, Asked(ino, FileOpen(ino, memory))
        PROVE  HandlesFollow'
    <2> DEFINE f == FileOpen(ino, memory)
    <2>0. CASE Lost(ino)
      BY <1>1, <1>3, <2>0, LostAsked
    <2>1. ASSUME NEW name, NEW again, Lookup(ino, f, name, again)
          PROVE  handle' = handle
      <3> HIDE DEF f
      <3> QED BY <2>1 DEF Lookup, LookupFound, LookupOpened, LookupEntered, LookupFails
    <2>2. ASSUME ~Lost(ino), TypeOfIno(ino) = "directory", NEW h \in Handles, OpenDir(ino, f, h)
          PROVE  HandlesFollow'
      <3> DEFINE d == FreshDirectory(f.file)
                 y == [open |-> TRUE, dir |-> d.file, iterator |-> d, listing |-> NoListing]
      <3>1. Follows(y)
        BY <2>2, OpenDirFollows
      <3> HIDE DEF f
      <3>2. OpenDirIterator(ino, h, d) \/ OpenDirFails(ino)
        BY <2>2 DEF OpenDir
      <3> HIDE DEF d
      <3>3. handle' = handle \/ handle' = [handle EXCEPT ![h] = y]
        BY <3>2 DEF OpenDirIterator, OpenDirFails
      <3> HIDE DEF y
      <3> QED BY <1>1, <1>2, <3>1, <3>3, OneFollows
    <2>3. GetAttr(ino, f) \/ Access(ino, f) \/ OpenFile(ino, f) \/ ReadLink(ino, f) => handle' = handle
      <3> HIDE DEF f
      <3> QED BY DEF GetAttr, Access, OpenFile, ReadLink
    <2>4. \A size, name : ListXattr(ino, f, size) \/ GetXattr(ino, f, name, size) => handle' = handle
      <3> HIDE DEF f
      <3> QED BY DEF ListXattr, GetXattr
    <2> HIDE DEF f
    <2> QED BY <1>1, <1>3, <2>0, <2>1, <2>2, <2>3, <2>4 DEF Asked, f
  <1>4. ASSUME NEW h \in Handles, ReadDir(h)
        PROVE  HandlesFollow'
    <2> DEFINE x == handle[h]
               d == DirectoryNext(archive, x.iterator)
               y == [x EXCEPT !.iterator = d, !.listing = ListingWith(x.listing, d)]
    <2>1. x # NoDir /\ x.iterator.rv = "next"
      <3>1. handle[h].open /\ handle[h].iterator.rv = "next"
        BY <1>4 DEF ReadDir
      <3>2. NoDir.open = FALSE
        BY DEF NoDir
      <3> QED BY <3>1, <3>2
    <2>2. SafeHandle(x) /\ Follows(x)
      BY <2>1 DEF HandlesSafe, HandlesFollow
    <2>3. handle' = [handle EXCEPT ![h] = y]
      <3> HIDE DEF d
      <3> QED BY <1>4 DEF ReadDir, ReadDirAnswer, d
    <2> HIDE DEF x
    <2>4. Follows(y)
      BY <1>2, <2>1, <2>2, ReadDirFollows
    <2> HIDE DEF y
    <2> QED BY <1>2, <2>3, <2>4, OneFollows
  <1>5. ASSUME NEW h \in Handles, ReleaseDir(h)
        PROVE  HandlesFollow'
    <2>1. handle' = [handle EXCEPT ![h] = NoDir]
      BY <1>5 DEF ReleaseDir
    <2> DEFINE y == NoDir
    <2>2. handle' = [handle EXCEPT ![h] = y] /\ y = NoDir
      BY <2>1
    <2> HIDE DEF y
    <2> QED BY <1>2, <2>2, OneFollows
  <1>6. ASSUME NEW h \in Handles, handle[h].open, handle' = [handle EXCEPT ![h].iterator.rv = "error"]
        PROVE  HandlesFollow'
    <2> DEFINE x == handle[h]
               d == [x.iterator EXCEPT !.rv = "error"]
               y == [x EXCEPT !.iterator = d]
    <2>1. x # NoDir
      <3>1. NoDir.open = FALSE
        BY DEF NoDir
      <3> QED BY <1>6, <3>1
    <2>2. DOMAIN x = {"open", "dir", "iterator", "listing"} /\ DOMAIN x.iterator = DirFields
      BY <2>1 DEF HandlesSafe, SafeHandle
    <2>3. handle' = [handle EXCEPT ![h] = y]
      BY <1>6
    <2>4. Follows(x)
      BY <2>1 DEF HandlesFollow
    <2>5. d.rv = "error"
      BY <2>2 DEF DirFields
    <2> HIDE DEF d
    <2>6. y.dir = x.dir /\ y.listing = x.listing /\ y.iterator = d
      BY <2>2
    <2> HIDE DEF x, y
    <2>7. Follows(y)
      BY <2>4, <2>5, <2>6 DEF Follows
    <2> QED BY <1>2, <2>3, <2>7, OneFollows
  <1> QED BY <1>1, <1>3, <1>4, <1>5, <1>6 DEF Request, ReadFails

LEMMA FollowsInvariant == MountSpec => []HandlesFollow
  <1>1. MountInit => HandlesFollow
    BY DEF MountInit, HandlesFollow
  <1>2. KnownResolve /\ HandlesSafe /\ HandlesFollow /\ [MountNext]_mountVars => HandlesFollow'
    <2> SUFFICES ASSUME KnownResolve, HandlesSafe, HandlesFollow, [MountNext]_mountVars PROVE HandlesFollow'
      OBVIOUS
    <2>1. CASE ~archive.sound
      <3>1. archive' = archive
        BY DEF MountNext, mountVars
      <3> QED BY <2>1, <3>1 DEF HandlesFollow
    <2>2. CASE archive.sound /\ MountNext
      <3>1. CASE Request
        BY <2>2, <3>1, FollowsRequest DEF MountNext
      <3>2. CASE Taken
        BY <2>2, <3>2 DEF MountNext, Taken, HandlesFollow, Follows
      <3> QED BY <2>2, <3>1, <3>2 DEF MountNext
    <2>3. CASE UNCHANGED mountVars
      BY <2>3 DEF mountVars, HandlesFollow, Follows
    <2> QED BY <2>1, <2>2, <2>3
  <1> QED BY <1>1, <1>2, KnownInvariant, HandlesInvariant, PTL DEF MountSpec

\* Reading a directory answers its entries in order, each once and with its inode, and the end only
\* behind the last of them, wherever fragments and entries cross metablocks, whatever is asked
\* between and however many handles are open; and a damaged archive's listings are safe
\* (fs_readdir, sqsh_directory_iterator_next).
THEOREM DirectoriesAreListed == MountSpec => []ListsDirectory
  <1>1. KnownResolve /\ HandlesSafe /\ HandlesFollow => ListsDirectory
    <2> SUFFICES ASSUME KnownResolve, HandlesSafe, HandlesFollow, NEW h \in Handles, handle[h].open
                 PROVE  LET listing == handle[h].listing
                            all == Listed(handle[h].dir)
                        IN  /\ SafeListing(listing.entries)
                            /\ archive.sound => /\ IsPrefix(listing.entries, all)
                                                /\ listing.ended => listing.entries = all
      BY DEF ListsDirectory
    <2> DEFINE x == handle[h]
               s == x.listing.entries
               t == Listed(x.dir)
               L == archive.tree[x.dir].listing
    <2>1. x # NoDir
      BY DEF NoDir
    <2>2. SafeHandle(x)
      BY DEF HandlesSafe
    <2>3. SafeListing(s) /\ s \in Seq(Entry)
      BY <2>1, <2>2 DEF SafeHandle
    <2>4. ASSUME archive.sound
          PROVE  IsPrefix(s, t) /\ (x.listing.ended => s = t)
      <3>1. archive \in Archives /\ LaidOut(archive)
        BY <2>4, MountedLaidOut DEF HandlesSafe
      <3>2. Follows(x)
        BY <2>1, <2>4 DEF HandlesFollow
      <3>3. /\ x.dir \in DOMAIN archive.tree /\ archive.tree[x.dir].type = "directory"
            /\ Len(s) <= Len(L) /\ \A k \in 1..Len(s) : s[k] = EntryTold(archive, L, k)
            /\ x.listing.ended => Len(s) = Len(L)
        BY <3>2 DEF Follows
      <3>4. /\ t \in Seq(Entry) /\ Len(t) = Len(L) /\ Len(L) \in Nat
            /\ \A k \in 1..Len(L) : t[k] = EntryTold(archive, L, k)
        BY <3>1, <3>3, ListedEntries
      <3> HIDE DEF s, t, L
      <3>5. Len(s) \in Nat
        BY <2>3
      <3>6. Len(s) <= Len(t) /\ \A k \in 1..Len(s) : s[k] = t[k]
        BY <3>3, <3>4, <3>5
      <3>7. SubSeq(s, 1, Len(s)) = SubSeq(t, 1, Len(s))
        <4>1. SubSeq(s, 1, Len(s)) = [k \in 1..Len(s) |-> s[k]]
          BY <2>3
        <4>2. SubSeq(t, 1, Len(s)) = [k \in 1..Len(s) |-> t[k]]
          BY <3>4, <3>5, <3>6
        <4> QED BY <3>6, <4>1, <4>2
      <3>8. IsPrefix(s, t)
        BY <3>6, <3>7 DEF IsPrefix
      <3>9. Len(s) = Len(t) => s = t
        BY <2>3, <3>4, <3>6, SeqEqual
      <3> QED BY <3>3, <3>4, <3>8, <3>9
    <2> QED BY <2>3, <2>4
  <1> QED BY <1>1, KnownInvariant, HandlesInvariant, FollowsInvariant, PTL

-----------------------------------------------------------------------------
(* Lookups in a sound archive *)

\* What a lookup of a name in a directory may answer.
LookupAnswers(one, ref, name, rv, value) ==
    LET L == one.tree[ref].listing
    IN  \/ rv = "ok" /\ \E k \in 1..Len(L) : L[k].name = name /\ L[k].ref = value
        \/ rv = "ENOENT" /\ \A k \in 1..Len(L) : L[k].name # name
        \/ rv = "EIO" /\ \E k \in 1..Len(L) : L[k].from > OffsetMax /\ ~Before(name, L[k].name)

\* fs_lookup answers what the directory holds, and what the kernel knew of the directory stays.
LEMMA LookupAnswered ==
    ASSUME KnownResolve, archive.sound, NEW ino \in DOMAIN known, TypeOfIno(ino) = "directory", ~Lost(ino),
           NEW name, NEW memory, NEW again, Lookup(ino, FileOpen(ino, memory), name, again)
    PROVE  \E rv, value : /\ last' = Answer("lookup", ino, name, rv, value) /\ known'[ino] = known[ino]
                          /\ LookupAnswers(archive, known[ino], name, rv, value)
  <1> DEFINE f == FileOpen(ino, memory)
             dir == known[ino]
             L == archive.tree[dir].listing
             d == DirectoryLookup(archive, f.file, FreshDirectory(f.file), name)
             child == Opened(archive, f.map, EntryRef(d), again)
             n == child.file.inode.number
             ref == child.file.ref
             set == MapSet(archive, child.map, n, ref, again)
  <1>1. archive \in Archives /\ archive.inode_count \in Nat
    BY ArchivesAssumption DEF KnownResolve
  <1>2. LaidOut(archive) /\ TablesHold(archive)
    BY <1>1, MountedLaidOut
  <1>3. dir \in DOMAIN archive.tree /\ f.file = InodeRead(archive, dir) /\ f.file.rv = "ok"
    BY KnownFile
  <1>4. archive.tree[dir].type = "directory"
    BY DEF TypeOfIno
  <1>5. Fits(archive, f.map)
    BY <1>2, KnownOpens
  <1>6. Known(ino, dir)
    BY DEF KnownResolve
  <1>7. \A k \in 1..Len(L) : L[k].ref \in DOMAIN archive.tree
    BY <1>1, <1>2, <1>3, <1>4, ListingOf DEF ListingHolds, EntryLaidOut
  <1>8. LookupFound(ino, name, f.map, d, again)
    BY <1>3 DEF Lookup
  <1> HIDE DEF f, dir
  <1>9. \/ d.rv = "error" /\ \E k \in 1..Len(L) : L[k].from > OffsetMax /\ ~Before(name, L[k].name)
        \/ d.rv = "end" /\ \A k \in 1..Len(L) : L[k].name # name
        \/ d.rv = "next" /\ \E k \in 1..Len(L) : L[k].name = name /\ EntryRef(d) = L[k].ref
    BY <1>1, <1>2, <1>3, <1>4, LookupFinds
  <1> HIDE DEF d, L
  <1>10. CASE d.rv = "error"
    <2>1. last' = Answer("lookup", ino, name, "EIO", NoRef) /\ known' = known
      BY <1>8, <1>10 DEF LookupFound, LookupFails
    <2>2. LookupAnswers(archive, dir, name, "EIO", NoRef)
      BY <1>9, <1>10 DEF LookupAnswers, L
    <2> QED BY <2>1, <2>2 DEF dir
  <1>11. CASE d.rv = "end"
    <2>1. last' = Answer("lookup", ino, name, "ENOENT", NoRef) /\ known' = known
      BY <1>8, <1>11 DEF LookupFound, LookupFails, MapErr
    <2>2. LookupAnswers(archive, dir, name, "ENOENT", NoRef)
      BY <1>9, <1>11 DEF LookupAnswers, L
    <2> QED BY <2>1, <2>2 DEF dir
  <1>12. CASE d.rv = "next"
    <2>1. PICK k \in 1..Len(L) : L[k].name = name /\ EntryRef(d) = L[k].ref
      BY <1>9, <1>12
    <2> DEFINE r == EntryRef(d)
    <2>2. r \in DOMAIN archive.tree /\ L[k].name = name /\ L[k].ref = r
      BY <1>7, <2>1
    <2>3. child = Opened(archive, f.map, r, again)
      OBVIOUS
    <2>4. LookupOpened(ino, name, child, again)
      BY <1>8, <1>12 DEF LookupFound
    <2> HIDE DEF r, child
    <2>5. child.file = InodeRead(archive, r) /\ Fits(archive, child.map)
      BY <1>1, <1>2, <1>5, <2>2, <2>3, OpenedFits
    <2>6. child.file.rv = "ok" /\ ref = r /\ n = archive.tree[r].number
      BY <1>2, <2>2, <2>5, InodeReadRef DEF TablesHold
    <2> HIDE DEF ref, n
    <2>7. set.ok
      <3>1. MapSet(archive, child.map, archive.tree[r].number, r, again).ok
        BY <1>1, <1>2, <2>2, <2>5, EnteredFits
      <3> QED BY <2>6, <3>1
    <2>8. LookupEntered(ino, name, child, set)
      BY <2>4, <2>6 DEF LookupOpened, ref, n
    <2> HIDE DEF set
    <2>9. known' = Told(ToIno(n), r) /\ last' = Answer("lookup", ino, name, "ok", r)
      BY <2>6, <2>7, <2>8 DEF LookupEntered, ref, n
    <2>10. known'[ino] = dir
      <3>1. CASE ino # ToIno(n)
        BY <2>9, <3>1 DEF Told, dir
      <3>2. CASE ino = ToIno(n)
        <4>1. known'[ino] = r
          BY <2>9, <3>2 DEF Told
        <4>2. n \in 1..archive.inode_count
          BY <1>2, <2>2, <2>6 DEF TablesHold
        <4>3. ino # FuseRoot
          BY <1>1, <3>2, <4>2 DEF ToIno, FuseRoot
        <4>4. ToIno(archive.tree[dir].number) = ToIno(n)
          BY <1>6, <3>2, <4>3 DEF Known
        <4>5. archive.tree[dir].number \in Nat
          BY <1>1, <1>2, <1>3 DEF TablesHold
        <4> DEFINE m == archive.tree[dir].number
        <4> HIDE DEF m
        <4>6. m = n
          BY <1>1, <4>2, <4>4, <4>5 DEF ToIno, m
        <4>7. r = dir
          BY <1>2, <1>3, <2>2, <2>6, <4>6 DEF TablesHold, m
        <4> QED BY <4>1, <4>7
      <3> QED BY <3>1, <3>2
    <2>11. LookupAnswers(archive, dir, name, "ok", r)
      BY <2>2 DEF LookupAnswers, L
    <2> QED BY <2>9, <2>10, <2>11 DEF dir
  <1> QED BY <1>9, <1>10, <1>11, <1>12

\* Such an answer is the one that is due.
LEMMA LookupDue ==
    ASSUME archive \in Archives, archive.sound, archive' = archive, NEW ino, NEW ref \in DOMAIN archive.tree,
           archive.tree[ref].type = "directory", known'[ino] = ref, NEW name, NEW rv, NEW value,
           last' = Answer("lookup", ino, name, rv, value), LookupAnswers(archive, ref, name, rv, value)
    PROVE  LooksUpEntry'
  <1> DEFINE L == archive.tree[ref].listing
             all == Range(L)
             found == {e \in all : e.name = name}
  <1>1. DOMAIN L = 1..Len(L)
    BY MountedLaidOut, ListingOf DEF ListingHolds, IsSequence
  <1>2. last'.op = "lookup" /\ last'.ino = ino /\ last'.arg = name /\ last'.rv = rv /\ last'.value = value
    BY DEF Answer
  <1>3. \A e : e \in all <=> \E k \in 1..Len(L) : e = L[k]
    BY <1>1 DEF Range
  <1> HIDE DEF all
  <1>4. \/ rv = "ok" /\ \E e \in found : e.ref = value
        \/ rv = "ENOENT" /\ found = {}
        \/ rv = "EIO" /\ \E e \in all : e.from > OffsetMax /\ ~Before(name, e.name)
    BY <1>3 DEF LookupAnswers
  <1>5. Holds(known[last.ino])' = archive.tree[ref]
    BY <1>2 DEF Holds
  <1> QED BY <1>2, <1>4, <1>5 DEF LooksUpEntry, all

\* Which request was answered.
LEMMA OtherOps ==
    ASSUME NEW ino, NEW f
    PROVE  /\ GetAttr(ino, f) => last'.op = "getattr"
           /\ Access(ino, f) => last'.op = "access"
           /\ OpenFile(ino, f) => last'.op = "open"
           /\ ReadLink(ino, f) => last'.op = "readlink"
           /\ \A size : ListXattr(ino, f, size) => last'.op = "listxattr"
           /\ \A size, name : GetXattr(ino, f, name, size) => last'.op = "getxattr"
           /\ \A name, again : Lookup(ino, f, name, again) => last'.op = "lookup"
           /\ \A h : OpenDir(ino, f, h) => last'.op = "opendir"
           /\ \A h : ReadDir(h) => last'.op = "readdir"
           /\ \A h : ReleaseDir(h) => last'.op = "releasedir"
           /\ ReadFails => last'.op = "any"
  <1>1. \A op, i, a, rv, v : Answer(op, i, a, rv, v).op = op
    BY DEF Answer
  <1>2. /\ GetAttr(ino, f) => last'.op = "getattr"
        /\ Access(ino, f) => last'.op = "access"
        /\ OpenFile(ino, f) => last'.op = "open"
        /\ ReadLink(ino, f) => last'.op = "readlink"
    <2>1. GetAttr(ino, f) => last'.op = "getattr"
      BY <1>1 DEF GetAttr
    <2>2. Access(ino, f) => last'.op = "access"
      BY <1>1 DEF Access
    <2>3. OpenFile(ino, f) => last'.op = "open"
      BY <1>1 DEF OpenFile
    <2>4. ReadLink(ino, f) => last'.op = "readlink"
      BY <1>1 DEF ReadLink
    <2> QED BY <2>1, <2>2, <2>3, <2>4
  <1>3. /\ \A size : ListXattr(ino, f, size) => last'.op = "listxattr"
        /\ \A size, name : GetXattr(ino, f, name, size) => last'.op = "getxattr"
    <2>1. \A op, i, arg, size, value, length, over : InBuffer(op, i, arg, size, value, length, over).op = op
      BY <1>1 DEF InBuffer
    <2>2. \A size, l : ListAnswer(ino, size, l).op = "listxattr"
      <3>1. \A i, a, rv, v : Answer("listxattr", i, a, rv, v).op = "listxattr"
        BY <1>1
      <3>2. \A i, arg, size, value, length, over :
                InBuffer("listxattr", i, arg, size, value, length, over).op = "listxattr"
        BY <2>1
      <3> QED BY <3>1, <3>2 DEF ListAnswer
    <2>3. \A i, a, rv, v : Answer("getxattr", i, a, rv, v).op = "getxattr"
      BY <1>1
    <2>4. ASSUME NEW name, NEW size PROVE \A x : XattrAnswer(ino, name, size, x).op = "getxattr"
      BY <2>3 DEF XattrAnswer, InBuffer
    <2>5. ASSUME NEW size, ListXattr(ino, f, size) PROVE last'.op = "listxattr"
      <3>1. \A i, a, rv, v : Answer("listxattr", i, a, rv, v).op = "listxattr"
        BY <1>1
      <3> QED BY <2>2, <2>5, <3>1 DEF ListXattr
    <2>6. ASSUME NEW size, NEW name, GetXattr(ino, f, name, size) PROVE last'.op = "getxattr"
      BY <2>3, <2>4, <2>6 DEF GetXattr
    <2> QED BY <2>5, <2>6
  <1>4. \A name, again : Lookup(ino, f, name, again) => last'.op = "lookup"
    <2>1. \A name, m, rv : LookupFails(ino, name, m, rv) => last'.op = "lookup"
      BY <1>1 DEF LookupFails
    <2>2. \A name, c, x : LookupEntered(ino, name, c, x) => last'.op = "lookup"
      BY <1>1, <2>1 DEF LookupEntered
    <2>3. \A name, c, again : LookupOpened(ino, name, c, again) => last'.op = "lookup"
      BY <2>1, <2>2 DEF LookupOpened
    <2>4. \A name, m, x, again : LookupFound(ino, name, m, x, again) => last'.op = "lookup"
      BY <2>1, <2>3 DEF LookupFound
    <2> QED BY <2>1, <2>4 DEF Lookup
  <1>5. \A h : OpenDir(ino, f, h) => last'.op = "opendir"
    BY <1>1 DEF OpenDir, OpenDirIterator, OpenDirFails
  <1>6. /\ \A h : ReadDir(h) => last'.op = "readdir"
        /\ \A h : ReleaseDir(h) => last'.op = "releasedir"
        /\ ReadFails => last'.op = "any"
    <2>1. \A h, d : ReadDirAnswer(h, d) => last'.op = "readdir"
      BY <1>1 DEF ReadDirAnswer
    <2> QED BY <1>1, <2>1 DEF ReadDir, ReleaseDir, ReadFails
  <1> QED BY <1>2, <1>3, <1>4, <1>5, <1>6

\* A lookup in a sound archive finds the entry of the name and answers its inode, and that there is
\* none only if there is none, with an index and without one, whatever was asked before; the only
\* ways it fails are an index that leads to a fragment that begins past OffsetMax, and a directory
\* that the inode map lost for want of memory
\* (fs_lookup, sqsh_directory_iterator_lookup, directory_iterator_index_lookup).
THEOREM EntriesAreLookedUp == MountSpec => []LooksUpEntry
  <1>1. MountInit => LooksUpEntry
    BY DEF MountInit, NoAnswer, LooksUpEntry
  <1>2. KnownResolve /\ LooksUpEntry /\ [MountNext]_mountVars => LooksUpEntry'
    <2> SUFFICES ASSUME KnownResolve, LooksUpEntry, [MountNext]_mountVars PROVE LooksUpEntry'
      OBVIOUS
    <2>1. last'.op # "lookup" => LooksUpEntry'
      BY DEF LooksUpEntry
    <2>2. CASE UNCHANGED mountVars
      BY <2>2 DEF mountVars, LooksUpEntry, Holds, Refused, Lost, RefOf
    <2>3. CASE ~archive.sound
      <3>1. archive' = archive
        BY DEF MountNext, mountVars
      <3> QED BY <2>3, <3>1 DEF LooksUpEntry
    <2>4. CASE MountNext /\ Taken
      BY <2>1, <2>4 DEF Taken, NoAnswer
    <2>5. CASE archive.sound /\ MountNext /\ Request
      <3>1. archive' = archive /\ scarce' = scarce /\ archive \in Archives
        BY <2>5 DEF MountNext, KnownResolve
      <3>2. ASSUME NEW ino \in DOMAIN known, NEW memory, Asked(ino, FileOpen(ino, memory))
            PROVE  LooksUpEntry'
        <4>0. CASE Lost(ino)
          <5>1. Refused'
            BY <3>1, <3>2, <4>0, LostAsked
          <5> QED BY <5>1 DEF LooksUpEntry
        <4>1. ASSUME TypeOfIno(ino) = "directory", ~Lost(ino), NEW name, NEW again,
                     Lookup(ino, FileOpen(ino, memory), name, again)
              PROVE  LooksUpEntry'
          <5>1. PICK rv, value : /\ last' = Answer("lookup", ino, name, rv, value) /\ known'[ino] = known[ino]
                                 /\ LookupAnswers(archive, known[ino], name, rv, value)
            BY <2>5, <4>1, LookupAnswered
          <5>2. known[ino] \in DOMAIN archive.tree /\ archive.tree[known[ino]].type = "directory"
            BY <2>5, <4>1 DEF KnownResolve, Known, TypeOfIno
          <5> DEFINE ref == known[ino]
          <5> HIDE DEF ref
          <5>3. /\ ref \in DOMAIN archive.tree /\ archive.tree[ref].type = "directory" /\ known'[ino] = ref
                /\ LookupAnswers(archive, ref, name, rv, value)
            BY <5>1, <5>2 DEF ref
          <5> QED BY <2>5, <3>1, <5>1, <5>3, LookupDue
        <4> DEFINE f == FileOpen(ino, memory)
        <4> HIDE DEF f
        <4>2. last'.op # "lookup" \/ (TypeOfIno(ino) = "directory" /\ \E name, again : Lookup(ino, f, name, again))
          BY <3>2, OtherOps DEF Asked, f
        <4> QED BY <2>1, <4>0, <4>1, <4>2 DEF f
      <3>3. (\E h \in Handles : ReadDir(h) \/ ReleaseDir(h)) \/ ReadFails => last'.op # "lookup"
        BY OtherOps
      <3> QED BY <2>1, <2>5, <3>2, <3>3 DEF Request
    <2> QED BY <2>2, <2>3, <2>4, <2>5 DEF MountNext
  <1> QED BY <1>1, <1>2, KnownInvariant, PTL DEF MountSpec

-----------------------------------------------------------------------------
(* Attributes in a sound archive *)

\* What may be answered about the attributes of a file.
XattrAnswers(A, op, arg, rv, value) ==
    LET names == NamesOf(A, Len(A))
    IN  \/ op = "listxattr" /\ rv = "ok" /\ value = names
        \/ op = "listxattr" /\ rv = "size" /\ value = NamesSize(names)
        \/ op = "listxattr" /\ rv = "EIO" /\ arg < NamesSize(names)
        \/ op = "getxattr" /\ rv = "ok" /\ \E k \in 1..Len(A) : A[k].name = arg /\ A[k].value = value
        \/ op = "getxattr" /\ rv = "size" /\ \E k \in 1..Len(A) : A[k].name = arg /\ Len(A[k].value) = value
        \/ op = "getxattr" /\ rv = "ERANGE" /\ \E k \in 1..Len(A) : A[k].name = arg
        \/ op = "getxattr" /\ rv = "ENODATA" /\ (Descending(A) => \A k \in 1..Len(A) : A[k].name # arg)

\* A buffer gets the size of a value, too little, or the value.
LEMMA BufferAnswers ==
    ASSUME NEW op, NEW ino, NEW arg, NEW size, NEW value, NEW length, NEW overflow
    PROVE  \E rv, v : /\ InBuffer(op, ino, arg, size, value, length, overflow) = Answer(op, ino, arg, rv, v)
                      /\ \/ rv = "size" /\ v = length
                         \/ rv = overflow /\ size < length
                         \/ rv = "ok" /\ v = value
  <1> DEFINE b == InBuffer(op, ino, arg, size, value, length, overflow)
  <1>1. CASE size = 0
    <2>1. b = Answer(op, ino, arg, "size", length)
      BY <1>1 DEF InBuffer
    <2> QED BY <2>1
  <1>2. CASE size # 0 /\ size < length
    <2>1. b = Answer(op, ino, arg, overflow, <<>>)
      BY <1>2 DEF InBuffer
    <2> QED BY <1>2, <2>1
  <1>3. CASE size # 0 /\ ~(size < length)
    <2>1. b = Answer(op, ino, arg, "ok", value)
      BY <1>3 DEF InBuffer
    <2> QED BY <2>1
  <1> QED BY <1>1, <1>2, <1>3

\* The attributes of a file that the kernel knows.
LEMMA KnownXattrs ==
    ASSUME KnownResolve, archive.sound, NEW ino \in DOMAIN known, ~Lost(ino), NEW memory
    PROVE  LET file == FileOpen(ino, memory).file
               A == AttrsOf(archive, known[ino])
           IN  /\ file.rv = "ok" /\ known[ino] \in DOMAIN archive.tree
               /\ AttrsHold(archive, A) /\ XPos(archive, A, FreshXattrs(archive, file), 1)
  <1> DEFINE file == FileOpen(ino, memory).file
             ref == known[ino]
  <1>1. archive \in Archives
    BY DEF KnownResolve
  <1>2. LaidOut(archive) /\ ref \in DOMAIN archive.tree /\ file.rv = "ok" /\ file.inode = InodeOf(archive, ref)
    BY KnownFile
  <1> HIDE DEF file, ref
  <1>3. AttrsHold(archive, AttrsOf(archive, ref))
    BY <1>1, <1>2, AttrsOfFile
  <1>4. XPos(archive, AttrsOf(archive, ref), FreshXattrs(archive, file), 1)
    BY <1>1, <1>2, FreshXattrsAt
  <1> QED BY <1>2, <1>3, <1>4 DEF file, ref

\* fs_listxattr
LEMMA ListXattrAnswered ==
    ASSUME KnownResolve, archive.sound, NEW ino \in DOMAIN known, ~Lost(ino), NEW size, NEW memory,
           ListXattr(ino, FileOpen(ino, memory), size)
    PROVE  \E rv, value : /\ last' = Answer("listxattr", ino, size, rv, value)
                          /\ XattrAnswers(AttrsOf(archive, known[ino]), "listxattr", size, rv, value)
  <1> DEFINE file == FileOpen(ino, memory).file
             A == AttrsOf(archive, known[ino])
             x == FreshXattrs(archive, file)
             names == NamesOf(A, Len(A))
             length == NamesSize(names)
             l == XattrNames(archive, x)
  <1>1. archive \in Archives
    BY DEF KnownResolve
  <1>2. file.rv = "ok" /\ AttrsHold(archive, A) /\ XPos(archive, A, x, 1)
    BY KnownXattrs
  <1>3. last' = ListAnswer(ino, size, l)
    BY <1>2 DEF ListXattr
  <1> HIDE DEF file, A, x
  <1>4. l = [rv |-> "end", names |-> names]
    BY <1>1, <1>2, NamesAt
  <1> HIDE DEF l, names
  <1>5. l.rv = "end" /\ l.names = names
    BY <1>4
  <1>6. last' = InBuffer("listxattr", ino, size, size, names, length, "EIO")
    BY <1>3, <1>5 DEF ListAnswer
  <1> HIDE DEF length
  <1>7. PICK rv, value : /\ last' = Answer("listxattr", ino, size, rv, value)
                         /\ \/ rv = "size" /\ value = length
                            \/ rv = "EIO" /\ size < length
                            \/ rv = "ok" /\ value = names
    BY <1>6, BufferAnswers
  <1>8. XattrAnswers(A, "listxattr", size, rv, value)
    BY <1>7 DEF XattrAnswers, names, length
  <1> QED BY <1>7, <1>8 DEF A

\* fs_getxattr
LEMMA GetXattrAnswered ==
    ASSUME KnownResolve, archive.sound, NEW ino \in DOMAIN known, ~Lost(ino), NEW size, NEW name \in XattrAsked,
           NEW memory, GetXattr(ino, FileOpen(ino, memory), name, size)
    PROVE  \E rv, value : /\ last' = Answer("getxattr", ino, name, rv, value)
                          /\ XattrAnswers(AttrsOf(archive, known[ino]), "getxattr", name, rv, value)
  <1> DEFINE file == FileOpen(ino, memory).file
             A == AttrsOf(archive, known[ino])
             x == FreshXattrs(archive, file)
             z == XattrLookup(archive, x, name)
  <1>1. archive \in Archives
    BY DEF KnownResolve
  <1>2. file.rv = "ok" /\ AttrsHold(archive, A) /\ XPos(archive, A, x, 1)
    BY KnownXattrs
  <1>3. last' = XattrAnswer(ino, name, size, z)
    BY <1>2 DEF GetXattr
  <1>4. name \in Seq(Nat)
    BY XattrAskedAssumption
  <1> HIDE DEF file, A, x
  <1>5. XOver(archive, A, z, name)
    BY <1>1, <1>2, <1>4, XattrFinds
  <1> HIDE DEF z
  <1>6. CASE z.rv = "end" /\ (Descending(A) => \A k \in 1..Len(A) : A[k].name # name)
    <2>1. last' = Answer("getxattr", ino, name, MapErr("no such xattr"), <<>>)
      BY <1>3, <1>6 DEF XattrAnswer
    <2>2. MapErr("no such xattr") = "ENODATA"
      BY DEF MapErr
    <2>3. XattrAnswers(A, "getxattr", name, "ENODATA", <<>>)
      BY <1>6 DEF XattrAnswers
    <2> QED BY <2>1, <2>2, <2>3 DEF A
  <1>7. CASE z.rv = "next" /\ \E k \in 1..Len(A) : A[k].name = name /\ XIsAt(archive, A, z, k)
    <2> PICK k \in 1..Len(A) : A[k].name = name /\ z.value = A[k].value
      BY <1>7 DEF XIsAt
    <2> DEFINE v == z.value
               length == Len(v)
    <2>1. last' = InBuffer("getxattr", ino, name, size, v, length, "ERANGE")
      BY <1>3, <1>7 DEF XattrAnswer
    <2>2. length = Len(A[k].value) /\ v = A[k].value /\ A[k].name = name
      OBVIOUS
    <2> HIDE DEF v, length
    <2>3. PICK rv, value : /\ last' = Answer("getxattr", ino, name, rv, value)
                           /\ \/ rv = "size" /\ value = length
                              \/ rv = "ERANGE" /\ size < length
                              \/ rv = "ok" /\ value = v
      BY <2>1, BufferAnswers
    <2>4. XattrAnswers(A, "getxattr", name, rv, value)
      BY <2>2, <2>3 DEF XattrAnswers
    <2> QED BY <2>3, <2>4 DEF A
  <1> QED BY <1>5, <1>6, <1>7 DEF XOver

\* What AnswersXattrs says of an answer about a file with these attributes.
XattrsRight(attrs, op, arg, rv, shown) ==
    LET names == [k \in DOMAIN attrs |-> attrs[k].name]
        descending == \A j, k \in DOMAIN names : j < k => Before(names[k], names[j])
        value == {a.value : a \in {b \in Range(attrs) : b.name = arg}}
    IN  \/ op = "listxattr" /\ rv = "ok" /\ shown = names
        \/ op = "listxattr" /\ rv = "size" /\ shown = NamesSize(names)
        \/ op = "listxattr" /\ rv = "EIO" /\ arg < NamesSize(names)
        \/ op = "getxattr" /\ rv = "ok" /\ shown \in value
        \/ op = "getxattr" /\ rv = "size" /\ \E v \in value : shown = Len(v)
        \/ op = "getxattr" /\ rv = "ERANGE" /\ value # {}
        \/ op = "getxattr" /\ rv = "ENODATA" /\ (descending => value = {})

\* Such an answer is the one that is due.
LEMMA XattrDue ==
    ASSUME archive \in Archives, archive.sound, archive' = archive, NEW ino, NEW ref \in DOMAIN archive.tree,
           known'[ino] = ref, NEW op \in {"getxattr", "listxattr"}, NEW arg, NEW rv, NEW value,
           last' = Answer(op, ino, arg, rv, value), XattrAnswers(AttrsOf(archive, ref), op, arg, rv, value)
    PROVE  AnswersXattrs'
  <1> DEFINE attrs == archive.tree[ref].attrs
             names == [k \in DOMAIN attrs |-> attrs[k].name]
             values == {a.value : a \in {b \in Range(attrs) : b.name = arg}}
             descending == \A j, k \in DOMAIN names : j < k => Before(names[k], names[j])
  <1>1. DOMAIN attrs = 1..Len(attrs) /\ attrs = AttrsOf(archive, ref)
    BY MountedLaidOut, AttrsOfFile DEF AttrsHold, IsSequence, AttrsOf
  <1>2. last'.op = op /\ last'.ino = ino /\ last'.arg = arg /\ last'.rv = rv /\ last'.value = value
    BY DEF Answer
  <1>3. Holds(known[last.ino])' = archive.tree[ref]
    BY <1>2 DEF Holds
  <1>4. names = NamesOf(attrs, Len(attrs))
    BY <1>1 DEF NamesOf
  <1>5. descending => Descending(attrs)
    BY <1>1 DEF Descending
  <1>6. \A v : v \in values <=> \E k \in 1..Len(attrs) : attrs[k].name = arg /\ attrs[k].value = v
    BY <1>1 DEF Range
  <1> HIDE DEF names, values, descending
  <1>7. XattrAnswers(attrs, op, arg, rv, value)
    BY <1>1
  <1>8. \/ op = "listxattr" /\ rv = "ok" /\ value = names
        \/ op = "listxattr" /\ rv = "size" /\ value = NamesSize(names)
        \/ op = "listxattr" /\ rv = "EIO" /\ arg < NamesSize(names)
        \/ op = "getxattr" /\ rv = "ok" /\ value \in values
        \/ op = "getxattr" /\ rv = "size" /\ \E v \in values : value = Len(v)
        \/ op = "getxattr" /\ rv = "ERANGE" /\ values # {}
        \/ op = "getxattr" /\ rv = "ENODATA" /\ (descending => values = {})
    BY <1>4, <1>5, <1>6, <1>7 DEF XattrAnswers
  <1>9. XattrsRight(attrs, op, arg, rv, value)
    BY <1>8 DEF XattrsRight, names, values, descending
  <1>10. XattrsRight(Holds(known[last.ino]).attrs, last.op, last.arg, last.rv, last.value)' => AnswersXattrs'
    BY DEF AnswersXattrs, XattrsRight
  <1>11. XattrsRight(Holds(known[last.ino]).attrs, last.op, last.arg, last.rv, last.value)'
    <2> DEFINE r == Holds(known[last.ino])
    <2>1. r' = archive.tree[ref]
      BY <1>3
    <2> HIDE DEF r
    <2>2. r'.attrs = attrs
      BY <2>1
    <2> HIDE DEF attrs
    <2>3. XattrsRight(r'.attrs, last'.op, last'.arg, last'.rv, last'.value)
      BY <1>2, <1>9, <2>2
    <2> QED BY <2>3 DEF r
  <1> QED BY <1>10, <1>11

\* What is answered about attributes is what the file has: the list in order, the size announced
\* for it, and the value of an attribute, in place or shared; and where the attributes descend,
\* that there is none only if there is none; an inode lost for want of memory is refused (fs_listxattr, fs_getxattr, sqsh_xattr_iterator_lookup).
THEOREM XattrsAreAnswered == MountSpec => []AnswersXattrs
  <1>1. MountInit => AnswersXattrs
    BY DEF MountInit, NoAnswer, AnswersXattrs
  <1>2. KnownResolve /\ AnswersXattrs /\ [MountNext]_mountVars => AnswersXattrs'
    <2> SUFFICES ASSUME KnownResolve, AnswersXattrs, [MountNext]_mountVars PROVE AnswersXattrs'
      OBVIOUS
    <2>1. last'.op \notin {"getxattr", "listxattr"} => AnswersXattrs'
      BY DEF AnswersXattrs
    <2>2. CASE UNCHANGED mountVars
      <3>1. archive' = archive /\ known' = known /\ last' = last /\ (Refused => Refused')
        BY <2>2 DEF mountVars, Refused, Lost, RefOf
      <3> QED BY <3>1 DEF AnswersXattrs, Holds
    <2>3. CASE ~archive.sound
      <3>1. archive' = archive
        BY DEF MountNext, mountVars
      <3> QED BY <2>3, <3>1 DEF AnswersXattrs
    <2>4. CASE MountNext /\ Taken
      BY <2>1, <2>4 DEF Taken, NoAnswer
    <2>5. CASE archive.sound /\ MountNext /\ Request
      <3>1. archive' = archive /\ scarce' = scarce /\ archive \in Archives
        BY <2>5 DEF MountNext, KnownResolve
      <3>2. ASSUME NEW ino \in DOMAIN known, NEW memory, Asked(ino, FileOpen(ino, memory))
            PROVE  AnswersXattrs'
        <4> DEFINE ref == known[ino]
                   f == FileOpen(ino, memory)
        <4>0. CASE Lost(ino)
          <5>1. Refused'
            BY <3>1, <3>2, <4>0, LostAsked
          <5> QED BY <5>1 DEF AnswersXattrs
        <4>1. ref \in DOMAIN archive.tree
          BY <2>5 DEF KnownResolve, Known
        <4>2. ASSUME ~Lost(ino), NEW size, ListXattr(ino, f, size)
              PROVE  AnswersXattrs'
          <5>1. PICK rv, value : /\ last' = Answer("listxattr", ino, size, rv, value)
                                 /\ XattrAnswers(AttrsOf(archive, ref), "listxattr", size, rv, value)
            BY <2>5, <4>2, ListXattrAnswered
          <5>2. known'[ino] = ref
            <6> HIDE DEF f
            <6> QED BY <4>2 DEF ListXattr
          <5> HIDE DEF ref
          <5> QED BY <2>5, <3>1, <4>1, <5>1, <5>2, XattrDue
        <4>3. ASSUME ~Lost(ino), NEW size, NEW name \in XattrAsked, GetXattr(ino, f, name, size)
              PROVE  AnswersXattrs'
          <5>1. PICK rv, value : /\ last' = Answer("getxattr", ino, name, rv, value)
                                 /\ XattrAnswers(AttrsOf(archive, ref), "getxattr", name, rv, value)
            BY <2>5, <4>3, GetXattrAnswered
          <5>2. known'[ino] = ref
            <6> HIDE DEF f
            <6> QED BY <4>3 DEF GetXattr
          <5> HIDE DEF ref
          <5> QED BY <2>5, <3>1, <4>1, <5>1, <5>2, XattrDue
        <4> HIDE DEF f
        <4>4. \/ last'.op \notin {"getxattr", "listxattr"}
              \/ \E size : ListXattr(ino, f, size)
              \/ \E size : \E name \in XattrAsked : GetXattr(ino, f, name, size)
          BY <3>2, OtherOps DEF Asked, f
        <4> QED BY <2>1, <4>0, <4>2, <4>3, <4>4
      <3>3. (\E h \in Handles : ReadDir(h) \/ ReleaseDir(h)) \/ ReadFails
            => last'.op \notin {"getxattr", "listxattr"}
        BY OtherOps
      <3> QED BY <2>1, <2>5, <3>2, <3>3 DEF Request
    <2> QED BY <2>2, <2>3, <2>4, <2>5 DEF MountNext
  <1> QED BY <1>1, <1>2, KnownInvariant, PTL DEF MountSpec
==============================================================================
