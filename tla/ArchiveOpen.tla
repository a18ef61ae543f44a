---------------------------- MODULE ArchiveOpen ----------------------------
(***************************************************************************)
(* How an archive is opened and closed, and how its source is mapped:      *)
(* sqsh__archive_init and sqsh__archive_cleanup, mapper/mapper.c and the   *)
(* three mappers, a file (posix/mmap_mapper.c), a remote file              *)
(* (mapper/curl_mapper.c) and memory (mapper/static_mapper.c).             *)
(*                                                                         *)
(* Opening is a sequence of set-ups any of which can fail; then everything *)
(* is cleaned up.  The map manager maps outside of its lock, so threads    *)
(* map at the same time; a remote file can change, or go away, at any      *)
(* time.  Archive has what an open archive sets up later.                  *)
(***************************************************************************)
EXTENDS Naturals, Sequences

CONSTANTS Client,     \* threads that map parts of the source
          Opener,     \* who maps the superblock
          Descriptor  \* file descriptors, numbers from 0

ASSUME OpenerAssumption == Opener \notin Client
ASSUME DescriptorAssumption == Descriptor \subseteq Nat

\* What a source holds: its modification time and its size in blocks of the mapper.
Version == [time : 1..2, size : 1..2]
Gone == [time |-> 0, size |-> 0]
Nothing == Gone
NoMapping == [block |-> 0, version |-> Nothing]

VARIABLES stage,        \* "closed", "init", "cleanup", "open", or "crashed"
          config,       \* struct SqshConfig: the mapper and the offset of the archive
          got,          \* how many of the steps of sqsh__archive_init have set something up
          mapper,       \* struct SqshMapper with its user_data
          descriptors,  \* who uses each descriptor
          source,       \* what the source holds now
          user,        \* the thread that holds the lock of a curl mapper
          response,     \* what the last transfer of its handle was from
          work,         \* the call of sqsh_mapper_curl_map each thread is in
          mapped        \* what each thread has mapped

openingVars == <<stage, config, got, mapper, descriptors, source, user, response, work, mapped>>
curlVars == <<user, response, work>>

\* fd is a mapper's user_data when it is a file; curl whether it is a struct SqshCurlMapper.
NoMapper == [impl |-> "none", fd |-> 0, curl |-> FALSE, cache |-> Nothing, version |-> Nothing]
NoWork == [step |-> "idle", block |-> 0, buffer |-> Nothing]

OpeningInit ==
    /\ stage = "closed" /\ config = [impl |-> "mmap", offset |-> 0]
    /\ got = 0 /\ mapper = NoMapper
    /\ descriptors \in {d \in [Descriptor -> {"free", "process"}] :
                           \A i, j \in Descriptor : i < j /\ d[j] = "process" => d[i] = "process"}
    /\ source \in Version \cup {Gone}
    /\ user = Opener /\ response = Nothing
    /\ work = [t \in Client |-> NoWork]
    /\ mapped = [t \in Client \cup {Opener} |-> NoMapping]

\* The source is replaced or goes away; a file that is open, and memory, stay as they are.
Republish ==
    /\ \E v \in Version \cup {Gone} : source' = v
    /\ UNCHANGED <<stage, config, got, mapper, descriptors, curlVars, mapped>>

-----------------------------------------------------------------------------
(* Set-up *)

\* sqsh_archive_open
sqsh_archive_open(impl, offset) ==
    /\ stage = "closed"
    /\ stage' = "init" /\ config' = [impl |-> impl, offset |-> offset]
    /\ mapper' = NoMapper
    /\ UNCHANGED <<got, descriptors, source, curlVars, mapped>>

\* The order of sqsh__archive_init, of sqsh__map_manager_init in it, and of the superblock.
Order == <<"zero_block", "lock", "map_lock", "mapper", "maps", "lru", "superblock", "metablocks">>
Pending == Order[got + 1]

Succeed == /\ got' = got + 1
         /\ stage' = IF got + 1 = Len(Order) THEN "open" ELSE "init"
Fail == stage' = "cleanup" /\ UNCHANGED got

\* Memory, a mutex, a hash map or a cache: it can be had or not.
Acquire ==
    /\ stage = "init" /\ Pending \notin {"mapper", "superblock"}
    /\ Succeed \/ Fail
    /\ UNCHANGED <<config, mapper, descriptors, source, curlVars, mapped>>

\* sqsh__mapper_init, and the offset that must lie in the source.
MapperReady(version) == IF version.size < config.offset THEN Fail ELSE Succeed

\* Mutant of InitMmap: the descriptor is not remembered.
InitMmapForgets ==
    /\ stage = "init" /\ Pending = "mapper" /\ config.impl = "mmap"
    /\ \E fd \in Descriptor :
          /\ descriptors[fd] = "free" /\ \A d \in Descriptor : d < fd => descriptors[d] # "free"
          /\ descriptors' = [descriptors EXCEPT ![fd] = "archive"]
          /\ mapper' = [NoMapper EXCEPT !.impl = "mmap", !.version = source]
          /\ MapperReady(source)
    /\ UNCHANGED <<config, source, curlVars, mapped>>

\* sqsh_mapper_mmap_init: open takes the lowest free descriptor; when seeking fails the
\* descriptor is closed again.
InitMmap ==
    /\ stage = "init" /\ Pending = "mapper" /\ config.impl = "mmap"
    /\ \/ /\ mapper' = [NoMapper EXCEPT !.impl = "mmap"]
          /\ Fail /\ UNCHANGED descriptors
       \/ \E fd \in Descriptor :
             /\ source # Gone
             /\ descriptors[fd] = "free" /\ \A d \in Descriptor : d < fd => descriptors[d] # "free"
             /\ descriptors' = [descriptors EXCEPT ![fd] = "archive"]
             /\ mapper' = [NoMapper EXCEPT !.impl = "mmap", !.fd = fd, !.version = source]
             /\ MapperReady(source)
    /\ UNCHANGED <<config, source, curlVars, mapped>>

\* sqsh_mapper_static_mem_init
InitStatic ==
    /\ stage = "init" /\ Pending = "mapper" /\ config.impl = "static" /\ source # Gone
    /\ mapper' = [NoMapper EXCEPT !.impl = "static", !.version = source]
    /\ MapperReady(source)
    /\ UNCHANGED <<config, descriptors, source, curlVars, mapped>>

\* sqsh_mapper_curl_init: the state, its mutex, and the first block with time and size.
InitCurl ==
    /\ stage = "init" /\ Pending = "mapper" /\ config.impl = "curl"
    /\ \/ \E curl \in BOOLEAN : /\ mapper' = [NoMapper EXCEPT !.impl = "curl", !.curl = curl]
                                /\ Fail
       \/ /\ source # Gone
          /\ mapper' = [NoMapper EXCEPT !.impl = "curl", !.curl = TRUE, !.cache = source,
                                        !.version = source]
          /\ MapperReady(source)
    /\ UNCHANGED <<config, descriptors, source, curlVars, mapped>>

\* sqsh__superblock_init with the checks of magic, block size, size and version: block 0 of the
\* archive is mapped by a cursor, which stays.  The first block is at hand when the archive
\* begins where the source does.
Superblock ==
    LET cached == config.offset = 0 /\ mapper.cache # Nothing
        data == IF mapper.impl = "curl" /\ ~cached THEN source ELSE mapper.version
    IN  /\ stage = "init" /\ Pending = "superblock"
        /\ \/ /\ mapper.version.size > config.offset /\ data = mapper.version
              /\ mapped' = [mapped EXCEPT ![Opener] = [block |-> config.offset, version |-> data]]
              /\ mapper' = IF cached THEN [mapper EXCEPT !.cache = Nothing] ELSE mapper
              /\ Succeed \/ Fail
           \/ Fail /\ UNCHANGED <<mapped, mapper>>
        /\ UNCHANGED <<config, descriptors, source, curlVars>>

-----------------------------------------------------------------------------
(* Mapping a block of an open archive *)

Idle(t) == work[t].step = "idle" /\ mapped[t] = NoMapping
Proceed(t, step) == work' = [work EXCEPT ![t].step = step]

\* sqsh_mapping_mmap_map and the map of static_mapper.c: a file and memory are mapped at once.
MapAtOnce(t, block) ==
    /\ mapper.impl \in {"mmap", "static"}
    /\ mapped' = [mapped EXCEPT ![t] = [block |-> block, version |-> mapper.version]]
    /\ UNCHANGED work

\* sqsh__map_slice_init calls the mapper, for what lies inside the source.
Map(t, block) ==
    /\ stage = "open" /\ Idle(t) /\ config.offset <= block /\ block < mapper.version.size
    /\ \/ MapAtOnce(t, block)
       \/ /\ mapper.impl = "curl"
          /\ work' = [work EXCEPT ![t] = [step |-> "lock", block |-> block, buffer |-> Nothing]]
          /\ UNCHANGED mapped
    /\ UNCHANGED <<stage, config, got, mapper, descriptors, source, user, response>>

\* Mutant of LockHandle: the handle is used without the lock.
LockHandleNot(t) ==
    /\ work[t].step = "lock"
    /\ user' = t
    /\ Proceed(t, "transfer")
    /\ UNCHANGED <<stage, config, got, mapper, descriptors, source, response, mapped>>

LockHandle(t) ==
    /\ work[t].step = "lock" /\ user = Opener
    /\ user' = t
    /\ Proceed(t, "transfer")
    /\ UNCHANGED <<stage, config, got, mapper, descriptors, source, response, mapped>>

\* curl_download: one transfer into a buffer; what cannot be had, or comes without a range, a
\* size or a time, is freed again.  The block that was downloaded while opening is not at hand
\* any more: it is the superblock's, or lies before the archive.
Transfer(t) ==
    /\ work[t].step = "transfer"
    /\ \/ /\ source # Gone
          /\ response' = source
          /\ work' = [work EXCEPT ![t].step = "check", ![t].buffer = source]
       \/ Proceed(t, "unlock") /\ UNCHANGED response
    /\ UNCHANGED <<stage, config, got, mapper, descriptors, source, user, mapped>>

\* The time and the size of the file that the handle saw last are the ones it began with; a
\* download that is refused is freed by nobody.
Check(t) ==
    /\ work[t].step = "check"
    /\ IF response = mapper.version
       THEN mapped' = [mapped EXCEPT ![t] = [block |-> work[t].block, version |-> work[t].buffer]]
       ELSE UNCHANGED mapped
    /\ Proceed(t, "unlock")
    /\ UNCHANGED <<stage, config, got, mapper, descriptors, source, user, response>>

UnlockHandle(t) ==
    /\ work[t].step = "unlock"
    /\ user' = Opener
    /\ work' = [work EXCEPT ![t] = NoWork]
    /\ UNCHANGED <<stage, config, got, mapper, descriptors, source, response, mapped>>

\* sqsh__map_slice_cleanup
Unmap(t) ==
    /\ work[t].step = "idle" /\ mapped[t] # NoMapping
    /\ mapped' = [mapped EXCEPT ![t] = NoMapping]
    /\ UNCHANGED <<stage, config, got, mapper, descriptors, source, curlVars>>

-----------------------------------------------------------------------------
(* Clean-up *)

\* sqsh_archive_close
sqsh_archive_close ==
    /\ stage = "open" /\ \A t \in Client : Idle(t)
    /\ stage' = "cleanup"
    /\ UNCHANGED <<config, got, mapper, descriptors, source, curlVars, mapped>>

\* sqsh__mapper_cleanup: the descriptor of a file is closed, whatever it is; the state of a
\* remote file is looked into, whether or not there is one.
Cleaned ==
    CASE mapper.impl = "mmap" ->
           /\ descriptors' = [descriptors EXCEPT ![mapper.fd] = "free"] /\ stage' = "closed"
      [] mapper.impl = "curl" ->
           /\ stage' = (IF mapper.curl THEN "closed" ELSE "crashed") /\ UNCHANGED descriptors
      [] OTHER -> stage' = "closed" /\ UNCHANGED descriptors

\* sqsh__archive_cleanup: cursor, maps, mapper and mutexes, in whatever state they are.
CleanUp ==
    /\ stage = "cleanup"
    /\ Cleaned
    /\ got' = 0 /\ mapper' = NoMapper
    /\ mapped' = [mapped EXCEPT ![Opener] = NoMapping]
    /\ response' = Nothing
    /\ UNCHANGED <<config, source, user, work>>

\* After a crash another process begins.
Restart ==
    /\ stage = "crashed" /\ stage' = "closed"
    /\ UNCHANGED <<config, got, mapper, descriptors, source, curlVars, mapped>>

OpeningNext ==
    \/ Republish \/ Acquire \/ InitMmap \/ InitStatic \/ InitCurl \/ Superblock
    \/ sqsh_archive_close \/ CleanUp \/ Restart
    \/ \E impl \in {"mmap", "curl", "static"}, offset \in 0..1 : sqsh_archive_open(impl, offset)
    \/ \E t \in Client :
          \/ LockHandle(t) \/ Transfer(t) \/ Check(t) \/ UnlockHandle(t) \/ Unmap(t)
          \/ \E block \in 0..1 : Map(t, block)

OpeningSpec == OpeningInit /\ [][OpeningNext]_openingVars
-----------------------------------------------------------------------------
(* Properties *)

\* However the source changes while threads map it, everything that is mapped at a time is from
\* the version the archive was opened from (sqsh_mapper_curl_map).
OneVersion ==
    \A t \in Client \cup {Opener} : mapped[t] # NoMapping => mapped[t].version = mapper.version

\* Wherever opening failed, and after an archive was closed, nothing of it is left: no
\* descriptor, no mapping, nothing that was set up; and while it is open it has all of that.
LeavesNothing ==
    /\ stage = "closed" => /\ got = 0 /\ \A t \in DOMAIN mapped : mapped[t] = NoMapping
                           /\ \A d \in Descriptor : descriptors[d] # "archive"
    /\ stage = "open" => /\ got = Len(Order) /\ mapped[Opener].block = config.offset
                         /\ mapper.impl = "mmap" => descriptors[mapper.fd] = "archive"

\* An archive that cannot be opened leaves the descriptors of the process alone, as the clean
\* state that the comment in sqsh__archive_init speaks of would let it.
LeavesDescriptors ==
    [][\A d \in Descriptor : descriptors[d] = "process" => descriptors'[d] = "process"]_openingVars
=============================================================================
