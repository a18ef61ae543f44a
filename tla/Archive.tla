------------------------------- MODULE Archive -------------------------------
(***************************************************************************)
(* libsqsh/src/archive/archive.c: the archive handle all threads share.    *)
(*                                                                         *)
(* The tables of an archive are set up when they are first asked for,      *)
(* under the archive's lock.  Setting up the inode map of an archive with  *)
(* an export table asks for that table in turn, which is why the lock is   *)
(* recursive.                                                              *)
(***************************************************************************)
EXTENDS Naturals

CONSTANTS Thread,    \* the threads that share the handle
          NoThread   \* the lock is free

ASSUME NoThreadAssumption == NoThread \notin Thread

\* What is set up on demand, and what an archive can be without.
Optional == {"export", "xattr", "fragment"}
Table == Optional \cup {"id", "data", "inodeMap"}

VARIABLES open,     \* the archive is initialised
          image,    \* what its superblock says: the tables it has, the export flag
          ready,    \* archive->initialized
          live,     \* how often a table was set up and not cleaned up
          handed,   \* the tables that callers were given a pointer to
          owner,    \* the thread that holds archive->lock ...
          depth,    \* ... and how many times
          getter,   \* the table whose getter a thread has called, or "none"
          nested,   \* that of the inode map has called the one of the export table
          step,     \* how far the innermost getter has come
          ok        \* whether it succeeds

vars == <<open, image, ready, live, handed, owner, depth, getter, nested, step, ok>>
lockVars == <<owner, depth>>
callVars == <<getter, nested>>

Inner(t) == IF nested[t] THEN "export" ELSE getter[t]

TypeOK ==
    /\ open \in BOOLEAN
    /\ image \in [tables : SUBSET Table, exportFlag : BOOLEAN]
    /\ ready \subseteq Table
    /\ live \in [Table -> Nat]
    /\ handed \subseteq Table
    /\ owner \in Thread \cup {NoThread}
    /\ depth \in 0..2
    /\ getter \in [Thread -> Table \cup {"none"}]
    /\ nested \in [Thread -> BOOLEAN]
    /\ step \in [Thread -> {"idle", "lock", "body", "resume", "unlock"}]
    /\ ok \in [Thread -> BOOLEAN]

Closed == [tables |-> {}, exportFlag |-> FALSE]

Init ==
    /\ open = FALSE /\ image = Closed
    /\ ready = {} /\ live = [c \in Table |-> 0] /\ handed = {}
    /\ owner = NoThread /\ depth = 0
    /\ getter = [t \in Thread |-> "none"] /\ nested = [t \in Thread |-> FALSE]
    /\ step = [t \in Thread |-> "idle"]
    /\ ok = [t \in Thread |-> FALSE]

Goto(t, s) == step' = [step EXCEPT ![t] = s]

\* Mutant of SetUp: the bit in archive->initialized is not set.
SetUpUnmarked(t, c, success) ==
    /\ ok' = [ok EXCEPT ![t] = success]
    /\ live' = IF success THEN [live EXCEPT ![c] = @ + 1] ELSE live
    /\ UNCHANGED ready

\* The outcome of setting a table up: a failing init leaves nothing behind.
SetUp(t, c, success) ==
    /\ ok' = [ok EXCEPT ![t] = success]
    /\ ready' = IF success THEN ready \cup {c} ELSE ready
    /\ live' = IF success THEN [live EXCEPT ![c] = @ + 1] ELSE live
-----------------------------------------------------------------------------
\* sqsh__archive_init, for an image with or without its optional tables.
Open(absent, flag) ==
    /\ ~open
    /\ open' = TRUE
    /\ image' = [tables |-> Table \ absent, exportFlag |-> flag]
    /\ UNCHANGED <<ready, live, handed, lockVars, callVars, step, ok>>

\* sqsh__archive_cleanup: the tables that are initialised are cleaned up.
Close ==
    /\ open /\ \A t \in Thread : step[t] = "idle"
    /\ open' = FALSE /\ image' = Closed
    /\ live' = [c \in Table |-> IF c \in ready THEN live[c] - 1 ELSE live[c]]
    /\ ready' = {} /\ handed' = {}
    /\ UNCHANGED <<lockVars, callVars, step, ok>>

\* A getter; a table the archive does not have is refused without the lock.
Get(t, c) ==
    /\ open /\ step[t] = "idle" /\ c \in image.tables
    /\ getter' = [getter EXCEPT ![t] = c]
    /\ Goto(t, "lock")
    /\ UNCHANGED <<open, image, ready, live, handed, lockVars, nested, ok>>

\* Mutant of Lock: the lock is not recursive.
LockOnce(t) ==
    /\ step[t] = "lock" /\ owner = NoThread
    /\ owner' = t /\ depth' = depth + 1
    /\ Goto(t, "body")
    /\ UNCHANGED <<open, image, ready, live, handed, callVars, ok>>

Lock(t) ==
    /\ step[t] = "lock" /\ owner \in {NoThread, t}
    /\ owner' = t /\ depth' = depth + 1
    /\ Goto(t, "body")
    /\ UNCHANGED <<open, image, ready, live, handed, callVars, ok>>

Found(t) ==
    /\ step[t] = "body" /\ Inner(t) \in ready
    /\ ok' = [ok EXCEPT ![t] = TRUE]
    /\ Goto(t, "unlock")
    /\ UNCHANGED <<open, image, ready, live, handed, lockVars, callVars>>

\* The inode map is backed by the export table if the superblock's flag says so.
NeedsExport(c) == c = "inodeMap" /\ image.exportFlag

\* sqsh__archive_data_extract_manager: the cache of decompressed data blocks.
InitDataManager(t, success) ==
    /\ step[t] = "body" /\ Inner(t) = "data" /\ "data" \notin ready
    /\ SetUp(t, "data", success)
    /\ Goto(t, "unlock")
    /\ UNCHANGED <<open, image, handed, lockVars, callVars>>

InitTable(t, success) ==
    /\ step[t] = "body" /\ Inner(t) \notin ready \cup {"data"} /\ ~NeedsExport(Inner(t))
    /\ SetUp(t, Inner(t), success)
    /\ Goto(t, "unlock")
    /\ UNCHANGED <<open, image, handed, lockVars, callVars>>

\* export_table_init: the nested getter, which refuses when the flag is wrong.
InitInodeMap(t) ==
    /\ step[t] = "body" /\ Inner(t) \notin ready /\ NeedsExport(Inner(t))
    /\ IF "export" \in image.tables
       THEN /\ nested' = [nested EXCEPT ![t] = TRUE]
            /\ Goto(t, "lock")
            /\ UNCHANGED ok
       ELSE /\ ok' = [ok EXCEPT ![t] = FALSE]
            /\ Goto(t, "unlock")
            /\ UNCHANGED nested
    /\ UNCHANGED <<open, image, ready, live, handed, lockVars, getter>>

\* Mutant of ResumeInodeMap: the result of the nested getter is not looked at.
ResumeInodeMapUnchecked(t) ==
    /\ step[t] = "resume"
    /\ SetUp(t, "inodeMap", TRUE)
    /\ Goto(t, "unlock")
    /\ UNCHANGED <<open, image, handed, lockVars, callVars>>

ResumeInodeMap(t) ==
    /\ step[t] = "resume"
    /\ SetUp(t, "inodeMap", ok[t])
    /\ Goto(t, "unlock")
    /\ UNCHANGED <<open, image, handed, lockVars, callVars>>

\* Unlock and return, to the caller or to the init of the inode map.
Unlock(t) ==
    /\ step[t] = "unlock"
    /\ depth' = depth - 1
    /\ owner' = IF depth = 1 THEN NoThread ELSE owner
    /\ handed' = IF ok[t] THEN handed \cup {Inner(t)} ELSE handed
    /\ nested' = [nested EXCEPT ![t] = FALSE]
    /\ getter' = [getter EXCEPT ![t] = IF nested[t] THEN @ ELSE "none"]
    /\ Goto(t, IF nested[t] THEN "resume" ELSE "idle")
    /\ UNCHANGED <<open, image, ready, live, ok>>

Continue(t) ==
    \/ Lock(t) \/ Found(t)
    \/ \E success \in BOOLEAN : InitTable(t, success) \/ InitDataManager(t, success)
    \/ InitInodeMap(t) \/ ResumeInodeMap(t) \/ Unlock(t)

Next ==
    \/ \E absent \in SUBSET Optional, flag \in BOOLEAN : Open(absent, flag)
    \/ Close
    \/ \E t \in Thread : Continue(t) \/ \E c \in Table : Get(t, c)

\* A thread that is inside a getter is scheduled; the lock need not be fair.
Fairness == \A t \in Thread : WF_vars(Continue(t))

Spec == Init /\ [][Next]_vars /\ Fairness
-----------------------------------------------------------------------------
(* Properties *)

\* However many threads ask for a table at once, it is set up once, and after the
\* archive was closed nothing is left of it (archive.c:168-335, 353-384).
SetUpOnce == \A c \in Table : live[c] = IF c \in ready THEN 1 ELSE 0

\* A pointer that was handed out is to a table that is set up, and what it is built
\* on is as well: an inode map needs the export table it looks into.
HandedOutAlive ==
    /\ \A c \in handed : live[c] > 0
    /\ "inodeMap" \in handed /\ image.exportFlag => live["export"] > 0

\* Once no thread starts a new call, every getter returns: the thread that sets the
\* inode map up does not wait for itself, and no error path keeps the lock.
CallsReturn ==
    (<>[][~ \E t \in Thread, c \in Table : Get(t, c)]_vars)
        => <>[](\A t \in Thread : step[t] = "idle")
=============================================================================
