------------------------------- MODULE Unpack -------------------------------
(***************************************************************************)
(* sqsh-unpack, tools/src/unpack.c: two passes over the tree of an         *)
(* archive.  The first creates directories and everything in them, the     *)
(* contents of regular files by jobs of a thread pool; a semaphore bounds  *)
(* the files that are open.  The second, after the pool is idle, sets the  *)
(* metadata of the directories.  The traversal is the sequence of visits   *)
(* TreeWalk allows, a job what FileJob promises: it is refused, or calls   *)
(* extract_file_after once, from a thread of the pool (or before the call  *)
(* returns, which differs from a fast thread in nothing seen here).        *)
(***************************************************************************)
EXTENDS Naturals, Sequences, SequencesExt, FiniteSets

CONSTANTS Walks,     \* traversals: sequences of visits
          Targets,   \* target directories: [abs, path]
          Clutters,  \* what is in the way: sets of places that hold a file
          Home,      \* the place sqsh-unpack is started in
          Limit      \* file descriptors it may use: RLIMIT_NOFILE - 32, at 32 none, below it what
                     \* the unsigned difference is

Place == Seq(STRING)   \* a path from the root of the file system
Visit == [kind : {"BEGIN", "END", "FILE", "OTHER"}, path : Place]

\* The directory that is listed after visit i, and the visit that ends its listing.
ListedAt(w, i) == IF w[i].kind = "BEGIN" THEN w[i].path ELSE Front(w[i].path)
Ends(w, i, path) == w[i].kind = "END" /\ w[i].path = path

\* A directory is walked from its begin to its end; anything else is one visit.  No file lies
\* where the directories are that sqsh-unpack is started in.
ASSUME UnpackAssumption ==
    /\ Limit \in Nat
    /\ Home \in Place
    /\ \A t \in Targets : t \in [abs : BOOLEAN, path : Place]
    /\ \A c \in Clutters : /\ c \subseteq Place /\ IsFiniteSet(c)
                           /\ \A n \in 0..Len(Home) : SubSeq(Home, 1, n) \notin c
    /\ \A w \in Walks :
         /\ w \in Seq(Visit)
         /\ IF Len(w) = 1 THEN w[1].kind \in {"FILE", "OTHER"} /\ w[1].path = <<>>
            ELSE /\ Len(w) > 1
                 /\ w[1] = [kind |-> "BEGIN", path |-> <<>>]
                 /\ w[Len(w)] = [kind |-> "END", path |-> <<>>]
                 /\ \A i \in 1..Len(w) - 1 : \E j \in i + 1..Len(w) : Ends(w, j, ListedAt(w, i))
         /\ \A j \in 1..Len(w) : w[j].kind = "END" =>
                \E i \in 1..j : w[i] = [kind |-> "BEGIN", path |-> w[j].path]
         /\ \A i, j \in 1..Len(w) : Ends(w, i, w[j].path) /\ Ends(w, j, w[i].path) => i = j

VARIABLES walk, target, clutter,  \* what is extracted, where to, and what is there
          main,    \* where main has got to
          pass,    \* 1 or 2
          pos,     \* visits made in this pass
          cwd,     \* the working directory
          dir,     \* directories: "made", or "done" while their metadata is right
          out,     \* everything else that is complete, with its metadata
          job,     \* the job of a visit
          sem,     \* file_descriptor_sem
          errors,  \* extraction_errors
          failed,  \* rv of main
          lost     \* an error was met that nobody counted

inputs == <<walk, target, clutter>>
files == <<dir, out>>
vars == <<walk, target, clutter, main, pass, pos, cwd, dir, out, job, sem, errors, failed, lost>>

Single == Len(walk) = 1
TargetFrom(place) == IF target.abs THEN target.path ELSE place \o target.path
PlaceOf(v) == IF Single THEN TargetFrom(cwd) ELSE cwd \o v.path

Exists(place) == place \in DOMAIN dir \cup out \cup clutter
Above(place) == Front(place)

\* Creating an entry changes the modification time of its directory.
Touched(place) == [dir EXCEPT ![Above(place)] = "made"]
Made(place) == [d \in DOMAIN dir \cup {place} |->
                  IF d \in {place, Above(place)} THEN "made" ELSE dir[d]]

MayTouch(place) == UNCHANGED dir \/ (Above(place) \in DOMAIN dir /\ dir' = Touched(place))

Init ==
    /\ walk \in Walks /\ target \in Targets /\ clutter \in Clutters
    /\ main = "start" /\ pass = 1 /\ pos = 0 /\ cwd = Home
    /\ dir = [d \in {SubSeq(Home, 1, n) : n \in 0..Len(Home)} |-> "made"]
    /\ out = {} /\ job = [i \in 1..Len(walk) |-> "none"]
    /\ sem = Limit /\ errors = 0 /\ failed = FALSE /\ lost = FALSE

\* goto out
Abort ==
    /\ main' = "out" /\ failed' = TRUE
    /\ UNCHANGED <<inputs, pass, pos, cwd, out, job, errors, lost>>

(***************************************************************************)
(* main and extract_all                                                    *)
(***************************************************************************)
SetUp ==
    /\ main = "start"
    /\ main' = "enter"
    /\ UNCHANGED <<inputs, pass, pos, cwd, files, job, sem, errors, failed, lost>>

EnterTarget ==
    /\ main = "enter" /\ ~Single
    /\ LET place == TargetFrom(cwd) IN
         /\ place \notin clutter
         /\ IF place \in DOMAIN dir THEN UNCHANGED dir
            ELSE Above(place) \in DOMAIN dir /\ dir' = Made(place)
         /\ cwd' = place
    /\ pos' = 1 /\ main' = "walk"
    /\ UNCHANGED <<inputs, pass, out, job, sem, errors, failed, lost>>

ExtractSingle ==
    /\ main = "enter" /\ Single
    /\ main' = "walk"
    /\ UNCHANGED <<inputs, pass, pos, cwd, files, job, sem, errors, failed, lost>>

\* What ends a pass: the set-up, mkdir, chdir, the traversal, loading a file.
Fails ==
    /\ \/ main = "start"
       \/ main \in {"enter", "walk"} /\ ~Single
       \/ main = "wait"
    /\ Abort
    /\ UNCHANGED <<dir, sem>>

More == main = "walk" /\ pos < Len(walk)
This == walk[pos + 1]

Listed == ListedAt(walk, pos)
EndOf(path) == CHOOSE i \in 1..Len(walk) : Ends(walk, i, path)

\* A listing fails: the traversal returns true with an error, and goes on
\* behind the directory; the result of extract_from_traversal overwrites rv.
CutShort ==
    /\ More /\ ~Single
    /\ EndOf(Listed) # pos + 1
    /\ pos' = EndOf(Listed) - 1
    /\ lost' = TRUE
    /\ UNCHANGED <<inputs, main, pass, cwd, files, job, sem, errors, failed>>

\* Mutant of Idle: nobody waits for the jobs.
IdleAnyway == TRUE

\* sqsh_threadpool_wait returns
Idle == \A i \in DOMAIN job : job[i] \in {"none", "done"}

PassOver ==
    /\ main = "walk" /\ pos = Len(walk)
    /\ main' = IF pass = 1 THEN "wait" ELSE "out"
    /\ UNCHANGED <<inputs, pass, pos, cwd, files, job, sem, errors, failed, lost>>

SecondPass ==
    /\ main = "wait" /\ Idle
    /\ pass' = 2 /\ pos' = 0 /\ main' = "enter"
    /\ UNCHANGED <<inputs, cwd, files, job, sem, errors, failed, lost>>

\* The pool is freed: what runs is joined, what is queued may be dropped.
Leave ==
    /\ main = "out"
    /\ \A i \in DOMAIN job : job[i] \in {"none", "queued", "done"}
    /\ main' = "exited"
    /\ UNCHANGED <<inputs, pass, pos, cwd, files, job, sem, errors, failed, lost>>

(***************************************************************************)
(* extract_from_traversal                                                  *)
(***************************************************************************)
Visited == pos' = pos + 1 /\ main' = "walk" /\ UNCHANGED <<inputs, pass, cwd, failed>>

\* Extracting one file failed.
Refused ==
    \/ Single /\ Abort
    \/ ~Single /\ errors' = errors + 1 /\ Visited /\ UNCHANGED <<out, job, lost>>

\* extract_dir.  That something else is in its place is printed, not returned.
ExtractDir ==
    /\ More /\ This.kind = "BEGIN"
    /\ LET place == PlaceOf(This) IN
         \/ place \in DOMAIN dir /\ UNCHANGED <<dir, lost>>
         \/ place \in clutter /\ lost' = TRUE /\ UNCHANGED dir
         \/ /\ ~Exists(place) /\ Above(place) \in DOMAIN dir
            /\ dir' = Made(place) /\ UNCHANGED lost
    /\ Visited
    /\ UNCHANGED <<out, job, sem, errors>>

\* extract_second_pass does nothing for files, extract_first_pass for directories.
Skip ==
    /\ More
    /\ IF pass = 1 THEN This.kind = "END" ELSE This.kind \in {"FILE", "OTHER"}
    /\ Visited
    /\ UNCHANGED <<files, job, sem, errors, lost>>

\* update_metadata of a directory: its owner, mode and times are right from now on.
MetadataSet(place) == [dir EXCEPT ![place] = "done"]

UpdateMetadataDir ==
    /\ More /\ pass = 2 /\ This.kind = "END"
    /\ \/ /\ PlaceOf(This) \in DOMAIN dir
          /\ dir' = MetadataSet(PlaceOf(This))
          /\ Visited /\ UNCHANGED <<out, job, errors, lost>>
       \/ PlaceOf(This) \in clutter /\ Visited /\ UNCHANGED <<files, job, errors, lost>>
       \/ Refused /\ UNCHANGED dir
    /\ UNCHANGED sem

\* extract_symlink, extract_device
ExtractOther ==
    /\ More /\ pass = 1 /\ This.kind = "OTHER"
    /\ LET place == PlaceOf(This) IN
         \/ /\ ~Exists(place) /\ Above(place) \in DOMAIN dir
            /\ out' = out \cup {place} /\ dir' = Touched(place)
            /\ Visited /\ UNCHANGED <<job, errors, lost>>
         \/ Refused /\ MayTouch(place)
    /\ UNCHANGED sem

(***************************************************************************)
(* extract_file                                                            *)
(***************************************************************************)
ExtractFile ==
    /\ More /\ pass = 1 /\ This.kind = "FILE"
    /\ main' = "permit"
    /\ UNCHANGED <<inputs, pass, pos, cwd, files, job, sem, errors, failed, lost>>

\* Mutant of Permit: a wait that is interrupted counts as a permit.
PermitInterrupted ==
    /\ main = "permit"
    /\ sem' = (IF sem > 0 THEN sem - 1 ELSE 0) /\ main' = "temp"
    /\ UNCHANGED <<inputs, pass, pos, cwd, files, job, errors, failed, lost>>

Permit ==
    /\ main = "permit" /\ sem > 0
    /\ sem' = sem - 1 /\ main' = "temp"
    /\ UNCHANGED <<inputs, pass, pos, cwd, files, job, errors, failed, lost>>

PermitFails == main = "permit" /\ Refused /\ UNCHANGED <<dir, sem>>

OpenTemp ==
    /\ main = "temp"
    /\ Above(PlaceOf(This)) \in DOMAIN dir /\ dir' = Touched(PlaceOf(This))
    /\ job' = [job EXCEPT ![pos + 1] = "queued"]
    /\ Visited
    /\ UNCHANGED <<out, sem, errors, lost>>

\* Mutant of OpenTempFails: the semaphore is not given back.
OpenTempFailsHeld ==
    /\ main = "temp"
    /\ Refused
    /\ MayTouch(PlaceOf(This))
    /\ UNCHANGED sem

\* No temporary file, no stream, or the job is refused.
OpenTempFails ==
    /\ main = "temp"
    /\ Refused
    /\ MayTouch(PlaceOf(This))
    /\ sem' = sem + 1

(***************************************************************************)
(* extract_file_after, in a thread of the pool: the stream is closed, the  *)
(* file renamed and given its metadata; then the semaphore is posted, and  *)
(* then an error is counted.  The semaphore may have been destroyed by an  *)
(* error exit of main before it is posted.                                 *)
(***************************************************************************)
Running(i) == main # "exited" /\ UNCHANGED <<inputs, main, pass, pos, cwd, failed, lost>>

Finish(i) ==
    /\ job[i] = "queued" /\ Running(i)
    /\ \/ /\ PlaceOf(walk[i]) \notin DOMAIN dir
          /\ job' = [job EXCEPT ![i] = "closed"]
          /\ out' = out \cup {PlaceOf(walk[i])} /\ dir' = Touched(PlaceOf(walk[i]))
       \/ /\ job' = [job EXCEPT ![i] = "failed"]
          /\ UNCHANGED out /\ MayTouch(PlaceOf(walk[i]))
    /\ UNCHANGED <<sem, errors>>

Post(i) ==
    /\ job[i] \in {"closed", "failed"} /\ Running(i)
    /\ sem' = sem + 1
    /\ job' = [job EXCEPT ![i] = IF @ = "failed" THEN "error" ELSE "done"]
    /\ UNCHANGED <<files, errors>>

Count(i) ==
    /\ job[i] = "error" /\ Running(i)
    /\ errors' = errors + 1
    /\ job' = [job EXCEPT ![i] = "done"]
    /\ UNCHANGED <<files, sem>>

Main ==
    \/ SetUp \/ EnterTarget \/ ExtractSingle \/ Fails \/ CutShort \/ PassOver \/ SecondPass \/ Leave
    \/ ExtractDir \/ Skip \/ UpdateMetadataDir \/ ExtractOther
    \/ ExtractFile \/ Permit \/ OpenTemp \/ OpenTempFails

Pool(i) == Finish(i) \/ Post(i) \/ Count(i)

Next == Main \/ PermitFails \/ \E i \in DOMAIN job : Pool(i)

\* main runs, and the pool runs what it is given.  That waiting for the semaphore
\* fails cannot be counted on.
Spec == Init /\ [][Next]_vars /\ WF_vars(Main) /\ WF_vars(\E i \in DOMAIN job : Pool(i))
-----------------------------------------------------------------------------
TypeOK ==
    /\ walk \in Walks /\ target \in Targets /\ clutter \in Clutters
    /\ main \in {"start", "enter", "walk", "permit", "temp", "wait", "out", "exited"}
    /\ pass \in {1, 2} /\ pos \in 0..Len(walk)
    /\ cwd \in DOMAIN dir
    /\ \A d \in DOMAIN dir : d \in Place /\ dir[d] \in {"made", "done"}
    /\ out \subseteq Place
    /\ job \in [1..Len(walk) -> {"none", "queued", "closed", "failed", "error", "done"}]
    /\ sem \in 0..Limit
    /\ errors \in Nat
    /\ failed \in BOOLEAN /\ lost \in BOOLEAN

\* The files jobs and main have open never exceed what the semaphore allows.
OpenFilesBounded ==
    Cardinality({i \in DOMAIN job : job[i] = "queued"}) + (IF main = "temp" THEN 1 ELSE 0) <= Limit

Succeeded == main = "exited" /\ ~failed /\ errors = 0

\* When sqsh-unpack exits with 0, every file, symlink and device is in the
\* target directory under its own name, and every directory has its metadata
\* back, after the last entry was created in it, whatever order the jobs ran in
\* (except for the errors that are not counted: see lost).
NothingMissing == Succeeded /\ ~lost =>
    LET from == TargetFrom(Home) IN
    \A i \in 1..Len(walk) :
      CASE walk[i].kind = "END"               -> from \o walk[i].path \in DOMAIN dir
                                                 /\ dir[from \o walk[i].path] = "done"
        [] walk[i].kind \in {"FILE", "OTHER"} -> from \o walk[i].path \in out
        [] OTHER                              -> TRUE

\* sqsh-unpack ends: nobody waits for a permit that is never given back, or for
\* a job that never finishes.
RunEnds == <>(main = "exited")

\* The second pass finds every directory and creates none: "The directory
\* should already be created by prepare_dir()" (tools/src/unpack.c:150).
CreatesNoneLate == [][pass = 2 /\ ~lost => DOMAIN dir' = DOMAIN dir]_vars
=============================================================================
