----------------------------- MODULE FrontEnds -----------------------------
(***************************************************************************)
(* What stands in front of the library: the easy API (easy/*.c), the       *)
(* programs sqsh-cat, sqsh-ls, sqsh-xattr and sqsh-stat, and the FUSE 2    *)
(* file system (fs2.c).                                                    *)
(*                                                                         *)
(* Each function acquires things one after the other, goes through what a  *)
(* directory, a file or a list of attributes holds, and gives back at its  *)
(* label "out" what it acquired.  Anything can fail at any point.  What is *)
(* read is the matter of the modules below; here it is what becomes of     *)
(* failures and of what was acquired.                                      *)
(***************************************************************************)
EXTENDS Naturals, Sequences, SequencesExt

CONSTANTS MaxItems,  \* entries, attributes, blocks or paths to go through
          MaxPaths   \* paths on a command line

ASSUME MaxItemsAssumption == MaxItems \in Nat
ASSUME MaxPathsAssumption == MaxPaths \in Nat \ {0}

\* A function: its steps, what it goes through, what it gives its caller, what "out" gives
\* back always and on an error; how it tells success, at which points a failure is not told,
\* and at which it is told as EXIT_FAILURE, a positive number; whether it leaves out what it
\* cannot go through and goes on.
Script(steps, items, result, released, undone) ==
    [steps |-> steps, items |-> items, result |-> result, released |-> released,
     undone |-> undone, success |-> "ok", hides |-> {}, soft |-> {},
     skips |-> FALSE]

\* Steps that acquire something; the others only succeed or fail.
Resource == {"resolver", "file", "iterator", "content", "buffer", "value", "options", "reader", "fh"}

-----------------------------------------------------------------------------
(* The easy API *)

EasyExists == Script(<<"resolver", "resolve">>, "none", "none", {"resolver"}, {})

\* Mutant of EasyContent: what was read before an error is not freed.
EasyContentKept ==
    Script(<<"file", "iterator", "size", "content">>, "blocks", "content", {"iterator", "file"}, {})

\* The content has an end added, so the size must leave room for it.
EasyContent ==
    Script(<<"file", "iterator", "size", "content">>, "blocks", "content",
           {"iterator", "file"}, {"content"})

EasySize2 == Script(<<"file">>, "none", "none", {"file"}, {})
EasySize == [EasySize2 EXCEPT !.steps = <<"file", "size">>]
EasyPermission == Script(<<"file">>, "none", "none", {"file"}, {})
EasyMtime2 == Script(<<"file">>, "none", "none", {"file"}, {})

\* cx_collect makes the list, and frees it when it fails.
EasyList == Script(<<"file", "iterator">>, "entries", "list", {"iterator", "file"}, {})
EasyListPath ==
    Script(<<"file", "iterator", "buffer">>, "entries", "list", {"buffer", "iterator", "file"}, {})

EasyXattrGet ==
    Script(<<"file", "iterator", "lookup", "value">>, "none", "value", {"iterator", "file"}, {})
EasyXattrKeys == Script(<<"file", "iterator">>, "names", "list", {"iterator", "file"}, {})

\* The first path, which there always is, is dropped.  A directory below the start whose listing
\* fails ends there: the loop passes over its DIRECTORY_END, and the next step of the traversal
\* overwrites the error.  Only when the start itself cannot be listed, or a directory not be
\* entered, does the loop end with the error.
EasyTraversal ==
    [Script(<<"file", "type", "iterator">>, "paths", "list", {"iterator", "file"}, {})
         EXCEPT !.skips = TRUE]

Easy == [sqsh_easy_file_exists |-> EasyExists, sqsh_easy_file_content |-> EasyContent,
         sqsh_easy_file_size2 |-> EasySize2, sqsh_easy_file_size |-> EasySize,
         sqsh_easy_file_permission |-> EasyPermission, sqsh_easy_file_mtime2 |-> EasyMtime2,
         sqsh_easy_directory_list |-> EasyList, sqsh_easy_directory_list_path |-> EasyListPath,
         sqsh_easy_xattr_get |-> EasyXattrGet, sqsh_easy_xattr_keys |-> EasyXattrKeys,
         sqsh_easy_tree_traversal |-> EasyTraversal]

-----------------------------------------------------------------------------
(* What the programs do for each path *)

CatPath == [Script(<<"file", "stream">>, "none", "none", {"file"}, {})
                EXCEPT !.soft = {"file", "stream"}]

\* With print_simple or print_detail for each entry.
LsPath == [Script(<<"file", "iterator">>, "entries", "none", {"iterator", "file"}, {})
               EXCEPT !.hides = {"file", "iterator", "items"}]

\* Mutant of FattrPath: failures are reported and forgotten, as in ls_path.
FattrPathReported == [Script(<<"file", "iterator">>, "names", "none", {"iterator", "file"}, {})
                          EXCEPT !.hides = {"file", "iterator", "items"}]

FattrPath == [Script(<<"file", "iterator">>, "names", "none", {"iterator", "file"}, {})
                  EXCEPT !.soft = {"file", "iterator"}]

StatFile == Script(<<"file">>, "none", "none", {"file"}, {})
StatImage == Script(<<"options">>, "none", "none", {"options"}, {})

Tools == [sqsh_cat |-> CatPath, sqsh_ls |-> LsPath, sqsh_xattr |-> FattrPath,
          sqsh_stat |-> StatFile, sqsh_stat_image |-> StatImage]

-----------------------------------------------------------------------------
(* The handlers of fs2.c *)

FsAccess == Script(<<"file">>, "none", "none", {"file"}, {})
FsGetattr == Script(<<"file">>, "none", "none", {"file"}, {})

\* For each entry its file is opened, with fs_readdir_item.
FsReaddir == [Script(<<"file", "iterator">>, "entries", "none", {"iterator", "file"}, {})
                  EXCEPT !.hides = {"iterator", "items"}]

\* The open file stays with the kernel until fs_release.
FsOpen == Script(<<"fh">>, "none", "fh", {}, {"fh"})
FsRead == Script(<<"reader", "advance">>, "none", "none", {"reader"}, {})
FsRelease == Script(<<>>, "none", "none", {"fh"}, {})

FsReadlink == Script(<<"file", "link">>, "none", "none", {"file"}, {})
FsListxattr == Script(<<"file", "iterator">>, "names", "none", {"iterator", "file"}, {})

\* The length of the value is negated like an error number.
FsGetxattr ==
    [Script(<<"file", "iterator", "lookup", "fits">>, "none", "none", {"iterator", "file"}, {})
         EXCEPT !.success = "error"]

Handlers == [fs_access |-> FsAccess, fs_getattr |-> FsGetattr, fs_readdir |-> FsReaddir,
             fs_open |-> FsOpen, fs_read |-> FsRead, fs_release |-> FsRelease,
             fs_readlink |-> FsReadlink, fs_listxattr |-> FsListxattr,
             fs_getxattr |-> FsGetxattr]

Scripts == [fn \in DOMAIN Easy \cup DOMAIN Tools \cup DOMAIN Handlers |->
               IF fn \in DOMAIN Easy THEN Easy[fn] ELSE IF fn \in DOMAIN Tools THEN Tools[fn] ELSE Handlers[fn]]
Collectors == {"sqsh_easy_xattr_keys", "sqsh_easy_tree_traversal"}

-----------------------------------------------------------------------------
VARIABLES tool,    \* the program that runs, the paths it has left and its rv; whether one of
                   \* its paths failed, and whether the last one did
          call,    \* the function that runs, and how far it has come
          held,    \* what was acquired and not given back
          answer,  \* what the last function told, and what was true
          exit     \* the last program when it ended, its rv the exit status

frontVars == <<tool, call, held, answer, exit>>

NoTool == [name |-> "none", left |-> 0, rv |-> "ok", failed |-> FALSE, last |-> FALSE]
\* lost: something was left out.
NoCall == [fn |-> "none", at |-> 0, got |-> 0, total |-> 0, failed |-> "none", lost |-> FALSE]
NoAnswer == [fn |-> "none", told |-> "ok", complete |-> TRUE, failed |-> "none", result |-> "none"]

FrontInit ==
    /\ tool = NoTool /\ call = NoCall /\ held = {} /\ answer = NoAnswer
    /\ exit = NoTool

Body == Scripts[call.fn]
InCall == call # NoCall /\ call.failed = "none"

\* A function begins; how much it will go through, if nothing fails, is settled now.
Begin(fn, n) ==
    /\ call = NoCall
    /\ call' = [NoCall EXCEPT !.fn = fn, !.total = IF Scripts[fn].items = "none" THEN 0 ELSE n]

\* The next step succeeds, or fails.
Step ==
    /\ InCall /\ call.at < Len(Body.steps)
    /\ call' = [call EXCEPT !.at = @ + 1]
    /\ held' = held \cup ({Body.steps[call.at + 1]} \cap Resource)
    /\ UNCHANGED <<tool, answer, exit>>

StepFails ==
    /\ InCall /\ call.at < Len(Body.steps)
    /\ call' = [call EXCEPT !.failed = Body.steps[call.at + 1]]
    /\ UNCHANGED <<tool, held, answer, exit>>

\* The file does not exist, or the archive has no compression options: that is an answer, and no
\* failure.
Absent == {"resolve", "options"}
StepAbsent ==
    /\ InCall /\ call.at < Len(Body.steps) /\ Body.steps[call.at + 1] \in Absent
    /\ call' = [call EXCEPT !.at = @ + 1]
    /\ UNCHANGED <<tool, held, answer, exit>>

AtItems == InCall /\ call.at = Len(Body.steps) /\ call.got < call.total

\* One more entry, name, block or path; a collector's copy of it replaces the one before.
Item ==
    /\ AtItems
    /\ call' = [call EXCEPT !.got = @ + 1]
    /\ held' = held \cup (IF call.fn \in Collectors THEN {"value"} ELSE {})
    /\ UNCHANGED <<tool, answer, exit>>

\* Reading it fails, after the copy of the one before was freed.
ItemFails ==
    /\ AtItems
    /\ call' = [call EXCEPT !.failed = "items"]
    /\ held' = held \ (IF call.fn \in Collectors THEN {"value"} ELSE {})
    /\ UNCHANGED <<tool, answer, exit>>

\* The listing of a directory fails, one whose own path was handed on already: what would have
\* followed in it is left out.
ListingLost ==
    /\ InCall /\ Body.skips /\ call.got > 0
    /\ call' = [call EXCEPT !.lost = TRUE]
    /\ UNCHANGED <<tool, held, answer, exit>>

\* The copy of an attribute's name cannot be allocated: its length is taken all the same, and
\* the process ends.
KeyCopyFails ==
    /\ AtItems /\ call.fn = "sqsh_easy_xattr_keys"
    /\ call' = NoCall /\ held' = {} /\ answer' = NoAnswer
    /\ UNCHANGED <<tool, exit>>

\* cx_collect cannot add to its list: the collector's copy is not freed by anyone.
CollectFails ==
    /\ InCall /\ Body.result = "list" /\ call.got > 0
    /\ call' = [call EXCEPT !.failed = "collect"]
    /\ UNCHANGED <<tool, held, answer, exit>>

AtOut == call.failed # "none" \/ (call.at = Len(Body.steps) /\ call.got = call.total)

Told ==
    CASE call.failed = "none" -> Body.success
      [] call.failed # "none" /\ call.failed \in Body.hides -> "ok"
      [] call.failed # "none" /\ call.failed \in Body.soft -> "failure"
      [] OTHER -> "error"

\* The label "out", and what the program makes of what is told.
Return ==
    LET ok == call.failed = "none"
        collected == IF ok /\ Body.result = "list" THEN {"list"} ELSE {}
        freed == (IF ok /\ call.fn \in Collectors THEN {"value"} ELSE {})
                 \cup Body.released \cup (IF ok THEN {} ELSE Body.undone)
    IN  /\ call # NoCall /\ AtOut
        /\ held' = (held \cup collected) \ freed
        /\ answer' = [fn |-> call.fn, told |-> Told, complete |-> ok /\ ~call.lost,
                      failed |-> call.failed,
                      result |-> IF Body.result \in held' THEN Body.result ELSE "none"]
        /\ tool' = IF tool.name \in DOMAIN Tools
                   THEN [tool EXCEPT !.rv = Told, !.failed = @ \/ ~ok, !.last = ~ok] ELSE tool
        /\ call' = NoCall
        /\ UNCHANGED exit

-----------------------------------------------------------------------------
(* The programs that use the functions *)

\* A program of another author calls the easy API and frees what it is given; when its process
\* ends, everything else goes as well.
CallEasy(fn, n) ==
    /\ tool = NoTool /\ held = {} /\ Begin(fn, n)
    /\ UNCHANGED <<tool, held, answer, exit>>

Free ==
    /\ tool = NoTool /\ call = NoCall /\ held # {}
    /\ held' = {} /\ answer' = NoAnswer
    /\ UNCHANGED <<tool, call, exit>>

\* open_archive: the program goes on with an open archive, or ends.
OpenArchive(name, paths) ==
    /\ tool = NoTool /\ call = NoCall /\ held = {}
    /\ \/ /\ tool' = [NoTool EXCEPT !.name = name, !.left = paths]
          /\ held' = {"archive"}
          /\ UNCHANGED exit
       \/ /\ exit' = [NoTool EXCEPT !.name = name, !.rv = "failure", !.failed = TRUE, !.last = TRUE]
          /\ UNCHANGED <<tool, held>>
    /\ answer' = NoAnswer
    /\ UNCHANGED call

\* main: sqsh-stat takes one path or none, sqsh-ls lists the root when it is given none.
Start(name, paths) ==
    /\ name \in {"sqsh_stat", "sqsh_stat_image"} => paths = 1
    /\ OpenArchive(name, paths)

\* The loop of main over the paths.
NextPath(n) ==
    /\ tool.name \in DOMAIN Tools /\ tool.left > 0 /\ tool.rv # "error"
    /\ Begin(tool.name, n)
    /\ tool' = [tool EXCEPT !.left = @ - 1]
    /\ UNCHANGED <<held, answer, exit>>

\* The end of main.
EndOfMain ==
    /\ tool.name \in DOMAIN Tools /\ call = NoCall /\ (tool.left = 0 \/ tool.rv = "error")
    /\ exit' = tool
    /\ held' = held \ {"archive"}
    /\ tool' = NoTool /\ answer' = NoAnswer
    /\ UNCHANGED call

\* init_context of sqshfs: what fails after the archive was opened ends the program as well.
Mount == OpenArchive("sqshfs2", 0)

\* A request to a mounted archive; the kernel opens a file before it reads it, and releases it.
Request(fn, n) ==
    /\ tool.name = "sqshfs2"
    /\ (fn \in {"fs_read", "fs_release"}) => ("fh" \in held)
    /\ fn = "fs_open" => "fh" \notin held
    /\ Begin(fn, n)
    /\ UNCHANGED <<tool, held, answer, exit>>

Unmount ==
    /\ tool.name = "sqshfs2" /\ call = NoCall /\ "fh" \notin held
    /\ exit' = tool /\ held' = held \ {"archive"}
    /\ tool' = NoTool /\ answer' = NoAnswer
    /\ UNCHANGED call

FrontNext ==
    \/ \E fn \in DOMAIN Easy, n \in 0..MaxItems : CallEasy(fn, n)
    \/ \E name \in DOMAIN Tools, paths \in 1..MaxPaths : Start(name, paths)
    \/ \E n \in 0..MaxItems : NextPath(n)
    \/ \E fn \in DOMAIN Handlers, n \in 0..MaxItems : Request(fn, n)
    \/ Step \/ StepFails \/ StepAbsent \/ Item \/ ItemFails \/ ListingLost \/ CollectFails \/ Return
    \/ KeyCopyFails
    \/ Free \/ EndOfMain \/ Mount \/ Unmount

FrontSpec == FrontInit /\ [][FrontNext]_frontVars

-----------------------------------------------------------------------------
(* Properties *)

\* Whatever fails in it, a function keeps nothing but the result it hands out; a program keeps
\* nothing.  Only the collector's copy of a key is left when the list it goes to cannot grow.
\* And who calls the easy API, or fs_open, has the result in his hands exactly when he is told of
\* success: what was read before an error is never handed out with the error, nor kept back
\* with a success.
KeepsOnlyResult ==
    /\ call = NoCall =>
         held \ {"archive", "fh"} = ({answer.result} \ {"none", "fh"})
             \cup (IF answer.failed = "collect" /\ answer.fn \in Collectors THEN {"value"} ELSE {})
    /\ answer.fn \in DOMAIN Easy \cup {"fs_open"} =>
         answer.result = IF answer.told = "ok" THEN Scripts[answer.fn].result ELSE "none"

\* Who is told that all went well has everything, the whole content, every entry, every name;
\* only the listings of sqsh-ls and of the FUSE 2 file system can be short without a word, and
\* the list of sqsh_easy_tree_traversal, where a directory below the start whose listing failed
\* is left as it is; whatever else fails, it tells.
\* The exit status of sqsh-stat tells whether anything failed, that of sqsh-cat and sqsh-xattr
\* whether the last path did; no program reports a failure that there was not.
TellsFailure ==
    /\ answer.told = "ok" /\ answer.fn \notin {"sqsh_ls", "fs_readdir"} =>
         /\ answer.failed = "none"
         /\ answer.fn # "sqsh_easy_tree_traversal" => answer.complete
    /\ exit.name \in {"sqsh_stat", "sqsh_stat_image"} => (exit.rv = "ok" <=> ~exit.failed)
    /\ exit.name \in {"sqsh_cat", "sqsh_xattr"} => (exit.rv = "ok" <=> ~exit.last)
    /\ exit.rv # "ok" => exit.failed

\* sqsh-ls and sqsh-cat exit with 0 on success and with another status on failure, as their
\* manual pages say.
StatusTellsFailure == exit.rv = "ok" => ~exit.failed

\* err is 0 only when nothing went wrong: sqsh_easy.h promises a list on success and NULL on error
\* of every function that makes one but sqsh_easy_tree_traversal, of which it says nothing.
EasyTellsFailure == answer.fn \in DOMAIN Easy /\ answer.told = "ok" => answer.complete
=============================================================================
