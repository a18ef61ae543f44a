---------------------------- MODULE FileIteratorMt ----------------------------
(***************************************************************************)
(* libsqsh/src/posix/file_ext.c: iterating over a file on a thread pool.   *)
(*                                                                         *)
(* The calling thread schedules one task per block.  The tasks and the     *)
(* caller share the heap object mt: whoever brings mt->remaining_blocks to *)
(* zero makes the final callback and frees mt.  The model is that of       *)
(* sqsh_file_to_stream_mt, whose callback (stream_worker) can itself fail  *)
(* and store an error; sqsh_file_iterator_mt differs in the callback only. *)
(***************************************************************************)
EXTENDS Naturals, FiniteSets

CONSTANTS BlockCount,   \* blocks of the file, its fragment included
          HasFragment,  \* the last block is a fragment, without a block-size entry
          Workers       \* threads of the pool

ASSUME BlockCountAssumption  == BlockCount \in Nat
ASSUME HasFragmentAssumption == HasFragment \in BOOLEAN
ASSUME WorkersAssumption     == Workers \in Nat \ {0}

Block == 0..(BlockCount - 1)

\* sqsh_file_block_count2: blocks with an entry in the block-size list.
DataBlockCount == IF HasFragment /\ BlockCount > 0 THEN BlockCount - 1 ELSE BlockCount

VARIABLES main,       \* how far the calling thread has come
          next,       \* its loop variable i, which is also "scheduled"
          err,        \* its local rv is an error
          alive,      \* mt is allocated
          rv,         \* mt->rv is an error
          remaining,  \* mt->remaining_blocks
          task,       \* how far the task of a block has come
          delivered,  \* the blocks the callback was called for (history)
          failed,     \* something has gone wrong (history)
          report      \* the final callback: "none", "ok" or "error"; or "refused"

vars == <<main, next, err, alive, rv, remaining, task, delivered, failed, report>>

\* Tasks that have not subtracted themselves from remaining_blocks yet.
Running == {"iterate", "deliver", "store", "count"}
Open == {"new", "queued"} \cup Running

TypeOK ==
    /\ main \in {"calloc", "open", "blocks", "schedule", "size", "error", "settle",
                 "cleanup", "returned"}
    /\ next \in 0..BlockCount
    /\ err \in BOOLEAN /\ alive \in BOOLEAN /\ rv \in BOOLEAN /\ failed \in BOOLEAN
    /\ remaining \in Nat
    /\ task \in [Block -> Open \cup {"skipped", "cleanup", "done"}]
    /\ delivered \subseteq Block
    /\ report \in {"none", "ok", "error", "refused"}

Init ==
    /\ main = "calloc" /\ next = 0 /\ err = FALSE
    /\ alive = FALSE /\ rv = FALSE /\ remaining = 0
    /\ task = [b \in Block |-> "new"]
    /\ delivered = {} /\ failed = FALSE /\ report = "none"

\* file_iterator_mt_cleanup: the final callback, then the file and mt are released.
Cleanup(isError) ==
    /\ report' = IF isError THEN "error" ELSE "ok"
    /\ alive' = FALSE

-----------------------------------------------------------------------------
(* The calling thread *)

Calloc ==
    /\ main = "calloc"
    /\ alive' = TRUE /\ main' = "open"
    /\ UNCHANGED <<next, err, rv, remaining, task, delivered, failed, report>>

CallocFails ==
    /\ main = "calloc"
    /\ report' = "refused" /\ main' = "returned"
    /\ UNCHANGED <<next, err, alive, rv, remaining, task, delivered, failed>>

\* Mutant of OpenFile: the fragment is not counted.
OpenFileWithoutFragment(ok) ==
    /\ main = "open"
    /\ remaining' = DataBlockCount /\ rv' = FALSE
    /\ err' = ~ok /\ failed' = (failed \/ ~ok)
    /\ main' = IF ~ok THEN "error" ELSE IF BlockCount = 0 THEN "cleanup" ELSE "blocks"
    /\ UNCHANGED <<next, alive, task, delivered, report>>

\* Sets up mt and opens mt->file; an empty file goes straight to the final callback.
OpenFile(ok) ==
    /\ main = "open"
    /\ remaining' = BlockCount /\ rv' = FALSE
    /\ err' = ~ok /\ failed' = (failed \/ ~ok)
    /\ main' = IF ~ok THEN "error" ELSE IF BlockCount = 0 THEN "cleanup" ELSE "blocks"
    /\ UNCHANGED <<next, alive, task, delivered, report>>

AllocBlocks(ok) ==
    /\ main = "blocks"
    /\ err' = ~ok /\ failed' = (failed \/ ~ok)
    /\ main' = IF ok THEN "schedule" ELSE "error"
    /\ UNCHANGED <<next, alive, rv, remaining, task, delivered, report>>

\* From here on the task can run, to its end, before the caller goes on.
Schedule ==
    /\ main = "schedule" /\ next < BlockCount
    /\ task' = [task EXCEPT ![next] = "queued"]
    /\ next' = next + 1
    /\ main' = IF next < DataBlockCount THEN "size" ELSE "schedule"
    /\ UNCHANGED <<err, alive, rv, remaining, delivered, failed, report>>

ScheduleFails ==
    /\ main = "schedule" /\ next < BlockCount
    /\ err' = TRUE /\ failed' = TRUE
    /\ main' = "error"
    /\ UNCHANGED <<next, alive, rv, remaining, task, delivered, report>>

\* sqsh_file_block_size2(&mt->file, i), after the task was scheduled.
ReadBlockSize ==
    /\ main = "size"
    /\ main' = "schedule"
    /\ UNCHANGED <<next, err, alive, rv, remaining, task, delivered, failed, report>>

ScheduledAll ==
    /\ main = "schedule" /\ next = BlockCount
    /\ main' = "returned"
    /\ UNCHANGED <<next, err, alive, rv, remaining, task, delivered, failed, report>>

\* Mutant of StoreError: cleans up without looking for scheduled tasks.
StoreErrorAndCleanup ==
    /\ main = "error"
    /\ rv' = TRUE
    /\ main' = "cleanup"
    /\ UNCHANGED <<next, err, alive, remaining, task, delivered, failed, report>>

\* out: the error is stored; without a scheduled task the caller cleans up itself.
StoreError ==
    /\ main = "error"
    /\ rv' = TRUE
    /\ main' = IF next = 0 THEN "cleanup" ELSE "settle"
    /\ UNCHANGED <<next, err, alive, remaining, task, delivered, failed, report>>

\* Mutants of Settle: nothing is subtracted; the caller does not notice that it was the last
\* one.
SettleNothing ==
    /\ main = "settle"
    /\ task' = [b \in Block |-> IF b >= next THEN "skipped" ELSE task[b]]
    /\ main' = "returned"
    /\ UNCHANGED <<next, err, alive, rv, remaining, delivered, failed, report>>

SettleWithoutCleanup ==
    /\ main = "settle"
    /\ remaining' = remaining - (BlockCount - next)
    /\ task' = [b \in Block |-> IF b >= next THEN "skipped" ELSE task[b]]
    /\ main' = "returned"
    /\ UNCHANGED <<next, err, alive, rv, delivered, failed, report>>

\* The blocks that were not scheduled are subtracted on behalf of their tasks.
Settle ==
    /\ main = "settle"
    /\ remaining' = remaining - (BlockCount - next)
    /\ task' = [b \in Block |-> IF b >= next THEN "skipped" ELSE task[b]]
    /\ main' = IF remaining = BlockCount - next THEN "cleanup" ELSE "returned"
    /\ UNCHANGED <<next, err, alive, rv, delivered, failed, report>>

MainCleanup ==
    /\ main = "cleanup"
    /\ Cleanup(err)
    /\ main' = "returned"
    /\ UNCHANGED <<next, err, rv, remaining, task, delivered, failed>>

Main ==
    \/ Calloc \/ CallocFails
    \/ \E ok \in BOOLEAN : OpenFile(ok) \/ AllocBlocks(ok)
    \/ Schedule \/ ScheduleFails \/ ReadBlockSize \/ ScheduledAll
    \/ StoreError \/ Settle \/ MainCleanup

-----------------------------------------------------------------------------
(* iterator_worker, the task of block b *)

\* A thread of the pool picks the task up.
Start(b) ==
    /\ task[b] = "queued"
    /\ Cardinality({c \in Block : task[c] \in Running \cup {"cleanup"}}) < Workers
    /\ task' = [task EXCEPT ![b] = "iterate"]
    /\ UNCHANGED <<main, next, err, alive, rv, remaining, delivered, failed, report>>

\* Positioning an iterator on the block and getting its data, or not.
Iterate(b, ok) ==
    /\ task[b] = "iterate"
    /\ task' = [task EXCEPT ![b] = IF ok THEN "deliver" ELSE "store"]
    /\ failed' = (failed \/ ~ok)
    /\ UNCHANGED <<main, next, err, alive, rv, remaining, delivered, report>>

\* The callback; writing to the stream can fail.
DeliverBlock(b, ok) ==
    /\ task[b] = "deliver"
    /\ delivered' = delivered \cup {b}
    /\ rv' = (rv \/ ~ok) /\ failed' = (failed \/ ~ok)
    /\ task' = [task EXCEPT ![b] = "count"]
    /\ UNCHANGED <<main, next, err, alive, remaining, report>>

\* Mutant of StoreTaskError: the error stays in the task.
StoreTaskErrorForgets(b) ==
    /\ task[b] = "store"
    /\ task' = [task EXCEPT ![b] = "count"]
    /\ UNCHANGED <<main, next, err, alive, rv, remaining, delivered, failed, report>>

StoreTaskError(b) ==
    /\ task[b] = "store"
    /\ rv' = TRUE
    /\ task' = [task EXCEPT ![b] = "count"]
    /\ UNCHANGED <<main, next, err, alive, remaining, delivered, failed, report>>

\* atomic_fetch_sub: the one that takes the last block off cleans up.
CountDown(b) ==
    /\ task[b] = "count"
    /\ remaining' = remaining - 1
    /\ task' = [task EXCEPT ![b] = IF remaining = 1 THEN "cleanup" ELSE "done"]
    /\ UNCHANGED <<main, next, err, alive, rv, delivered, failed, report>>

TaskCleanup(b) ==
    /\ task[b] = "cleanup"
    /\ Cleanup(rv)
    /\ task' = [task EXCEPT ![b] = "done"]
    /\ UNCHANGED <<main, next, err, rv, remaining, delivered, failed>>

Task(b) ==
    \/ Start(b)
    \/ \E ok \in BOOLEAN : Iterate(b, ok) \/ DeliverBlock(b, ok)
    \/ StoreTaskError(b) \/ CountDown(b) \/ TaskCleanup(b)

Next == Main \/ \E b \in Block : Task(b)

\* The caller runs on; the pool runs every task it was given.
Fairness == WF_vars(Main) /\ \A b \in Block : WF_vars(Task(b))

Spec == Init /\ [][Next]_vars /\ Fairness
-----------------------------------------------------------------------------
(* Properties *)

\* What the calls promise, see FileJob; delivered and report are its variables.
Promise == INSTANCE FileJob
PromiseKept == Promise!Spec

\* Tasks only ever touch a live mt, and so does the caller outside the loop
\* (file_ext.c:107-144, 213-226): nobody frees it while somebody still counts.
TasksUseLiveMt ==
    /\ \A b \in Block : task[b] \in {"queued", "cleanup"} \cup Running => alive
    /\ main \in {"open", "blocks", "error", "settle", "cleanup"} => alive

\* mt lives until the final callback was made, and no longer.
FreedWhenReported == alive <=> main # "calloc" /\ report = "none"

\* The final callback is the last one: no block is still being worked on.
FinalCallbackLast ==
    report # "none" => \A b \in Block : task[b] \in {"new", "skipped", "done"}

\* No failure is swallowed: opening, allocating, scheduling, iterating or writing.
NoErrorLost == report = "ok" => ~failed /\ delivered = Block

\* The counter is the number of blocks not accounted for yet, so the assertion in
\* iterator_worker (file_ext.c:140) never fails and zero is reached exactly once.
CounterExact ==
    /\ alive /\ main # "open" => remaining = Cardinality({b \in Block : task[b] \in Open})
    /\ \A b \in Block : task[b] = "count" => remaining > 0

\* libsqsh/README.md:19 "libsqsh is thread-safe": the caller's loop reads mt->file
\* after scheduling the task of a data block (file_ext.c:208-210), and must find mt
\* alive.
SchedulerUsesLiveMt == main = "size" => alive
-----------------------------------------------------------------------------
(* The inductive strengthening used by the proofs *)

\* The caller has scheduled the blocks below next, in order.
ScheduleOK ==
    /\ \A b \in Block : task[b] \in {"new", "skipped"} <=> b >= next
    /\ \A b \in Block : task[b] = "skipped" => main \in {"cleanup", "returned"} /\ err
    /\ main \in {"calloc", "open", "blocks"} => next = 0 /\ report = "none"
    /\ main = "settle" => 0 < next /\ next < BlockCount
    /\ main = "error" => next = 0 \/ next < BlockCount
    /\ main = "returned" /\ ~err /\ report # "refused" => next = BlockCount
    /\ main = "cleanup" => \A b \in Block : task[b] \in {"new", "skipped", "done"}
    /\ main \in {"blocks", "schedule", "size"} => BlockCount > 0
    /\ main = "returned" /\ report = "none" => BlockCount > 0

\* There is one cleanup at most, and it comes when nothing is open any more.
CleanupOK ==
    /\ \A b \in Block : task[b] = "cleanup" =>
          /\ report = "none" /\ remaining = 0
          /\ main \in {"schedule", "size", "returned"}
          /\ \A c \in Block : task[c] = "cleanup" => c = b
    /\ report # "none" => main \in {"schedule", "size", "returned"} /\ FinalCallbackLast
    /\ report \in {"ok", "error"} /\ main \in {"schedule", "size"} => next = BlockCount
    /\ main \in {"cleanup", "error", "settle"} => report = "none"
    /\ report = "refused" => main = "returned" /\ next = 0 /\ delivered = {}

\* Where an error is on its way to mt->rv.
ErrorOK ==
    /\ failed /\ report = "none" => rv \/ err \/ \E b \in Block : task[b] = "store"
    /\ err => failed /\ main \in {"error", "settle", "cleanup", "returned"}
    /\ main \in {"error", "settle"} => err
    /\ main = "cleanup" => err \/ (BlockCount = 0 /\ ~failed)
    /\ main \in {"settle", "cleanup", "returned"} /\ err => rv
    /\ rv => failed
    /\ main \in {"calloc", "open"} => ~failed
    /\ \A b \in Block : task[b] = "store" => failed

DeliveredOK ==
    /\ \A b \in delivered : task[b] \in {"count", "cleanup", "done"}
    /\ \A b \in Block : task[b] \in {"count", "cleanup", "done"} => b \in delivered \/ failed

IInv ==
    /\ TypeOK
    /\ FreedWhenReported
    /\ CounterExact
    /\ ScheduleOK
    /\ CleanupOK
    /\ ErrorOK
    /\ DeliveredOK
    /\ NoErrorLost
=============================================================================
