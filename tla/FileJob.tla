------------------------------- MODULE FileJob -------------------------------
(***************************************************************************)
(* What sqsh_file_iterator_mt and sqsh_file_to_stream_mt promise to their  *)
(* caller: the callback sees every block of the file at most once, in any  *)
(* order, and is then called exactly once more, without an iterator, to    *)
(* say how it went.  "ok" means that every block was delivered.  A call    *)
(* that cannot even start is refused: it returns an error and no callback  *)
(* is ever made.                                                           *)
(***************************************************************************)
EXTENDS Naturals

CONSTANT BlockCount   \* blocks of the file, its fragment included

Block == 0..(BlockCount - 1)

VARIABLES delivered,  \* the blocks the callback was called for
          report      \* "none" until the final callback; "refused" without one

vars == <<delivered, report>>

Init == delivered = {} /\ report = "none"

Deliver(b) ==
    /\ report = "none" /\ b \notin delivered
    /\ delivered' = delivered \cup {b}
    /\ UNCHANGED report

Succeed ==
    /\ report = "none" /\ delivered = Block
    /\ report' = "ok"
    /\ UNCHANGED delivered

Fail ==
    /\ report = "none"
    /\ report' = "error"
    /\ UNCHANGED delivered

Refuse ==
    /\ report = "none" /\ delivered = {}
    /\ report' = "refused"
    /\ UNCHANGED delivered

Next == (\E b \in Block : Deliver(b)) \/ Succeed \/ Fail \/ Refuse

\* The caller is always told in the end.
Spec == Init /\ [][Next]_vars /\ WF_vars(Next)
==============================================================================
