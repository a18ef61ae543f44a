---------------------------- MODULE TreeTraversal ----------------------------
(***************************************************************************)
(* The recursive traversal of libsqsh/src/tree/traversal.c, driven by a    *)
(* caller that calls sqsh_tree_traversal_next until it returns false.  The *)
(* traversal keeps a stack of directories, each with its file and its      *)
(* iterator.  A step is one call of next.  Names are the positions of the  *)
(* entries in their directory.                                             *)
(***************************************************************************)
EXTENDS Naturals, Sequences, FiniteSets

CONSTANTS Dir,           \* inode references of directories
          Leaf,          \* inode references of everything else
          CheckDepth,    \* RECURSION_CHECK_DEPTH
          MaxDepths,     \* the depth limits a caller may set
          MaxEntries     \* bound: entries of a directory

Inode == Dir \cup Leaf

ASSUME TreeAssumption ==
    /\ IsFiniteSet(Dir) /\ Dir \cap Leaf = {}
    /\ CheckDepth \in Nat \ {0} /\ MaxEntries \in Nat /\ MaxDepths \subseteq Nat

Listings == UNION {[1..n -> Inode] : n \in 0..MaxEntries}

VARIABLES entries,    \* the archive: what each directory lists, in order
          base,       \* base_file
          max_depth,
          state,
          stack,      \* per element its file, and how many entries its
                      \* iterator has read (0: not initialised)
          current,    \* current_iterator: an index of stack, 0 for NULL
          depth,
          err,        \* whether *err holds an error
          more,       \* what the last call returned
          fault       \* history: whether any call underneath has failed

tree == <<entries, base, max_depth>>
vars == <<entries, base, max_depth, state, stack, current, depth, err, more, fault>>

Init ==
    /\ entries \in [Dir -> Listings] /\ base \in Inode /\ max_depth \in MaxDepths
    /\ state = "INIT"
    /\ stack = <<[file |-> base, at |-> 0]>>
    /\ current = 0 /\ depth = 0
    /\ err = FALSE /\ more = TRUE /\ fault = FALSE

Stop(e) == more' = FALSE /\ err' = e

(***************************************************************************)
(* pop_stack, and the depth that goes with it.                             *)
(***************************************************************************)
Pop(d) ==
    /\ state' = "DIRECTORY_END"
    /\ stack' = SubSeq(stack, 1, Len(stack) - 1)
    /\ current' = Len(stack) - 1
    /\ depth' = d - 1
    /\ UNCHANGED more

(***************************************************************************)
(* push_stack: its file may fail to load, and is pulled again then.        *)
(***************************************************************************)
Push(st, ref) ==
    \/ /\ stack' = Append(st, [file |-> ref, at |-> 0])
       /\ state' = "DIRECTORY_BEGIN"
       /\ err' = FALSE
       /\ UNCHANGED <<more, fault>>
    \/ /\ Stop(TRUE)
       /\ fault' = TRUE
       /\ stack' = st
       /\ UNCHANGED state

(***************************************************************************)
(* file_next with a current iterator (stack index c) at depth d.  When the *)
(* iterator has no more entries, or fails, the directory ends and next     *)
(* returns true.                                                           *)
(***************************************************************************)
\* Mutant of ListEntry: an entry at the depth limit is entered.
ListEntryTooDeep(c, d) ==
    LET top == stack[c]
        st  == [stack EXCEPT ![c].at = @ + 1]
        ref == entries[top.file][top.at + 1] IN
    /\ top.at < Len(entries[top.file])
    /\ current' = c /\ depth' = d
    /\ \/ ref \in Dir /\ d <= max_depth /\ Push(st, ref)
       \/ /\ ~(ref \in Dir /\ d <= max_depth)
          /\ stack' = st /\ state' = "FILE" /\ err' = FALSE
          /\ UNCHANGED <<more, fault>>

\* Mutant of ListEntry: entering a directory does not consume its entry.
ListEntryAgain(c, d) ==
    LET top == stack[c]
        st  == [stack EXCEPT ![c].at = @ + 1]
        ref == entries[top.file][top.at + 1] IN
    /\ top.at < Len(entries[top.file])
    /\ current' = c /\ depth' = d
    /\ \/ ref \in Dir /\ d < max_depth /\ Push(stack, ref)
       \/ /\ ~(ref \in Dir /\ d < max_depth)
          /\ stack' = st /\ state' = "FILE" /\ err' = FALSE
          /\ UNCHANGED <<more, fault>>

ListEntry(c, d) ==
    LET top == stack[c]
        st  == [stack EXCEPT ![c].at = @ + 1]
        ref == entries[top.file][top.at + 1] IN
    /\ top.at < Len(entries[top.file])
    /\ current' = c /\ depth' = d
    /\ \/ ref \in Dir /\ d < max_depth /\ Push(st, ref)
       \/ /\ ~(ref \in Dir /\ d < max_depth)
          /\ stack' = st /\ state' = "FILE" /\ err' = FALSE
          /\ UNCHANGED <<more, fault>>

\* Mutant of ListEnd: the depth is left as it is.
ListEndDepth(c, d) ==
    /\ stack[c].at = Len(entries[stack[c].file])
    /\ err' = FALSE
    /\ Pop(d + 1)
    /\ UNCHANGED fault

ListEnd(c, d) ==
    /\ stack[c].at = Len(entries[stack[c].file])
    /\ err' = FALSE
    /\ Pop(d)
    /\ UNCHANGED fault

ListFails(d) ==
    /\ err' = TRUE /\ fault' = TRUE
    /\ Pop(d)

List(c, d) == ListEntry(c, d) \/ ListEnd(c, d) \/ ListFails(d)

(***************************************************************************)
(* check_recursion: from some depth on, a directory that is already on the *)
(* stack is refused.                                                       *)
(***************************************************************************)
\* Mutant of Recursion: the check waits for a depth that is never reached.
RecursionNever == FALSE

Recursion == \E i \in 1..(Len(stack) - 1) : stack[i].file = stack[Len(stack)].file

(***************************************************************************)
(* init_next, which leaves *err alone.                                     *)
(***************************************************************************)
InitNext ==
    /\ state = "INIT"
    /\ state' = IF max_depth # 0 /\ base \in Dir THEN "DIRECTORY_BEGIN" ELSE "FILE"
    /\ UNCHANGED <<tree, stack, current, depth, err, more, fault>>

(***************************************************************************)
(* directory_begin_next: the directory on top of the stack is opened and   *)
(* its first entry read.                                                   *)
(***************************************************************************)
BeginRecurses ==
    /\ state = "DIRECTORY_BEGIN"
    /\ depth + 1 >= CheckDepth /\ Recursion
    /\ depth' = depth + 1
    /\ Stop(TRUE)
    /\ UNCHANGED <<tree, state, stack, current, fault>>

BeginOpenFails ==
    /\ state = "DIRECTORY_BEGIN"
    /\ ~(depth + 1 >= CheckDepth /\ Recursion)
    /\ depth' = depth + 1
    /\ current' = Len(stack)
    /\ Stop(TRUE)
    /\ fault' = TRUE
    /\ UNCHANGED <<tree, state, stack>>

BeginNext ==
    /\ state = "DIRECTORY_BEGIN"
    /\ ~(depth + 1 >= CheckDepth /\ Recursion)
    /\ List(Len(stack), depth + 1)
    /\ UNCHANGED tree

(***************************************************************************)
(* file_next.  Without a current iterator it leaves *err alone.            *)
(***************************************************************************)
FileNext ==
    /\ state \in {"FILE", "DIRECTORY_END"} /\ current # 0
    /\ List(current, depth)
    /\ UNCHANGED tree

WalkOver ==
    /\ state \in {"FILE", "DIRECTORY_END"} /\ current = 0
    /\ Stop(err)
    /\ UNCHANGED <<tree, state, stack, current, depth, fault>>

(***************************************************************************)
(* sqsh__tree_traversal_cleanup, once the caller is done: pop_stack until  *)
(* the stack is empty.                                                     *)
(***************************************************************************)
Cleanup ==
    /\ ~more /\ stack # <<>>
    /\ stack' = <<>> /\ current' = 0 /\ state' = "DIRECTORY_END"
    /\ UNCHANGED <<tree, depth, err, more, fault>>

Call ==
    /\ more
    /\ InitNext \/ BeginRecurses \/ BeginOpenFails \/ BeginNext \/ FileNext \/ WalkOver

Next == Call \/ Cleanup

\* The caller loops until next returns false.
Spec == Init /\ [][Next]_vars /\ WF_vars(Next)

(***************************************************************************)
(* What a caller asks for after a visit: sqsh_tree_traversal_path_dup, and *)
(* the file sqsh_tree_traversal_open_file opens.                           *)
(***************************************************************************)
path_dup == [i \in 1..depth |-> stack[i].at]

Opened == IF current = 0 THEN base ELSE entries[stack[current].file][stack[current].at]

-----------------------------------------------------------------------------
TypeOK ==
    /\ entries \in [Dir -> Listings] /\ base \in Inode /\ max_depth \in MaxDepths
    /\ state \in {"INIT", "DIRECTORY_BEGIN", "DIRECTORY_END", "FILE"}
    /\ stack \in Seq([file : Inode, at : Nat])
    /\ current \in 0..Len(stack) /\ depth \in Nat
    /\ err \in BOOLEAN /\ more \in BOOLEAN /\ fault \in BOOLEAN

\* What a caller does after each visit is safe: every segment of the path
\* (sqsh_tree_traversal_path_segment, path_dup) is read from an iterator that
\* exists and stands on the entry the traversal took to get here.  The file that
\* sqsh_tree_traversal_open_file opens is the one that path leads to.
PathReadable ==
    more =>
      /\ depth <= Len(stack)
      /\ \A i \in 1..depth :
           /\ stack[i].file \in Dir
           /\ stack[i].at \in 1..Len(entries[stack[i].file])
           /\ i < Len(stack) => stack[i + 1].file = entries[stack[i].file][stack[i].at]
      /\ Opened = IF depth = 0 THEN base ELSE entries[stack[depth].file][path_dup[depth]]
      /\ state = "DIRECTORY_BEGIN" => Opened = stack[Len(stack)].file

\* However the archive's directories contain each other, the recursion check
\* bounds the stack.
StackBounded == Len(stack) <= CheckDepth + Cardinality(Dir)

\* Every walk ends, on cyclic archives too.
WalkEnds == <>~more

\* The header (include/sqsh_tree.h:533) says next returns false when an error
\* occurred, and callers (tools/src/unpack.c:460, examples/traverse_dir_ll.c:53)
\* look at the error only after the loop: a walk that ran into an error ends
\* with it.
ErrorsReachCaller == ~more /\ fault => err

\* The traversal is a walk over the tree: each visit is the one that follows
\* from the last, nothing is skipped unless a listing failed, and it gives up
\* only for a reason.
trail == [i \in 1..depth |-> [dir |-> stack[i].file, at |-> path_dup[i]]]

TW == INSTANCE TreeWalk WITH
        visit  <- IF state = "INIT" \/ ~more THEN [kind |-> "NONE", trail |-> <<>>]
                  ELSE [kind |-> state, trail |-> trail],
        result <- IF more THEN "walking" ELSE IF err THEN "failed" ELSE "done"

WalksInOrder == TW!Spec
-----------------------------------------------------------------------------
(***************************************************************************)
(* The inductive invariant: the depth, the iterator and the stack agree in *)
(* each state; the stack is a path of the archive; and from CheckDepth on  *)
(* no directory is on it twice, but for a new one not checked yet.         *)
(***************************************************************************)
Shape ==
    /\ state = "INIT" => depth = 0 /\ current = 0 /\ stack = <<[file |-> base, at |-> 0]>>
    /\ state = "DIRECTORY_BEGIN" =>
         /\ Len(stack) = depth + 1 /\ current = depth
         /\ stack[Len(stack)].file \in Dir /\ stack[Len(stack)].at = 0
    /\ state \in {"FILE", "DIRECTORY_END"} =>
         current = depth /\ (depth = Len(stack) \/ (depth = 0 /\ Len(stack) = 1))

OnPath(n) ==
    /\ stack # <<>> => stack[1].file = base
    /\ \A i \in 1..n :
         /\ stack[i].file \in Dir
         /\ stack[i].at \in 1..Len(entries[stack[i].file])
         /\ i < Len(stack) => stack[i + 1].file = entries[stack[i].file][stack[i].at]

NoRecursion(n) ==
    \A j \in CheckDepth..n : stack[j].file \in Dir /\ \A i \in 1..(j - 1) : stack[i].file # stack[j].file

IInv ==
    /\ TypeOK
    /\ more => Shape /\ OnPath(depth) /\ NoRecursion(depth) /\ (err => fault)
    /\ StackBounded
=============================================================================
