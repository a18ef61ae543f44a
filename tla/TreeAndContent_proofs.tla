-------------------------- MODULE TreeAndContent_proofs --------------------------
(***************************************************************************)
(* What a program that walks an archive and reads its files gets to see,   *)
(* proved for every archive and every file.                                *)
(*                                                                         *)
(* The tree (TreeTraversal), for any depth limit and recursion check       *)
(* depth.  The invariant IInv says that the stack is the path of the       *)
(* archive that the last visit stands for; from it follow what callers     *)
(* read after a visit, the bound of the stack and the simulation of the    *)
(* walk that TreeWalk describes.                                           *)
(*                                                                         *)
(* The content (FileContent), for any sizes of blocks, of the zero block   *)
(* and of slices.  The invariant ContentInv says that an iterator shows    *)
(* the bytes that end at its place in the file, that what is left of a     *)
(* sparse run is zero there, and that its window ends where its next block *)
(* is stored; and of each program, that what it has received so far and    *)
(* what it still asks for meet at that place.                              *)
(***************************************************************************)
EXTENDS TreeTraversal, FileContent, FiniteSetTheorems, SequenceTheorems, WellFoundedInduction, TLAPS

-----------------------------------------------------------------------------
(* The tree: the stack is a path of the archive *)

Element == [file : Inode, at : Nat]

LEMMA ListingSeq ==
    ASSUME TypeOK, NEW d \in Dir
    PROVE  /\ entries[d] \in Seq(Inode)
           /\ Len(entries[d]) \in Nat
           /\ \A i \in 1..Len(entries[d]) : entries[d][i] \in Inode
  <1>1. entries[d] \in Listings
    BY DEF TypeOK
  <1>2. PICK n \in 0..MaxEntries : entries[d] \in [1..n -> Inode]
    BY <1>1 DEF Listings
  <1>3. n \in Nat
    BY <1>2, TreeAssumption
  <1>4. entries[d] \in Seq(Inode)
    BY <1>2, <1>3
  <1> QED BY <1>4

\* The pigeonhole behind StackBounded: from CheckDepth on the files of the stack differ.
LEMMA DistinctBound ==
    ASSUME NEW s, NEW m \in Nat, Len(s) \in Nat, Len(s) <= m + 1,
           \A j \in CheckDepth..m : s[j].file \in Dir /\ \A i \in 1..(j - 1) : s[i].file # s[j].file
    PROVE  Len(s) <= CheckDepth + Cardinality(Dir)
  <1>1. CheckDepth \in Nat /\ CheckDepth > 0 /\ IsFiniteSet(Dir) /\ Cardinality(Dir) \in Nat
    BY TreeAssumption, FS_CardinalityType
  <1>2. CASE m < CheckDepth
    BY <1>1, <1>2
  <1>3. CASE m >= CheckDepth
    <2> DEFINE f == [j \in CheckDepth..m |-> s[j].file]
    <2>1. f \in Injection(CheckDepth..m, Dir)
      <3>1. f \in [CheckDepth..m -> Dir]
        OBVIOUS
      <3>2. ASSUME NEW i \in CheckDepth..m, NEW j \in CheckDepth..m, i < j
            PROVE  f[i] # f[j]
        <4>1. i \in 1..(j - 1)
          BY <1>1, <3>2
        <4> QED BY <4>1
      <3>3. \A i, j \in CheckDepth..m : i # j => i < j \/ j < i
        BY <1>1
      <3>4. \A i, j \in CheckDepth..m : f[i] = f[j] => i = j
        BY <3>2, <3>3
      <3> HIDE DEF f
      <3> QED BY <3>1, <3>4 DEF Injection, IsInjective
    <2>2. Cardinality(CheckDepth..m) <= Cardinality(Dir)
      BY <1>1, <2>1, FS_Injection
    <2>3. Cardinality(CheckDepth..m) = m - CheckDepth + 1
      BY <1>1, <1>3, FS_Interval
    <2> QED BY <1>1, <2>2, <2>3
  <1> QED BY <1>1, <1>2, <1>3

-----------------------------------------------------------------------------
\* What file_next relies on: it reads the directory on top of the stack, which
\* the stack below leads to.
Reading(c) ==
    /\ TypeOK /\ more
    /\ c \in Nat /\ c > 0 /\ c = Len(stack)
    /\ OnPath(c - 1) /\ stack[c].file \in Dir
    /\ NoRecursion(c)
    /\ StackBounded

LEMMA PopStep ==
    ASSUME NEW c, Reading(c), Pop(c), UNCHANGED tree,
           err' \in BOOLEAN, fault' \in BOOLEAN, err' => fault'
    PROVE  IInv'
  <1>1. stack \in Seq(Element) /\ c \in Nat /\ c > 0 /\ c = Len(stack) /\ more'
    BY DEF Reading, TypeOK, Element, Pop
  <1>2. /\ stack' \in Seq(Element)
        /\ Len(stack') = c - 1
        /\ \A i \in 1..(c - 1) : stack'[i] = stack[i]
    <2>1. stack' = SubSeq(stack, 1, c - 1)
      BY <1>1 DEF Pop
    <2>2. \A i \in 1..(c - 1) : stack[i] \in Element
      BY <1>1
    <2> QED BY <1>1, <2>1, <2>2, SubSeqProperties
  <1>3. depth' = c - 1 /\ current' = c - 1 /\ state' = "DIRECTORY_END"
    BY <1>1 DEF Pop
  <1>4. TypeOK'
    BY <1>1, <1>2, <1>3 DEF Reading, TypeOK, Pop, tree, Element
  <1>5. Shape'
    BY <1>1, <1>2, <1>3 DEF Shape
  <1>6. OnPath(depth)'
    <2>1. ASSUME stack' # <<>>
          PROVE  stack'[1].file = base'
      BY <1>1, <1>2, <2>1 DEF Reading, OnPath, tree
    <2>2. ASSUME NEW i \in 1..(c - 1)
          PROVE  /\ stack'[i].file \in Dir
                 /\ stack'[i].at \in 1..Len(entries'[stack'[i].file])
                 /\ i < c - 1 => stack'[i + 1].file = entries'[stack'[i].file][stack'[i].at]
      <3>1. entries' = entries
        BY DEF tree
      <3>2. /\ stack[i].file \in Dir
            /\ stack[i].at \in 1..Len(entries[stack[i].file])
            /\ stack[i + 1].file = entries[stack[i].file][stack[i].at]
        BY <1>1 DEF Reading, OnPath
      <3>3. i < c - 1 => i + 1 \in 1..(c - 1)
        BY <1>1
      <3> QED BY <1>2, <3>1, <3>2, <3>3
    <2> QED BY <1>2, <1>3, <2>1, <2>2 DEF OnPath
  <1>7. NoRecursion(depth)'
    BY <1>1, <1>2, <1>3, TreeAssumption DEF Reading, NoRecursion
  <1>8. StackBounded'
    BY <1>1, <1>2, TreeAssumption, FS_CardinalityType DEF Reading, StackBounded
  <1> QED BY <1>4, <1>5, <1>6, <1>7, <1>8 DEF IInv

ReadOne(c) == [stack EXCEPT ![c].at = @ + 1]

\* The stack after the iterator on its top has read one more entry.
LEMMA ReadEntry ==
    ASSUME NEW c, Reading(c), stack[c].at < Len(entries[stack[c].file])
    PROVE  /\ ReadOne(c) \in Seq(Element) /\ Len(ReadOne(c)) = c
           /\ \A i \in 1..(c - 1) : ReadOne(c)[i] = stack[i]
           /\ ReadOne(c)[c].file = stack[c].file
           /\ ReadOne(c)[c].at = stack[c].at + 1
           /\ ReadOne(c)[c].at \in 1..Len(entries[ReadOne(c)[c].file])
           /\ entries[stack[c].file][stack[c].at + 1] \in Inode
  <1> DEFINE st == ReadOne(c)
  <1>1. stack \in Seq(Element) /\ c \in 1..Len(stack) /\ stack[c] \in Element
    <2>1. stack \in Seq(Element) /\ c \in Nat /\ c > 0 /\ c = Len(stack)
      BY DEF Reading, TypeOK, Element
    <2> QED BY <2>1
  <1>2. st = [stack EXCEPT ![c] = [stack[c] EXCEPT !.at = stack[c].at + 1]]
    BY DEF ReadOne
  <1>3. [stack[c] EXCEPT !.at = stack[c].at + 1] = [file |-> stack[c].file, at |-> stack[c].at + 1]
    BY <1>1 DEF Element
  <1>4. [file |-> stack[c].file, at |-> stack[c].at + 1] \in Element
    BY <1>1 DEF Element
  <1>5. /\ st \in Seq(Element) /\ Len(st) = Len(stack)
        /\ st[c] = [file |-> stack[c].file, at |-> stack[c].at + 1]
        /\ \A i \in 1..(c - 1) : st[i] = stack[i]
    BY <1>1, <1>2, <1>3, <1>4
  <1>6. Len(entries[stack[c].file]) \in Nat /\ stack[c].at \in Nat
    BY <1>1, ListingSeq DEF Reading, Element
  <1>7. stack[c].at + 1 \in 1..Len(entries[stack[c].file])
    BY <1>6
  <1>8. entries[stack[c].file][stack[c].at + 1] \in Inode
    BY <1>7, ListingSeq DEF Reading
  <1> QED BY <1>5, <1>7, <1>8 DEF Reading

\* An entry was read and the stack otherwise left alone: it still is a path.
LEMMA PathAfterEntry ==
    ASSUME NEW c, Reading(c), stack[c].at < Len(entries[stack[c].file]),
           UNCHANGED tree,
           NEW ref, ref = entries[stack[c].file][stack[c].at + 1],
           stack' = ReadOne(c) \/ stack' = Append(ReadOne(c), [file |-> ref, at |-> 0]),
           depth' = c
    PROVE  OnPath(depth)' /\ NoRecursion(depth)' /\ stack' \in Seq(Element)
  <1> DEFINE st == ReadOne(c)
  <1>1. /\ st \in Seq(Element) /\ Len(st) = c
        /\ \A i \in 1..(c - 1) : st[i] = stack[i]
        /\ st[c].file = stack[c].file
        /\ st[c].at = stack[c].at + 1
        /\ st[c].at \in 1..Len(entries[st[c].file])
        /\ ref \in Inode
    BY ReadEntry
  <1> HIDE DEF st
  <1>2. entries' = entries /\ base' = base /\ c \in Nat /\ c > 0 /\ c = Len(stack)
    BY DEF tree, Reading
  <1>3. [file |-> ref, at |-> 0] \in Element
    BY <1>1 DEF Element
  <1>4. /\ stack' \in Seq(Element) /\ Len(stack') \in {c, c + 1}
        /\ \A i \in 1..c : stack'[i] = st[i]
        /\ c < Len(stack') => stack'[c + 1].file = ref
    <2>1. stack' = st \/ stack' = Append(st, [file |-> ref, at |-> 0])
      BY DEF st
    <2>2. CASE stack' = st
      BY <1>1, <1>2, <2>2
    <2>3. CASE stack' = Append(st, [file |-> ref, at |-> 0])
      <3>1. /\ stack' \in Seq(Element) /\ Len(stack') = c + 1
            /\ \A i \in 1..c : stack'[i] = st[i]
            /\ stack'[c + 1] = [file |-> ref, at |-> 0]
        BY <1>1, <1>2, <1>3, <2>3, AppendProperties
      <3> QED BY <1>2, <3>1
    <2> QED BY <2>1, <2>2, <2>3
  <1>5. \A i \in 1..c : i = c \/ (i \in 1..(c - 1) /\ i + 1 \in 1..c)
    BY <1>2
  <1>6. \A i \in 1..c : stack'[i].file = stack[i].file
    BY <1>1, <1>4, <1>5
  <1>7. stack'[1].file = base
    <2>1. stack # <<>> /\ 1 \in 1..c
      BY <1>2
    <2> QED BY <1>6, <2>1 DEF Reading, OnPath
  <1>8. ASSUME NEW i \in 1..c
        PROVE  /\ stack'[i].file \in Dir
               /\ stack'[i].at \in 1..Len(entries[stack'[i].file])
               /\ i < Len(stack') => stack'[i + 1].file = entries[stack'[i].file][stack'[i].at]
    <2>1. CASE i = c
      BY <1>1, <1>2, <1>4, <2>1 DEF Reading
    <2>2. CASE i < c
      <3>1. /\ stack[i].file \in Dir
            /\ stack[i].at \in 1..Len(entries[stack[i].file])
            /\ stack[i + 1].file = entries[stack[i].file][stack[i].at]
        BY <1>2, <2>2 DEF Reading, OnPath
      <3>2. stack'[i] = stack[i] /\ stack'[i + 1].file = stack[i + 1].file
        BY <1>1, <1>2, <1>4, <1>6, <1>5, <2>2
      <3> QED BY <3>1, <3>2
    <2> QED BY <1>2, <2>1, <2>2
  <1>9. NoRecursion(depth)'
    <2>1. \A j \in CheckDepth..c : j \in 1..c
      BY <1>2, TreeAssumption
    <2>2. \A j \in 1..c : \A i \in 1..(j - 1) : i \in 1..c
      BY <1>2
    <2> QED BY <1>2, <1>6, <2>1, <2>2 DEF Reading, NoRecursion
  <1> QED BY <1>2, <1>4, <1>7, <1>8, <1>9 DEF OnPath

LEMMA TypeStep ==
    ASSUME TypeOK, UNCHANGED tree,
           state' \in {"INIT", "DIRECTORY_BEGIN", "DIRECTORY_END", "FILE"},
           stack' \in Seq(Element), current' \in 0..Len(stack'), depth' \in Nat,
           err' \in BOOLEAN, more' \in BOOLEAN, fault' \in BOOLEAN
    PROVE  TypeOK'
  <1>1. entries' = entries /\ base' = base /\ max_depth' = max_depth
    BY DEF tree
  <1> QED BY <1>1 DEF TypeOK, Element

LEMMA ListEntryStep ==
    ASSUME NEW c, Reading(c), ListEntry(c, c), UNCHANGED tree, err => fault
    PROVE  IInv'
  <1> DEFINE st  == ReadOne(c)
             ref == entries[stack[c].file][stack[c].at + 1]
  <1>1. /\ stack[c].at < Len(entries[stack[c].file])
        /\ current' = c /\ depth' = c
        /\ \/ ref \in Dir /\ c < max_depth /\ Push(st, ref)
           \/ /\ stack' = st /\ state' = "FILE" /\ err' = FALSE
              /\ UNCHANGED <<more, fault>>
    BY DEF ListEntry, ReadOne
  <1>2. /\ st \in Seq(Element) /\ Len(st) = c
        /\ c \in Nat /\ c > 0 /\ c = Len(stack)
        /\ err \in BOOLEAN /\ fault \in BOOLEAN /\ more
        /\ StackBounded /\ ref \in Inode
    BY <1>1, ReadEntry DEF Reading, TypeOK
  <1>3. CASE ref \in Dir /\ Push(st, ref) /\ more'
    <2>1. /\ stack' = Append(st, [file |-> ref, at |-> 0])
          /\ state' = "DIRECTORY_BEGIN" /\ err' = FALSE /\ fault' = fault
      BY <1>3 DEF Push, Stop
    <2>2. OnPath(depth)' /\ NoRecursion(depth)' /\ stack' \in Seq(Element)
      BY <1>1, <2>1, PathAfterEntry
    <2>3. [file |-> ref, at |-> 0] \in Element
      BY <1>2 DEF Element
    <2>4. Len(stack') = c + 1 /\ stack'[c + 1] = [file |-> ref, at |-> 0]
      BY <1>2, <2>1, <2>3, AppendProperties
    <2>5. TypeOK'
      <3>1. current' \in 0..Len(stack') /\ depth' \in Nat
        BY <1>1, <1>2, <2>4
      <3>2. err' \in BOOLEAN /\ more' \in BOOLEAN /\ fault' \in BOOLEAN
        BY <1>2, <1>3, <2>1
      <3> QED BY <1>2, <2>1, <2>2, <3>1, <3>2, TypeStep DEF Reading
    <2>6. Shape'
      BY <1>1, <1>3, <2>1, <2>4 DEF Shape
    <2>7. StackBounded'
      BY <1>1, <1>2, <2>2, <2>4, DistinctBound DEF NoRecursion, StackBounded
    <2> QED BY <2>1, <2>2, <2>5, <2>6, <2>7 DEF IInv
  <1>4. CASE Push(st, ref) /\ ~more'
    <2>1. stack' = st /\ err' = TRUE /\ fault' = TRUE /\ more' = FALSE /\ state' = state
      BY <1>2, <1>4 DEF Push, Stop
    <2>2. TypeOK'
      <3>1. current' \in 0..Len(stack') /\ depth' \in Nat /\ stack' \in Seq(Element)
        BY <1>1, <1>2, <2>1
      <3>2. err' \in BOOLEAN /\ more' \in BOOLEAN /\ fault' \in BOOLEAN
        BY <2>1
      <3>3. state' \in {"INIT", "DIRECTORY_BEGIN", "DIRECTORY_END", "FILE"}
        BY <2>1 DEF Reading, TypeOK
      <3> QED BY <3>1, <3>2, <3>3, TypeStep DEF Reading
    <2>3. StackBounded'
      BY <1>2, <2>1 DEF StackBounded
    <2> QED BY <2>1, <2>2, <2>3 DEF IInv
  <1>5. CASE stack' = st /\ state' = "FILE" /\ err' = FALSE /\ UNCHANGED <<more, fault>>
    <2>1. OnPath(depth)' /\ NoRecursion(depth)'
      BY <1>1, <1>5, PathAfterEntry
    <2>2. TypeOK'
      <3>1. current' \in 0..Len(stack') /\ depth' \in Nat /\ stack' \in Seq(Element)
        BY <1>1, <1>2, <1>5
      <3>2. err' \in BOOLEAN /\ more' \in BOOLEAN /\ fault' \in BOOLEAN
        BY <1>2, <1>5
      <3> QED BY <1>5, <3>1, <3>2, TypeStep DEF Reading
    <2>3. Shape'
      BY <1>1, <1>2, <1>5 DEF Shape
    <2>4. StackBounded'
      BY <1>2, <1>5 DEF StackBounded
    <2> QED BY <1>5, <2>1, <2>2, <2>3, <2>4 DEF IInv
  <1> HIDE DEF st, ref
  <1>6. QED BY <1>1, <1>3, <1>4, <1>5

LEMMA ListStep ==
    ASSUME NEW c, Reading(c), List(c, c), UNCHANGED tree, err => fault
    PROVE  IInv'
  <1>1. CASE ListEntry(c, c)
    BY <1>1, ListEntryStep
  <1>2. CASE ListEnd(c, c)
    <2>1. Pop(c) /\ err' = FALSE /\ fault' = fault /\ fault \in BOOLEAN
      BY <1>2 DEF ListEnd, Reading, TypeOK
    <2> QED BY <2>1, PopStep
  <1>3. CASE ListFails(c)
    <2>1. Pop(c) /\ err' = TRUE /\ fault' = TRUE
      BY <1>3 DEF ListFails
    <2> QED BY <2>1, PopStep
  <1> QED BY <1>1, <1>2, <1>3 DEF List

-----------------------------------------------------------------------------
LEMMA BeginReads ==
    ASSUME IInv, more, state = "DIRECTORY_BEGIN", ~(depth + 1 >= CheckDepth /\ Recursion)
    PROVE  depth + 1 = Len(stack) /\ Reading(Len(stack))
  <1>1. /\ TypeOK /\ Shape /\ OnPath(depth) /\ NoRecursion(depth) /\ StackBounded
        /\ Len(stack) = depth + 1 /\ depth \in Nat /\ stack[depth + 1].file \in Dir
        /\ CheckDepth \in Nat
    BY TreeAssumption DEF IInv, Shape, TypeOK
  <1>2. ASSUME NEW j \in CheckDepth..(depth + 1)
        PROVE  stack[j].file \in Dir /\ \A i \in 1..(j - 1) : stack[i].file # stack[j].file
    <2>1. CASE j \in CheckDepth..depth
      BY <1>1, <2>1 DEF NoRecursion
    <2>2. CASE j = depth + 1
      <3>1. ~Recursion
        BY <1>1, <2>2
      <3> QED BY <1>1, <2>2, <3>1 DEF Recursion
    <2> QED BY <1>1, <2>1, <2>2
  <1>3. NoRecursion(depth + 1)
    BY <1>2 DEF NoRecursion
  <1>4. OnPath((depth + 1) - 1)
    BY <1>1
  <1> QED BY <1>1, <1>3, <1>4 DEF Reading

LEMMA FileReads ==
    ASSUME IInv, more, state \in {"FILE", "DIRECTORY_END"}, current # 0
    PROVE  current = Len(stack) /\ depth = Len(stack) /\ Reading(Len(stack))
  <1>1. /\ TypeOK /\ OnPath(depth) /\ NoRecursion(depth) /\ StackBounded
        /\ current = depth /\ depth = Len(stack) /\ depth \in Nat /\ depth > 0
    BY DEF IInv, Shape, TypeOK
  <1>2. OnPath(depth - 1) /\ stack[depth].file \in Dir
    BY <1>1 DEF OnPath
  <1> QED BY <1>1, <1>2 DEF Reading

LEMMA StepInvariant == IInv /\ [Next]_vars => IInv'
  <1> SUFFICES ASSUME IInv, [Next]_vars PROVE IInv'
    OBVIOUS
  <1>1. CASE more /\ InitNext
    <2>1. /\ depth = 0 /\ current = 0 /\ stack = <<[file |-> base, at |-> 0]>>
          /\ TypeOK /\ StackBounded /\ OnPath(0) /\ (err => fault)
      BY <1>1 DEF InitNext, IInv, Shape
    <2>2. UNCHANGED <<entries, base, max_depth, stack, current, depth, err, more, fault>>
      BY <1>1 DEF InitNext, tree
    <2>3. state' \in {"DIRECTORY_BEGIN", "FILE"} /\ (state' = "DIRECTORY_BEGIN" => base \in Dir)
      BY <1>1 DEF InitNext
    <2>4. Len(stack) = 1 /\ stack[1] = [file |-> base, at |-> 0]
      BY <2>1
    <2>5. Shape'
      BY <2>1, <2>2, <2>3, <2>4 DEF Shape
    <2>6. OnPath(depth)' /\ NoRecursion(depth)'
      BY <2>1, <2>2, TreeAssumption DEF OnPath, NoRecursion
    <2> QED BY <2>1, <2>2, <2>3, <2>5, <2>6 DEF IInv, TypeOK, StackBounded
  <1>2. CASE more /\ (BeginRecurses \/ BeginOpenFails)
    <2>1. /\ more' = FALSE /\ err' = TRUE /\ fault' \in {fault, TRUE}
          /\ depth' = depth + 1 /\ current' \in {current, Len(stack)}
          /\ UNCHANGED <<entries, base, max_depth, state, stack>>
      BY <1>2 DEF BeginRecurses, BeginOpenFails, Stop, tree
    <2>2. /\ TypeOK /\ StackBounded /\ Len(stack) \in Nat
          /\ stack \in Seq(Element) /\ current \in 0..Len(stack) /\ depth \in Nat
      BY DEF IInv, TypeOK, Element
    <2>3. TypeOK'
      <3>1. current' \in 0..Len(stack') /\ depth' \in Nat /\ stack' \in Seq(Element)
        BY <2>1, <2>2
      <3>2. err' \in BOOLEAN /\ more' \in BOOLEAN /\ fault' \in BOOLEAN
        BY <2>1, <2>2 DEF TypeOK
      <3>3. state' \in {"INIT", "DIRECTORY_BEGIN", "DIRECTORY_END", "FILE"} /\ UNCHANGED tree
        BY <2>1, <2>2 DEF TypeOK, tree
      <3> QED BY <2>2, <3>1, <3>2, <3>3, TypeStep
    <2> QED BY <2>1, <2>2, <2>3 DEF IInv, StackBounded
  <1>3. CASE more /\ BeginNext
    <2>1. depth + 1 = Len(stack) /\ Reading(Len(stack))
      BY <1>3, BeginReads DEF BeginNext
    <2> QED BY <1>3, <2>1, ListStep DEF BeginNext, IInv
  <1>4. CASE more /\ FileNext
    <2>1. current = Len(stack) /\ depth = Len(stack) /\ Reading(Len(stack))
      BY <1>4, FileReads DEF FileNext
    <2> QED BY <1>4, <2>1, ListStep DEF FileNext, IInv
  <1>5. CASE more /\ WalkOver
    BY <1>5 DEF WalkOver, Stop, IInv, TypeOK, StackBounded, tree
  <1>6. CASE Cleanup
    <2>1. Len(<<>>) = 0 /\ <<>> \in Seq(Element) /\ CheckDepth + Cardinality(Dir) >= 0
      BY TreeAssumption, FS_CardinalityType
    <2> QED BY <1>6, <2>1 DEF Cleanup, IInv, TypeOK, StackBounded, tree, Element
  <1>7. CASE UNCHANGED vars
    BY <1>7 DEF vars, IInv, TypeOK, Shape, OnPath, NoRecursion, StackBounded
  <1> QED BY <1>1, <1>2, <1>3, <1>4, <1>5, <1>6, <1>7 DEF Next, Call

LEMMA InitInvariant == Init => IInv
  <1> SUFFICES ASSUME Init PROVE IInv
    OBVIOUS
  <1>1. /\ Len(stack) = 1 /\ stack[1] = [file |-> base, at |-> 0] /\ base \in Inode
        /\ stack \in Seq(Element)
    BY DEF Init, Element
  <1>2. CheckDepth + Cardinality(Dir) >= 1
    BY TreeAssumption, FS_CardinalityType
  <1>3. TypeOK
    <2>1. /\ entries \in [Dir -> Listings] /\ max_depth \in MaxDepths /\ state = "INIT"
          /\ current = 0 /\ depth = 0
      BY DEF Init
    <2>2. err \in BOOLEAN /\ more \in BOOLEAN /\ fault \in BOOLEAN
      BY DEF Init
    <2>3. current \in 0..Len(stack) /\ depth \in Nat
      BY <1>1, <2>1
    <2> QED BY <1>1, <2>1, <2>2, <2>3 DEF TypeOK, Element
  <1>4. Shape /\ OnPath(depth)
    BY <1>1 DEF Init, Shape, OnPath
  <1>5. NoRecursion(depth)
    BY TreeAssumption DEF Init, NoRecursion
  <1>6. StackBounded
    BY <1>1, <1>2, TreeAssumption, FS_CardinalityType DEF StackBounded
  <1> QED BY <1>3, <1>4, <1>5, <1>6 DEF Init, IInv

\* The invariant of the traversal.
THEOREM Invariance == Spec => []IInv
  BY InitInvariant, StepInvariant, PTL DEF Spec

\* The fields have the values their types allow, in every archive.
THEOREM TypeCorrect == Spec => []TypeOK
  <1>1. IInv => TypeOK
    BY DEF IInv
  <1> QED BY <1>1, Invariance, PTL

\* After every visit the path can be read (sqsh_tree_traversal_path_segment) and leads to the
\* file that sqsh_tree_traversal_open_file opens.
THEOREM PathsReadable == Spec => []PathReadable
  <1>1. IInv => PathReadable
    <2> SUFFICES ASSUME IInv, more PROVE PathReadable
      BY DEF PathReadable
    <2>1. TypeOK /\ Shape /\ OnPath(depth)
      BY DEF IInv
    <2>2. depth <= Len(stack) /\ current = depth
      BY <2>1 DEF TypeOK, Shape
    <2>3. \A i \in 1..depth :
            /\ stack[i].file \in Dir
            /\ stack[i].at \in 1..Len(entries[stack[i].file])
            /\ i < Len(stack) => stack[i + 1].file = entries[stack[i].file][stack[i].at]
      BY <2>1 DEF OnPath
    <2>4. depth # 0 => depth \in 1..depth /\ path_dup[depth] = stack[depth].at
      BY <2>1 DEF TypeOK, path_dup
    <2>5. Opened = IF depth = 0 THEN base ELSE entries[stack[depth].file][path_dup[depth]]
      BY <2>2, <2>4 DEF Opened
    <2>6. state = "DIRECTORY_BEGIN" => Opened = stack[Len(stack)].file
      <3> SUFFICES ASSUME state = "DIRECTORY_BEGIN" PROVE Opened = stack[Len(stack)].file
        OBVIOUS
      <3>1. Len(stack) = depth + 1 /\ stack # <<>> /\ depth \in Nat
        BY <2>1 DEF TypeOK, Shape
      <3>2. CASE depth = 0
        BY <2>1, <2>2, <3>1, <3>2 DEF Opened, OnPath
      <3>3. CASE depth # 0
        BY <2>2, <2>3, <2>4, <3>1, <3>3 DEF Opened
      <3> QED BY <3>2, <3>3
    <2> QED BY <2>2, <2>3, <2>5, <2>6 DEF PathReadable
  <1> QED BY <1>1, Invariance, PTL

\* However directories contain each other, check_recursion bounds the stack.
THEOREM StackStaysBounded == Spec => []StackBounded
  <1>1. IInv => StackBounded
    BY DEF IInv
  <1> QED BY <1>1, Invariance, PTL

-----------------------------------------------------------------------------
\* The trail of the first n directories on the stack.
TrailTo(n) == [i \in 1..n |-> [dir |-> stack[i].file, at |-> stack[i].at]]

Visit  == IF state = "INIT" \/ ~more THEN [kind |-> "NONE", trail |-> <<>>]
          ELSE [kind |-> state, trail |-> trail]
Result == IF more THEN "walking" ELSE IF err THEN "failed" ELSE "done"

TrailPlace == [dir : Dir, at : Nat]

LEMMA TrailFacts ==
    ASSUME TypeOK, NEW n \in Nat, \A i \in 1..n : stack[i].file \in Dir /\ stack[i].at \in Nat
    PROVE  /\ TrailTo(n) \in Seq(TrailPlace) /\ Len(TrailTo(n)) = n
           /\ \A i \in 1..n : TrailTo(n)[i] = [dir |-> stack[i].file, at |-> stack[i].at]
           /\ n > 0 => TW!Up(TrailTo(n)) = TrailTo(n - 1)
           /\ TrailTo(n) = <<>> <=> n = 0
  <1>1. TrailTo(n) \in [1..n -> TrailPlace]
    BY DEF TrailTo, TrailPlace
  <1>2. TrailTo(n) \in Seq(TrailPlace) /\ Len(TrailTo(n)) = n
    BY <1>1
  <1>3. ASSUME n > 0
        PROVE  TW!Up(TrailTo(n)) = TrailTo(n - 1)
    <2>1. TrailTo(n - 1) \in [1..(n - 1) -> TrailPlace] /\ n - 1 \in Nat
      BY <1>3 DEF TrailTo, TrailPlace
    <2>2. TrailTo(n - 1) \in Seq(TrailPlace) /\ Len(TrailTo(n - 1)) = n - 1
      BY <2>1
    <2>3. \A i \in 1..(n - 1) : TrailTo(n)[i] \in TrailPlace
      BY <1>2
    <2>4. /\ SubSeq(TrailTo(n), 1, n - 1) \in Seq(TrailPlace)
          /\ Len(SubSeq(TrailTo(n), 1, n - 1)) = n - 1
          /\ \A i \in 1..(n - 1) : SubSeq(TrailTo(n), 1, n - 1)[i] = TrailTo(n)[i]
      BY <1>3, <2>3, SubSeqProperties
    <2>5. \A i \in 1..(n - 1) : TrailTo(n)[i] = TrailTo(n - 1)[i]
      BY DEF TrailTo
    <2>6. SubSeq(TrailTo(n), 1, n - 1) = TrailTo(n - 1)
      BY <2>2, <2>4, <2>5, SeqEqual
    <2> QED BY <1>2, <2>6 DEF TW!Up
  <1>4. TrailTo(n) = <<>> <=> n = 0
    BY <1>2
  <1>5. \A i \in 1..n : TrailTo(n)[i] = [dir |-> stack[i].file, at |-> stack[i].at]
    BY DEF TrailTo
  <1> QED BY <1>2, <1>3, <1>4, <1>5

\* The visit v is one after which the directory on top of the stack is listed on.
Stands(v, c) ==
    /\ v.kind # "NONE" /\ v # TW!NoVisit /\ ~TW!IsOver(v)
    /\ TW!ListingTrail(v) = TrailTo(c - 1)
    /\ TW!Listing(v).dir = stack[c].file
    /\ TW!Listing(v).at = stack[c].at

LEMMA PathTypes ==
    ASSUME TypeOK, NEW n \in Nat, n <= Len(stack), OnPath(n)
    PROVE  \A i \in 1..n : stack[i].file \in Dir /\ stack[i].at \in Nat
  <1>1. \A i \in 1..n : stack[i].file \in Dir /\ i \in 1..Len(stack)
    BY DEF TypeOK, OnPath
  <1>2. stack \in Seq(Element)
    BY DEF TypeOK, Element
  <1>3. \A i \in 1..Len(stack) : stack[i] \in Element
    BY <1>2, ElementOfSeq
  <1> QED BY <1>1, <1>3 DEF Element

LEMMA BeginStands ==
    ASSUME IInv, more, state = "DIRECTORY_BEGIN"
    PROVE  Stands(Visit, Len(stack))
  <1>1. /\ TypeOK /\ OnPath(depth) /\ depth \in Nat /\ Len(stack) = depth + 1
        /\ stack[depth + 1].at = 0
    BY DEF IInv, Shape, TypeOK
  <1>2. Visit = [kind |-> "DIRECTORY_BEGIN", trail |-> TrailTo(depth)]
    BY DEF Visit, trail, path_dup, TrailTo
  <1>3. /\ Len(TrailTo(depth)) = depth /\ (TrailTo(depth) = <<>> <=> depth = 0)
        /\ \A i \in 1..depth : TrailTo(depth)[i] = [dir |-> stack[i].file, at |-> stack[i].at]
    BY <1>1, PathTypes, TrailFacts
  <1>4. TW!Here(TrailTo(depth)) = stack[depth + 1].file
    <2>1. CASE depth = 0
      <3>1. TW!Here(TrailTo(depth)) = base
        BY <1>3, <2>1 DEF TW!Here
      <3>2. stack # <<>>
        BY <1>1
      <3> QED BY <1>1, <2>1, <3>1, <3>2 DEF OnPath
    <2>2. CASE depth > 0
      <3>1. TW!Here(TrailTo(depth)) = entries[stack[depth].file][stack[depth].at]
        BY <1>1, <1>3, <2>2 DEF TW!Here
      <3> QED BY <1>1, <2>2, <3>1 DEF OnPath
    <2> QED BY <1>1, <2>1, <2>2
  <1>5. TW!ListingTrail(Visit) = TrailTo(Len(stack) - 1)
    BY <1>1, <1>2 DEF TW!ListingTrail
  <1>6. TW!Listing(Visit) = [dir |-> stack[depth + 1].file, at |-> 0]
    BY <1>2, <1>4 DEF TW!Listing
  <1>7. Visit.kind = "DIRECTORY_BEGIN" /\ Visit # TW!NoVisit /\ ~TW!IsOver(Visit)
    BY <1>2 DEF TW!NoVisit, TW!IsOver
  <1> QED BY <1>1, <1>5, <1>6, <1>7 DEF Stands

LEMMA FileStands ==
    ASSUME IInv, more, state \in {"FILE", "DIRECTORY_END"}, current # 0
    PROVE  Stands(Visit, Len(stack))
  <1>1. /\ TypeOK /\ OnPath(depth) /\ depth \in Nat /\ depth > 0 /\ Len(stack) = depth
    BY DEF IInv, Shape, TypeOK
  <1>2. Visit = [kind |-> state, trail |-> TrailTo(depth)]
    BY DEF Visit, trail, path_dup, TrailTo
  <1>3. /\ Len(TrailTo(depth)) = depth /\ TrailTo(depth) # <<>>
        /\ TrailTo(depth)[depth] = [dir |-> stack[depth].file, at |-> stack[depth].at]
        /\ TW!Up(TrailTo(depth)) = TrailTo(depth - 1)
    BY <1>1, PathTypes, TrailFacts
  <1>4. TW!ListingTrail(Visit) = TrailTo(Len(stack) - 1)
    BY <1>1, <1>2, <1>3 DEF TW!ListingTrail
  <1>5. TW!Listing(Visit) = [dir |-> stack[depth].file, at |-> stack[depth].at]
    BY <1>2, <1>3 DEF TW!Listing
  <1>6. Visit.kind # "NONE" /\ Visit # TW!NoVisit /\ ~TW!IsOver(Visit)
    BY <1>2, <1>3 DEF TW!NoVisit, TW!IsOver
  <1> QED BY <1>1, <1>4, <1>5, <1>6 DEF Stands

\* One more entry: the new visit is the one that follows.
LEMMA EntryVisit ==
    ASSUME NEW c, Reading(c), ListEntry(c, c), UNCHANGED tree, more'
    PROVE  /\ Visit' = TW!AfterEntry(TrailTo(c - 1), stack[c].file, stack[c].at)
           /\ fault' = fault
  <1> DEFINE st  == ReadOne(c)
             ref == entries[stack[c].file][stack[c].at + 1]
             new == [dir |-> stack[c].file, at |-> stack[c].at + 1]
  <1>1. /\ stack[c].at < Len(entries[stack[c].file])
        /\ depth' = c /\ fault' = fault
        /\ \/ /\ ref \in Dir /\ c < max_depth
              /\ stack' = Append(st, [file |-> ref, at |-> 0]) /\ state' = "DIRECTORY_BEGIN"
           \/ /\ ~(ref \in Dir /\ c < max_depth)
              /\ stack' = st /\ state' = "FILE"
    BY DEF ListEntry, ReadOne, Push, Stop
  <1>2. /\ st \in Seq(Element) /\ Len(st) = c /\ ref \in Inode
        /\ \A i \in 1..(c - 1) : st[i] = stack[i]
        /\ st[c].file = stack[c].file /\ st[c].at = stack[c].at + 1
        /\ c \in Nat /\ c > 0 /\ c = Len(stack) /\ TypeOK /\ OnPath(c - 1)
        /\ stack[c].file \in Dir /\ stack[c].at + 1 \in Nat
    <2>1. stack[c].at + 1 \in 1..Len(entries[stack[c].file])
      BY <1>1, ReadEntry
    <2> QED BY <1>1, <2>1, ReadEntry DEF Reading
  <1>3. \A i \in 1..c : stack'[i] = st[i]
    <2>1. [file |-> ref, at |-> 0] \in Element
      BY <1>2 DEF Element
    <2> HIDE DEF st, ref
    <2> QED BY <1>1, <1>2, <2>1, AppendProperties
  <1>4. /\ TrailTo(c - 1) \in Seq(TrailPlace) /\ Len(TrailTo(c - 1)) = c - 1
        /\ \A i \in 1..(c - 1) : TrailTo(c - 1)[i] = [dir |-> stack[i].file, at |-> stack[i].at]
        /\ \A i \in 1..(c - 1) : stack[i].file \in Dir /\ stack[i].at \in Nat
    <2>1. c - 1 \in Nat /\ c - 1 <= Len(stack)
      BY <1>2
    <2> QED BY <1>2, <2>1, PathTypes, TrailFacts
  <1>5. new \in TrailPlace
    BY <1>2 DEF TrailPlace
  <1>6. trail' = Append(TrailTo(c - 1), new)
    <2> HIDE DEF st, new
    <2>1. trail' = [i \in 1..c |-> [dir |-> stack'[i].file, at |-> stack'[i].at]]
      BY <1>1 DEF trail, path_dup
    <2>2. /\ Append(TrailTo(c - 1), new) \in Seq(TrailPlace)
          /\ Len(Append(TrailTo(c - 1), new)) = c
          /\ \A i \in 1..(c - 1) : Append(TrailTo(c - 1), new)[i] = TrailTo(c - 1)[i]
          /\ Append(TrailTo(c - 1), new)[c] = new
      BY <1>2, <1>4, <1>5, AppendProperties
    <2>3. ASSUME NEW i \in 1..c
          PROVE  [dir |-> stack'[i].file, at |-> stack'[i].at] = Append(TrailTo(c - 1), new)[i]
      <3>1. CASE i = c
        BY <1>2, <1>3, <2>2, <3>1 DEF new
      <3>2. CASE i \in 1..(c - 1)
        BY <1>2, <1>3, <1>4, <2>2, <3>2
      <3>3. i = c \/ i \in 1..(c - 1)
        BY <1>2
      <3> QED BY <3>1, <3>2, <3>3
    <2>4. Append(TrailTo(c - 1), new) \in [1..c -> TrailPlace]
      BY <2>2, LenProperties
    <2> QED BY <2>1, <2>3, <2>4
  <1>7. TW!Here(trail') = ref /\ Len(trail') = c
    <2>1. Len(trail') = c /\ trail' # <<>> /\ trail'[c] = new
      BY <1>2, <1>4, <1>5, <1>6, AppendProperties
    <2> QED BY <2>1 DEF TW!Here
  <1>8. TW!AfterEntry(TrailTo(c - 1), stack[c].file, stack[c].at) = TW!Arrive(trail')
    BY <1>1, <1>6 DEF TW!AfterEntry
  <1>9. Visit' = [kind |-> state', trail |-> trail']
    BY <1>1 DEF Visit
  <1> HIDE DEF st, ref, new
  <1> QED BY <1>1, <1>7, <1>8, <1>9 DEF TW!Arrive

\* The directory on top ends, because it is over or cannot be read.
LEMMA PopVisit ==
    ASSUME NEW c, Reading(c), Pop(c)
    PROVE  Visit' = TW!Leave(TrailTo(c - 1)) /\ more'
  <1>1. /\ stack \in Seq(Element) /\ c \in Nat /\ c > 0 /\ c = Len(stack) /\ more'
        /\ stack' = SubSeq(stack, 1, c - 1) /\ depth' = c - 1 /\ state' = "DIRECTORY_END"
    BY DEF Reading, TypeOK, Element, Pop
  <1>2. \A i \in 1..(c - 1) : stack'[i] = stack[i]
    <2>1. \A i \in 1..(c - 1) : stack[i] \in Element
      BY <1>1
    <2> QED BY <1>1, <2>1, SubSeqProperties
  <1>3. trail' = TrailTo(c - 1)
    BY <1>1, <1>2 DEF trail, path_dup, TrailTo
  <1> QED BY <1>1, <1>3 DEF Visit, TW!Leave

LEMMA ListSimulation ==
    ASSUME NEW c, Reading(c), List(c, c), UNCHANGED tree, Stands(Visit, c)
    PROVE  (TW!Go \/ TW!CutShort \/ TW!GiveUp)
  <1>1. Result = "walking" /\ Visit # TW!NoVisit /\ ~TW!IsOver(Visit) /\ UNCHANGED TW!tree
    BY DEF Reading, Result, Stands, tree, TW!tree
  <1>2. CASE ListEntry(c, c) /\ more'
    <2>1. Visit' = TW!AfterEntry(TrailTo(c - 1), stack[c].file, stack[c].at) /\ fault' = fault
      BY <1>2, EntryVisit
    <2>2. Result' = Result
      BY <1>1, <1>2 DEF Result
    <2>3. Visit' = TW!AfterEntry(TW!ListingTrail(Visit), TW!Listing(Visit).dir, TW!Listing(Visit).at)
      BY <2>1 DEF Stands
    <2> QED BY <1>1, <2>1, <2>2, <2>3 DEF TW!Go, Visit, Result
  <1>3. CASE ListEntry(c, c) /\ ~more'
    <2>1. err' = TRUE /\ fault' = TRUE
      BY <1>3 DEF ListEntry, Push, Stop, Reading
    <2>2. Visit' = TW!NoVisit /\ Result' = "failed"
      BY <1>3, <2>1 DEF Visit, Result, TW!NoVisit
    <2> QED BY <1>1, <2>1, <2>2 DEF TW!GiveUp, Visit, Result
  <1>4. CASE ListEnd(c, c)
    <2>1. Pop(c) /\ fault' = fault /\ stack[c].at = Len(entries[stack[c].file])
      BY <1>4 DEF ListEnd
    <2>2. Visit' = TW!Leave(TrailTo(c - 1)) /\ more'
      BY <2>1, PopVisit
    <2>3. Visit' = TW!AfterEntry(TW!ListingTrail(Visit), TW!Listing(Visit).dir, TW!Listing(Visit).at)
      BY <2>1, <2>2, ListingSeq DEF TW!AfterEntry, Stands, Reading
    <2>4. Result' = Result
      BY <1>1, <2>2 DEF Result
    <2> QED BY <1>1, <2>1, <2>3, <2>4 DEF TW!Go, Visit, Result
  <1>5. CASE ListFails(c)
    <2>1. Pop(c) /\ fault' = TRUE
      BY <1>5 DEF ListFails
    <2>2. Visit' = TW!Leave(TrailTo(c - 1)) /\ more'
      BY <2>1, PopVisit
    <2>3. Visit' = TW!Leave(TW!ListingTrail(Visit)) /\ Result' = Result
      BY <1>1, <2>2 DEF Stands, Result
    <2> QED BY <1>1, <2>1, <2>3 DEF TW!CutShort, Visit, Result
  <1> QED BY <1>2, <1>3, <1>4, <1>5 DEF List

LEMMA StepSimulation == IInv /\ [Next]_vars => [TW!Next]_(TW!vars)
  <1> SUFFICES ASSUME IInv, [Next]_vars PROVE TW!Next \/ UNCHANGED TW!vars
    OBVIOUS
  <1>1. CASE more /\ InitNext
    <2>1. /\ Visit = TW!NoVisit /\ Result = "walking" /\ Result' = "walking"
          /\ UNCHANGED <<TW!tree, fault>> /\ depth' = 0 /\ more'
      BY <1>1 DEF InitNext, Visit, Result, TW!NoVisit, TW!tree, tree, IInv, Shape
    <2>2. trail' = <<>>
      BY <2>1 DEF trail, path_dup
    <2>3. state' # "INIT"
      BY <1>1 DEF InitNext
    <2>4. Visit' = [kind |-> state', trail |-> <<>>]
      BY <2>1, <2>2, <2>3 DEF Visit
    <2>5. state' = IF base \in Dir /\ 0 < max_depth THEN "DIRECTORY_BEGIN" ELSE "FILE"
      <3>1. max_depth \in Nat
        BY TreeAssumption DEF IInv, TypeOK
      <3> QED BY <1>1, <3>1 DEF InitNext
    <2>6. Visit' = TW!Arrive(<<>>)
      BY <2>4, <2>5 DEF TW!Arrive, TW!Here
    <2> QED BY <2>1, <2>6 DEF TW!Next, TW!Start, Visit, Result
  <1>2. CASE more /\ (BeginRecurses \/ BeginOpenFails)
    <2>1. /\ state = "DIRECTORY_BEGIN" /\ more' = FALSE /\ err' = TRUE /\ fault' \in {fault, TRUE}
          /\ fault' \/ Recursion
          /\ UNCHANGED TW!tree
      BY <1>2 DEF BeginRecurses, BeginOpenFails, Stop, TW!tree, tree
    <2>2. Stands(Visit, Len(stack))
      BY <1>2, <2>1, BeginStands
    <2>3. Recursion => TW!Recurs(Visit)
      <3>1. /\ TypeOK /\ OnPath(depth) /\ depth \in Nat /\ Len(stack) = depth + 1
        BY <1>2, <2>1 DEF IInv, Shape, TypeOK
      <3>2. Visit = [kind |-> "DIRECTORY_BEGIN", trail |-> TrailTo(depth)]
        BY <1>2, <2>1 DEF Visit, trail, path_dup, TrailTo
      <3>3. TW!Here(TrailTo(depth)) = stack[Len(stack)].file
        BY <2>2, <3>2 DEF Stands, TW!Listing
      <3>4. DOMAIN TrailTo(depth) = 1..depth /\ \A i \in 1..depth : TrailTo(depth)[i].dir = stack[i].file
        BY DEF TrailTo
      <3> QED BY <3>1, <3>2, <3>3, <3>4 DEF Recursion, TW!Recurs
    <2>4. Visit' = TW!NoVisit /\ Result' = "failed" /\ Result = "walking"
      BY <1>2, <2>1 DEF Visit, Result, TW!NoVisit
    <2>5. Visit # TW!NoVisit
      BY <2>2 DEF Stands
    <2> QED BY <2>1, <2>3, <2>4, <2>5 DEF TW!Next, TW!GiveUp, Visit, Result
  <1>3. CASE more /\ BeginNext
    <2>1. depth + 1 = Len(stack) /\ Reading(Len(stack)) /\ Stands(Visit, Len(stack))
      BY <1>3, BeginReads, BeginStands DEF BeginNext
    <2>2. TW!Go \/ TW!CutShort \/ TW!GiveUp
      BY <1>3, <2>1, ListSimulation DEF BeginNext
    <2> QED BY <1>3, <2>2 DEF TW!Next
  <1>4. CASE more /\ FileNext
    <2>1. /\ current = Len(stack) /\ depth = Len(stack)
          /\ Reading(Len(stack)) /\ Stands(Visit, Len(stack))
      BY <1>4, FileReads, FileStands DEF FileNext
    <2>2. TW!Go \/ TW!CutShort \/ TW!GiveUp
      BY <1>4, <2>1, ListSimulation DEF FileNext
    <2> QED BY <1>4, <2>2 DEF TW!Next
  <1>5. CASE more /\ WalkOver
    <2>1. /\ state \in {"FILE", "DIRECTORY_END"} /\ current = 0 /\ more' = FALSE /\ err' = err
          /\ fault' = fault /\ UNCHANGED TW!tree
      BY <1>5 DEF WalkOver, Stop, TW!tree, tree
    <2>2. depth = 0 /\ (err => fault) /\ fault \in BOOLEAN
      BY <1>5, <2>1 DEF IInv, Shape, TypeOK
    <2>3. Visit = [kind |-> state, trail |-> <<>>]
      BY <1>5, <2>1, <2>2 DEF Visit, trail, path_dup
    <2>4. Visit # TW!NoVisit /\ TW!IsOver(Visit)
      BY <2>1, <2>3 DEF TW!NoVisit, TW!IsOver
    <2>5. Visit' = TW!NoVisit /\ Result = "walking" /\ Result' = IF err THEN "failed" ELSE "done"
      BY <1>5, <2>1 DEF Visit, Result, TW!NoVisit
    <2>6. CASE err
      BY <2>1, <2>2, <2>4, <2>5, <2>6 DEF TW!Next, TW!GiveUp, Visit, Result
    <2>7. CASE ~err
      BY <2>1, <2>4, <2>5, <2>7 DEF TW!Next, TW!Finish, Visit, Result
    <2> QED BY <2>6, <2>7
  <1>6. CASE Cleanup
    <2>1. more' = more /\ err' = err /\ fault' = fault /\ ~more /\ UNCHANGED TW!tree
      BY <1>6 DEF Cleanup, TW!tree, tree
    <2>2. Visit' = Visit /\ Result' = Result
      BY <2>1 DEF Visit, Result
    <2> QED BY <2>1, <2>2 DEF TW!vars, TW!tree, Visit, Result
  <1>7. CASE UNCHANGED vars
    <2>1. UNCHANGED <<entries, base, max_depth, fault, state, more, err, stack, depth>>
      BY <1>7 DEF vars
    <2>2. Visit' = Visit /\ Result' = Result
      BY <2>1 DEF Visit, Result, trail, path_dup
    <2> QED BY <2>1, <2>2 DEF TW!vars, Visit, Result
  <1> QED BY <1>1, <1>2, <1>3, <1>4, <1>5, <1>6, <1>7 DEF Next, Call

\* The visits of sqsh_tree_traversal_next are those of the walk TreeWalk describes, in
\* its order, whatever the archive (WalksInOrder).
THEOREM WalksTheTree == Spec => WalksInOrder
  <1>1. Init => TW!Init
    <2> SUFFICES ASSUME Init PROVE TW!Init
      OBVIOUS
    <2>1. Visit = TW!NoVisit /\ Result = "walking" /\ fault = FALSE
      BY DEF Init, Visit, Result, TW!NoVisit
    <2> QED BY <2>1 DEF TW!Init, Visit, Result
  <1> QED BY <1>1, StepSimulation, Invariance, PTL DEF Spec, WalksInOrder, TW!Spec

-----------------------------------------------------------------------------
(* Numbers *)

\* A set with 0 that is closed under the next number has every number.
LEMMA EveryNumber ==
    ASSUME NEW S, 0 \in S, \A n \in Nat : n \in S => n + 1 \in S
    PROVE  Nat \subseteq S
  <1> DEFINE T == Nat \ S
             less == {p \in Nat \X Nat : p[1] < p[2]}
  <1>1. SUFFICES ASSUME T # {} PROVE FALSE
    OBVIOUS
  <1>2. IsWellFoundedOn(less, Nat)
    BY NatLessThanWellFounded DEF OpToRel
  <1>3. PICK x \in T : \A y \in T : <<y, x>> \notin less
    <2> HIDE DEF less, T
    <2>1. T \subseteq Nat
      BY DEF T
    <2> QED BY <1>1, <1>2, <2>1, WFMin
  <1>4. x # 0 /\ x - 1 \in Nat /\ <<x - 1, x>> \in less
    BY <1>3
  <1>5. x - 1 \in S
    BY <1>3, <1>4
  <1> QED BY <1>3, <1>4, <1>5

LEMMA Multiples ==
    /\ \A b \in Nat : (b + 1) * BlockSize = b * BlockSize + BlockSize /\ b * BlockSize \in Nat
    /\ \A a, b \in Nat : a <= b => a * BlockSize <= b * BlockSize
    /\ 0 * BlockSize = 0
  BY BlockSizeAssumption

LEMMA Quotients ==
    /\ \A b \in Nat, j \in 1..BlockSize : (b * BlockSize + j - 1) \div BlockSize = b
    /\ \A n \in Nat : /\ n \div BlockSize \in Nat /\ n % BlockSize \in 0..(BlockSize - 1)
                      /\ n = (n \div BlockSize) * BlockSize + (n % BlockSize)
  BY BlockSizeAssumption

-----------------------------------------------------------------------------
(* Where the blocks of a file lie *)

\* The place in the file where block b begins.
StartOf(b) == IF b = BlockCount /\ ~HasFragment THEN FileSize ELSE b * BlockSize

LEMMA ImageOK ==
    ASSUME image \in Images
    PROVE  /\ BlockCount \in Nat /\ image.fragment \in 0..(BlockSize - 1) /\ image.last \in 1..BlockSize
           /\ image.shared.size \in 0..BlockSize /\ image.shared.offset \in Nat
           /\ BlockCount * BlockSize + image.fragment < SizeMax
           /\ \A b \in 0..(BlockCount - 1) : image.blocks[b + 1] \in Block
  <1>1. image.blocks \in Seq(Block)
    BY ImagesAssumption
  <1>2. BlockCount \in Nat /\ \A b \in 0..(BlockCount - 1) : image.blocks[b + 1] \in Block
    BY <1>1 DEF BlockCount
  <1> QED BY <1>2, ImagesAssumption DEF BlockCount

LEMMA Kinds ==
    ASSUME image \in Images, NEW b \in 0..(BlockCount - 1)
    PROVE  /\ image.blocks[b + 1].kind \in {"raw", "sparse"} \cup Packed
           /\ Stored(b) \in Nat /\ Stored(b) = image.blocks[b + 1].stored
           /\ image.blocks[b + 1].kind = "sparse" => Stored(b) = 0
           /\ image.blocks[b + 1].kind \in Packed => Stored(b) > 0
  <1>1. image.blocks[b + 1] \in Block /\ BlockCount \in Nat
    BY ImageOK
  <1>2. Stored(b) = image.blocks[b + 1].stored
    BY <1>1 DEF Stored
  <1> QED BY <1>1, <1>2 DEF Block, Packed

LEMMA StoredNat ==
    ASSUME image \in Images
    PROVE  \A b \in Nat : Stored(b) \in Nat
  <1> SUFFICES ASSUME NEW b \in Nat PROVE Stored(b) \in Nat
    OBVIOUS
  <1>1. BlockCount \in Nat
    BY ImageOK
  <1>2. CASE b < BlockCount
    BY <1>1, <1>2, Kinds
  <1>3. CASE ~(b < BlockCount)
    BY <1>3 DEF Stored
  <1> QED BY <1>2, <1>3

LEMMA Places ==
    ASSUME image \in Images
    PROVE  /\ BlockCount \in Nat /\ FileSize \in Nat /\ FileSize < SizeMax
           /\ \A b \in 0..BlockCount : StartOf(b) \in 0..FileSize
           /\ \A b \in 0..(BlockCount - 1) :
                 /\ Length(b) \in 1..BlockSize /\ StartOf(b) = b * BlockSize
                 /\ StartOf(b + 1) = StartOf(b) + Length(b)
                 /\ b + 1 # BlockCount \/ HasFragment => Length(b) = BlockSize
           /\ StartOf(0) = 0 /\ FileSize = StartOf(BlockCount) + image.fragment
           /\ HasFragment => StartOf(BlockCount) = BlockCount * BlockSize
           /\ HasFragment <=> image.fragment > 0
  <1>1. BlockCount \in Nat /\ image.fragment \in 0..(BlockSize - 1) /\ image.last \in 1..BlockSize
    BY ImageOK
  <1>2. BlockCount * BlockSize + image.fragment < SizeMax /\ SizeMax \in Nat /\ BlockSize \in Nat \ {0}
    BY ImageOK, SizeMaxAssumption, BlockSizeAssumption
  <1>3. HasFragment <=> image.fragment > 0
    BY DEF HasFragment
  <1>4. BlockCount > 0 => BlockCount * BlockSize = (BlockCount - 1) * BlockSize + BlockSize
    <2>1. BlockCount > 0 => BlockCount - 1 \in Nat /\ (BlockCount - 1) + 1 = BlockCount
      BY <1>1
    <2> QED BY <2>1, Multiples
  <1>5. BlockCount * BlockSize \in Nat /\ (BlockCount > 0 => (BlockCount - 1) * BlockSize \in Nat)
    <2>1. BlockCount > 0 => BlockCount - 1 \in Nat
      BY <1>1
    <2> QED BY <1>1, <2>1, Multiples
  <1>6. FileSize \in Nat /\ FileSize < SizeMax
    BY <1>1, <1>2, <1>3, <1>4, <1>5 DEF FileSize
  <1>7. \A b \in 0..(BlockCount - 1) : b * BlockSize \in Nat /\ b * BlockSize <= (BlockCount - 1) * BlockSize
    BY <1>1, Multiples
  <1>8. ASSUME NEW b \in 0..(BlockCount - 1)
        PROVE  /\ Length(b) \in 1..BlockSize /\ StartOf(b) = b * BlockSize
               /\ StartOf(b + 1) = StartOf(b) + Length(b)
               /\ b + 1 # BlockCount \/ HasFragment => Length(b) = BlockSize
    <2>1. b \in Nat /\ b # BlockCount /\ BlockCount > 0
      BY <1>1
    <2>2. (b + 1) * BlockSize = b * BlockSize + BlockSize
      BY <2>1, Multiples
    <2>3. StartOf(b) = b * BlockSize
      BY <2>1 DEF StartOf
    <2>4. CASE b + 1 = BlockCount /\ ~HasFragment
      <3>1. b = BlockCount - 1 /\ FileSize = b * BlockSize + image.last
        BY <2>1, <2>4, <1>1 DEF FileSize
      <3> QED BY <3>1, <2>3, <2>4, <1>1 DEF StartOf, Length
    <2>5. CASE ~(b + 1 = BlockCount /\ ~HasFragment)
      BY <2>2, <2>3, <2>5, <1>2 DEF StartOf, Length
    <2> QED BY <2>4, <2>5
  <1>9. StartOf(0) = 0
    BY <1>1, <1>3, Multiples DEF StartOf, FileSize
  <1>10. HasFragment => StartOf(BlockCount) = BlockCount * BlockSize
    BY DEF StartOf
  <1>11. FileSize = StartOf(BlockCount) + image.fragment
    BY <1>1, <1>3, <1>6, <1>10 DEF StartOf, FileSize
  <1>12. ASSUME NEW b \in 0..BlockCount PROVE StartOf(b) \in 0..FileSize
    <2>1. CASE b = BlockCount
      BY <2>1, <1>1, <1>5, <1>6, <1>10, <1>11 DEF StartOf
    <2>2. CASE b # BlockCount
      <3>1. b \in 0..(BlockCount - 1) /\ BlockCount > 0
        BY <2>2, <1>1
      <3>2. StartOf(b) = b * BlockSize /\ b * BlockSize \in Nat /\ b * BlockSize <= (BlockCount - 1) * BlockSize
        BY <3>1, <1>7, <1>8
      <3>3. (BlockCount - 1) * BlockSize <= FileSize
        BY <3>1, <1>1, <1>2, <1>3, <1>4, <1>5 DEF FileSize
      <3> QED BY <3>2, <3>3, <1>5, <1>6, <3>1
    <2> QED BY <2>1, <2>2
  <1> HIDE DEF StartOf, FileSize
  <1> QED BY <1>1, <1>3, <1>6, <1>8, <1>9, <1>10, <1>11, <1>12

\* What a block holds lies at its place in the file.
LEMMA BlockContent ==
    ASSUME image \in Images, NEW b \in 0..(BlockCount - 1), NEW j \in 1..Length(b)
    PROVE  /\ StartOf(b) + j \in 1..FileSize
           /\ Content[StartOf(b) + j] = BlockBytes(b)[j]
           /\ BlockBytes(b)[j] \in Int
           /\ image.blocks[b + 1].kind = "raw" => BlockBytes(b)[j] = IF j <= Stored(b) THEN StartOf(b) + j - 1 ELSE Zero
           /\ image.blocks[b + 1].kind = "sparse" => BlockBytes(b)[j] = Zero
  <1>1. /\ BlockCount \in Nat /\ FileSize \in Nat /\ Length(b) \in 1..BlockSize
        /\ StartOf(b) = b * BlockSize /\ StartOf(b + 1) = StartOf(b) + Length(b)
        /\ StartOf(b) \in 0..FileSize /\ StartOf(b + 1) \in 0..FileSize
    <2>1. BlockCount \in Nat
      BY Places
    <2>2. b \in 0..BlockCount /\ b + 1 \in 0..BlockCount
      BY <2>1
    <2> QED BY <2>1, <2>2, Places
  <1>2. StartOf(b) + j \in 1..FileSize
    BY <1>1
  <1>3. j \in 1..BlockSize /\ b \in Nat /\ BlockSize \in Nat
    BY <1>1, BlockSizeAssumption
  <1>4. (b * BlockSize + j - 1) \div BlockSize = b
    BY <1>3, Quotients
  <1>5. Content[StartOf(b) + j] = BlockBytes(b)[j]
    <2> DEFINE k == StartOf(b) + j
    <2>1. (k - 1) \div BlockSize = b
      <3>1. k - 1 = b * BlockSize + j - 1
        BY <1>1, <1>3
      <3> QED BY <3>1, <1>4
    <2>2. b < BlockCount
      BY <1>1
    <2>3. k - b * BlockSize = j
      BY <1>1
    <2>4. k \in 1..FileSize
      BY <1>2
    <2> HIDE DEF k
    <2>5. Content[k] = LET c == (k - 1) \div BlockSize
                       IN  IF c < BlockCount THEN BlockBytes(c)[k - c * BlockSize] ELSE k - 1
      BY <2>4 DEF Content
    <2>6. Content[k] = BlockBytes(b)[j]
      BY <2>1, <2>2, <2>3, <2>5
    <2> QED BY <2>6 DEF k
  <1>6. /\ image.blocks[b + 1].kind = "raw" => BlockBytes(b)[j] = IF j <= Stored(b) THEN StartOf(b) + j - 1 ELSE Zero
        /\ image.blocks[b + 1].kind = "sparse" => BlockBytes(b)[j] = Zero
        /\ BlockBytes(b)[j] \in Int
    <2>1. /\ image.blocks[b + 1].kind \in {"raw", "sparse"} \cup Packed
          /\ Stored(b) \in Nat /\ Stored(b) = image.blocks[b + 1].stored
      BY Kinds
    <2>2. j \in Nat \ {0} /\ StartOf(b) \in Nat
      BY <1>1, <1>3
    <2>3. CASE image.blocks[b + 1].kind = "raw"
      BY <2>1, <2>2, <2>3, <1>1 DEF BlockBytes, Zero, Packed
    <2>4. CASE image.blocks[b + 1].kind = "sparse"
      BY <2>1, <2>2, <2>4, <1>1 DEF BlockBytes, Zero, Packed
    <2>5. CASE image.blocks[b + 1].kind \in Packed
      BY <2>1, <2>2, <2>5, <1>1 DEF BlockBytes, Zero, Packed
    <2> QED BY <2>1, <2>3, <2>4, <2>5
  <1> QED BY <1>2, <1>5, <1>6

LEMMA FragmentContent ==
    ASSUME image \in Images, HasFragment, NEW j \in 1..image.fragment
    PROVE  /\ StartOf(BlockCount) + j \in 1..FileSize
           /\ Content[StartOf(BlockCount) + j] = BlockCount * BlockSize + j - 1
  <1>1. /\ BlockCount \in Nat /\ FileSize \in Nat /\ FileSize = StartOf(BlockCount) + image.fragment
        /\ StartOf(BlockCount) = BlockCount * BlockSize /\ StartOf(BlockCount) \in 0..FileSize
        /\ image.fragment \in 0..(BlockSize - 1)
    <2>1. BlockCount \in Nat
      BY Places
    <2> QED BY <2>1, Places, ImageOK
  <1>2. j \in 1..BlockSize
    BY <1>1, BlockSizeAssumption
  <1> DEFINE k == BlockCount * BlockSize + j
  <1>3. k \in 1..FileSize
    BY <1>1
  <1>4. (k - 1) \div BlockSize = BlockCount
    BY <1>1, <1>2, Quotients
  <1>5. Content[k] = LET c == (k - 1) \div BlockSize
                     IN  IF c < BlockCount THEN BlockBytes(c)[k - c * BlockSize] ELSE k - 1
    <2> HIDE DEF k
    <2> QED BY <1>3 DEF Content
  <1>6. Content[k] = k - 1
    <2> HIDE DEF k
    <2> QED BY <1>1, <1>4, <1>5
  <1> QED BY <1>1, <1>3, <1>6

LEMMA ContentType ==
    ASSUME image \in Images
    PROVE  Content \in [1..FileSize -> Int]
  <1>1. ASSUME NEW k \in 1..FileSize PROVE Content[k] \in Int
    <2> DEFINE b == (k - 1) \div BlockSize
    <2>1. /\ BlockCount \in Nat /\ FileSize \in Nat /\ k - 1 \in Nat
      BY Places
    <2>2. b \in Nat /\ (k - 1) % BlockSize \in 0..(BlockSize - 1) /\ k - 1 = b * BlockSize + ((k - 1) % BlockSize)
      BY <2>1, Quotients
    <2>3. Content[k] = IF b < BlockCount THEN BlockBytes(b)[k - b * BlockSize] ELSE k - 1
      BY DEF Content
    <2> HIDE DEF b
    <2>4. CASE b < BlockCount
      <3>1. b \in 0..(BlockCount - 1)
        BY <2>1, <2>2, <2>4
      <3>2. /\ Length(b) \in 1..BlockSize /\ StartOf(b) = b * BlockSize /\ StartOf(b + 1) = StartOf(b) + Length(b)
            /\ b + 1 # BlockCount \/ HasFragment => Length(b) = BlockSize
        BY <3>1, Places
      <3>3. k - b * BlockSize \in 1..Length(b)
        <4>1. k - b * BlockSize \in 1..BlockSize
          <5>1. b * BlockSize \in Nat
            BY <2>2, Multiples
          <5> QED BY <2>1, <2>2, <5>1, BlockSizeAssumption
        <4>2. CASE b + 1 # BlockCount \/ HasFragment
          BY <4>1, <4>2, <3>2
        <4>3. CASE b + 1 = BlockCount /\ ~HasFragment
          <5>1. FileSize = StartOf(b) + Length(b)
            <6>1. StartOf(BlockCount) = FileSize
              BY <4>3 DEF StartOf
            <6> QED BY <6>1, <4>3, <3>2
          <5>2. StartOf(b) \in Nat /\ Length(b) \in Nat
            BY <3>2, <2>2, Multiples, BlockSizeAssumption
          <5>3. k \in Nat /\ k <= StartOf(b) + Length(b) /\ k - StartOf(b) >= 1
            BY <5>1, <5>2, <4>1, <3>2, <2>1
          <5>4. k - StartOf(b) \in 1..Length(b)
            BY <5>2, <5>3
          <5> QED BY <5>4, <3>2
        <4> QED BY <4>2, <4>3
      <3>4. BlockBytes(b)[k - b * BlockSize] \in Int
        BY <3>1, <3>3, BlockContent
      <3> QED BY <2>3, <2>4, <3>4
    <2>5. CASE ~(b < BlockCount)
      BY <2>1, <2>3, <2>5
    <2> QED BY <2>4, <2>5
  <1> QED BY <1>1 DEF Content

-----------------------------------------------------------------------------
(* Where the blocks lie in the archive *)

\* The addresses of the first blocks, one after the other.
Sums(k) == {f \in [0..k -> Nat] : f[0] = 0 /\ \A n \in 1..k : f[n] = f[n - 1] + Stored(n - 1)}

LEMMA SumsExist ==
    ASSUME image \in Images
    PROVE  \A k \in Nat : Sums(k) # {}
  <1> DEFINE S == {k \in Nat : Sums(k) # {}}
  <1>1. 0 \in S
    <2>1. [n \in 0..0 |-> 0] \in Sums(0)
      BY DEF Sums
    <2> QED BY <2>1
  <1>2. ASSUME NEW k \in Nat, k \in S PROVE k + 1 \in S
    <2>1. PICK f : f \in Sums(k)
      BY <1>2
    <2>2. f \in [0..k -> Nat] /\ f[0] = 0 /\ \A n \in 1..k : f[n] = f[n - 1] + Stored(n - 1)
      BY <2>1 DEF Sums
    <2> DEFINE g == [n \in 0..(k + 1) |-> IF n = k + 1 THEN f[k] + Stored(k) ELSE f[n]]
    <2>3. Stored(k) \in Nat /\ k \in 0..k
      BY StoredNat
    <2>4. g \in [0..(k + 1) -> Nat]
      BY <2>2, <2>3
    <2>5. g[0] = 0
      BY <2>2
    <2>6. ASSUME NEW n \in 1..(k + 1) PROVE g[n] = g[n - 1] + Stored(n - 1)
      <3>1. CASE n = k + 1
        <4>1. n - 1 = k /\ n - 1 \in 0..(k + 1) /\ n \in 0..(k + 1)
          BY <3>1
        <4> QED BY <3>1, <4>1
      <3>2. CASE n # k + 1
        <4>1. n \in 1..k /\ n - 1 # k + 1 /\ n - 1 \in 0..(k + 1) /\ n \in 0..(k + 1)
          BY <3>2
        <4> QED BY <4>1, <2>2, <3>2
      <3> QED BY <3>1, <3>2
    <2>7. g \in Sums(k + 1)
      <3> HIDE DEF g
      <3> QED BY <2>4, <2>5, <2>6 DEF Sums
    <2> QED BY <2>7
  <1>3. Nat \subseteq S
    <2> HIDE DEF S
    <2> QED BY <1>1, <1>2, EveryNumber
  <1> QED BY <1>3

LEMMA SumsAgree ==
    ASSUME image \in Images, NEW a \in Nat, NEW b \in Nat, NEW f \in Sums(a), NEW g \in Sums(b)
    PROVE  \A k \in 0..a : k <= b => f[k] = g[k]
  <1> DEFINE S == {k \in Nat : k <= a /\ k <= b => f[k] = g[k]}
  <1>1. 0 \in S
    BY DEF Sums
  <1>2. ASSUME NEW k \in Nat, k \in S PROVE k + 1 \in S
    <2>1. SUFFICES ASSUME k + 1 <= a, k + 1 <= b PROVE f[k + 1] = g[k + 1]
      OBVIOUS
    <2>2. f[k] = g[k]
      BY <1>2, <2>1
    <2>3. k + 1 \in 1..a /\ k + 1 \in 1..b /\ (k + 1) - 1 = k
      BY <2>1
    <2>4. f[k + 1] = f[k] + Stored(k) /\ g[k + 1] = g[k] + Stored(k)
      BY <2>3 DEF Sums
    <2> QED BY <2>2, <2>4
  <1>3. Nat \subseteq S
    <2> HIDE DEF S
    <2> QED BY <1>1, <1>2, EveryNumber
  <1> QED BY <1>3

LEMMA AddressIs ==
    ASSUME image \in Images, NEW b \in Nat
    PROVE  \E f \in Sums(b) : AddressOf(b) = f[b]
  <1> DEFINE Def(f) == f = [n \in 0..b |-> IF n = 0 THEN 0 ELSE f[n - 1] + Stored(n - 1)]
  <1>1. PICK f : f \in Sums(b)
    BY SumsExist
  <1>2. Def(f)
    <2>1. f \in [0..b -> Nat] /\ f[0] = 0 /\ \A n \in 1..b : f[n] = f[n - 1] + Stored(n - 1)
      BY <1>1 DEF Sums
    <2>2. \A n \in 0..b : f[n] = IF n = 0 THEN 0 ELSE f[n - 1] + Stored(n - 1)
      <3>1. ASSUME NEW n \in 0..b, n # 0 PROVE f[n] = f[n - 1] + Stored(n - 1)
        <4>1. n \in 1..b
          BY <3>1
        <4> QED BY <2>1, <4>1
      <3> QED BY <2>1, <3>1
    <2> QED BY <2>1, <2>2
  <1>3. \E h : Def(h)
    BY <1>2
  <1> DEFINE r == CHOOSE h : Def(h)
  <1>4. AddressOf(b) = r[b]
    BY DEF AddressOf
  <1>5. Def(r)
    <2> HIDE DEF Def
    <2> QED BY <1>3
  <1>6. r \in Sums(b)
    <2> DEFINE S == {n \in Nat : n <= b => r[n] \in Nat}
    <2>1. \A n \in 0..b : r[n] = IF n = 0 THEN 0 ELSE r[n - 1] + Stored(n - 1)
      <3> HIDE DEF r
      <3> QED BY <1>5
    <2>2. DOMAIN r = 0..b /\ r = [n \in 0..b |-> r[n]]
      <3> HIDE DEF r
      <3> QED BY <1>5
    <2> HIDE DEF r, Def
    <2>3. 0 \in S
      BY <2>1
    <2>4. ASSUME NEW n \in Nat, n \in S PROVE n + 1 \in S
      <3>1. SUFFICES ASSUME n + 1 <= b PROVE r[n + 1] \in Nat
        OBVIOUS
      <3>2. n + 1 \in 0..b /\ n + 1 # 0 /\ (n + 1) - 1 = n /\ r[n] \in Nat /\ Stored(n) \in Nat
        BY <2>4, <3>1, StoredNat
      <3>3. r[n + 1] = r[n] + Stored(n)
        BY <2>1, <3>2
      <3> QED BY <3>2, <3>3
    <2>5. Nat \subseteq S
      <3> HIDE DEF S
      <3> QED BY <2>3, <2>4, EveryNumber
    <2>6. r \in [0..b -> Nat]
      BY <2>2, <2>5
    <2>7. \A n \in 1..b : r[n] = r[n - 1] + Stored(n - 1)
      BY <2>1
    <2>8. r[0] = 0
      BY <2>1
    <2> QED BY <2>6, <2>7, <2>8 DEF Sums
  <1> QED BY <1>4, <1>6

LEMMA Addresses ==
    ASSUME image \in Images
    PROVE  /\ AddressOf(0) = 0
           /\ \A b \in Nat : AddressOf(b) \in Nat /\ AddressOf(b + 1) = AddressOf(b) + Stored(b)
  <1>1. AddressOf(0) = 0
    <2>1. PICK f \in Sums(0) : AddressOf(0) = f[0]
      BY AddressIs
    <2> QED BY <2>1 DEF Sums
  <1>2. ASSUME NEW b \in Nat PROVE AddressOf(b) \in Nat /\ AddressOf(b + 1) = AddressOf(b) + Stored(b)
    <2>1. PICK f \in Sums(b) : AddressOf(b) = f[b]
      BY AddressIs
    <2>2. PICK g \in Sums(b + 1) : AddressOf(b + 1) = g[b + 1]
      BY AddressIs
    <2>3. b \in 0..b /\ b <= b + 1 /\ b + 1 \in 1..(b + 1) /\ (b + 1) - 1 = b
      OBVIOUS
    <2>4. f[b] = g[b]
      BY <2>3, SumsAgree
    <2>5. g[b + 1] = g[b] + Stored(b) /\ f[b] \in Nat
      BY <2>3 DEF Sums
    <2> QED BY <2>1, <2>2, <2>4, <2>5
  <1> QED BY <1>1, <1>2

LEMMA AddressesGrow ==
    ASSUME image \in Images
    PROVE  \A a, b \in Nat : a <= b => AddressOf(a) <= AddressOf(b)
  <1>1. SUFFICES ASSUME NEW a \in Nat PROVE \A b \in Nat : a <= b => AddressOf(a) <= AddressOf(b)
    OBVIOUS
  <1> DEFINE S == {b \in Nat : a <= b => AddressOf(a) <= AddressOf(b)}
  <1>2. 0 \in S
    <2>1. AddressOf(0) \in Nat
      BY Addresses
    <2> QED BY <2>1
  <1>3. ASSUME NEW b \in Nat, b \in S PROVE b + 1 \in S
    <2>1. /\ AddressOf(b) \in Nat /\ AddressOf(a) \in Nat /\ Stored(b) \in Nat
          /\ AddressOf(b + 1) = AddressOf(b) + Stored(b)
      BY Addresses, StoredNat
    <2>2. a <= b + 1 => a <= b \/ a = b + 1
      OBVIOUS
    <2> QED BY <1>3, <2>1, <2>2
  <1>4. Nat \subseteq S
    <2> HIDE DEF S
    <2> QED BY <1>2, <1>3, EveryNumber
  <1> QED BY <1>4

\* A byte between the beginnings of two blocks lies in one of the blocks from the one to the other.
LEMMA Located ==
    ASSUME image \in Images, NEW s \in Nat, NEW x \in Nat, AddressOf(s) <= x
    PROVE  \A e \in Nat : s <= e /\ x < AddressOf(e)
              => \E b \in s..(e - 1) : x \in AddressOf(b)..(AddressOf(b + 1) - 1)
  <1> DEFINE Lies(b) == x \in AddressOf(b)..(AddressOf(b + 1) - 1)
             S == {e \in Nat : s <= e /\ x < AddressOf(e) => \E b \in s..(e - 1) : Lies(b)}
  <1>0. \A b \in Nat : AddressOf(b) \in Nat
    BY Addresses
  <1>1. 0 \in S
    BY Addresses
  <1>2. ASSUME NEW e \in Nat, e \in S PROVE e + 1 \in S
    <2>1. SUFFICES ASSUME s <= e + 1, x < AddressOf(e + 1) PROVE \E b \in s..((e + 1) - 1) : Lies(b)
      OBVIOUS
    <2>2. CASE s <= e /\ x < AddressOf(e)
      <3>1. PICK b \in s..(e - 1) : Lies(b)
        BY <1>2, <2>2
      <3>2. b \in s..((e + 1) - 1)
        OBVIOUS
      <3> QED BY <3>1, <3>2
    <2>3. CASE s <= e /\ ~(x < AddressOf(e))
      <3>1. Lies(e)
        BY <2>1, <2>3, <1>0
      <3>2. e \in s..((e + 1) - 1)
        BY <2>3
      <3> QED BY <3>1, <3>2
    <2>4. CASE s = e + 1
      BY <1>0, <2>1, <2>4
    <2> QED BY <2>1, <2>2, <2>3, <2>4
  <1>3. Nat \subseteq S
    <2> HIDE DEF S
    <2> QED BY <1>1, <1>2, EveryNumber
  <1> QED BY <1>3

\* The map reader shows a raw block at its address.
LEMMA RawBytes ==
    ASSUME image \in Images, NEW address \in Nat, NEW n \in Nat, NEW k \in 1..n,
           NEW b \in 0..(BlockCount - 1), image.blocks[b + 1].kind = "raw",
           address + k - 1 \in AddressOf(b)..(AddressOf(b + 1) - 1)
    PROVE  MapData(address, n)[k] = b * BlockSize + (address + k - 1) - AddressOf(b)
  <1> DEFINE a == address + k - 1
             In(c) == a \in AddressOf(c)..(AddressOf(c + 1) - 1)
             d == CHOOSE c \in 0..(BlockCount - 1) : In(c)
  <1>0. BlockCount \in Nat /\ \A c \in Nat : AddressOf(c) \in Nat
    BY ImageOK, Addresses
  <1>1. In(b)
    OBVIOUS
  <1>2. d \in 0..(BlockCount - 1) /\ In(d)
    <2> HIDE DEF In
    <2> QED BY <1>1
  <1>3. d = b
    <2> HIDE DEF d
    <2>1. a \in Nat /\ d \in Nat /\ b \in Nat
      BY <1>0, <1>2
    <2>2. CASE d < b
      <3>1. AddressOf(d + 1) <= AddressOf(b)
        BY <2>1, <2>2, AddressesGrow
      <3> QED BY <3>1, <2>1, <1>0, <1>1, <1>2
    <2>3. CASE b < d
      <3>1. AddressOf(b + 1) <= AddressOf(d)
        BY <2>1, <2>3, AddressesGrow
      <3> QED BY <3>1, <2>1, <1>0, <1>1, <1>2
    <2> QED BY <2>1, <2>2, <2>3
  <1>4. MapData(address, n)[k] = IF image.blocks[d + 1].kind = "raw" THEN d * BlockSize + a - AddressOf(d) ELSE Zero
    BY DEF MapData
  <1> HIDE DEF d
  <1> QED BY <1>3, <1>4

-----------------------------------------------------------------------------
(* The iterator *)

\* Files as writers store them: a raw block is stored to its end.  The iterator also reads one with a
\* sparse rest, if another block follows it and no raw block comes before it.
StoredWhole ==
    \A b \in 0..(BlockCount - 1) :
        image.blocks[b + 1].kind = "raw" =>
            \/ Stored(b) >= Length(b)
            \/ b + 1 # BlockCount /\ (b = 0 \/ image.blocks[b].kind # "raw")

Iterator == [address : Nat, width : Nat, block : Nat \cup {Finished}, sparse : Nat, data : Seq(Int)]

\* The place in the file that an iterator has come to.
Place(i) == IF i.block = Finished THEN FileSize ELSE StartOf(i.block) - i.sparse

\* What an iterator shows are the bytes in front of that place, the sparse bytes to come are zero,
\* and its window ends where its next block is stored.
IteratorOK(i) ==
    /\ i \in Iterator
    /\ i.block # Finished => i.block <= BlockCount /\ i.address + i.width = AddressOf(i.block)
    /\ i.sparse > 0 => /\ i.block # Finished /\ i.block > 0 /\ i.sparse <= Length(i.block - 1)
                       /\ \A k \in 1..i.sparse : Content[Place(i) + k] = Zero
    /\ Len(i.data) <= Place(i)
    /\ \A k \in 1..Len(i.data) : i.data[k] = Content[Place(i) - Len(i.data) + k]

LEMMA PlaceOK ==
    ASSUME image \in Images, NEW i, IteratorOK(i)
    PROVE  /\ Place(i) \in 0..FileSize /\ FileSize \in Nat /\ Place(i) + i.sparse \in 0..FileSize
           /\ Len(i.data) \in 0..FileSize
           /\ i.block # Finished => i.block \in 0..BlockCount /\ BlockCount \in Nat
  <1>1. i \in Iterator /\ Len(i.data) \in Nat /\ Len(i.data) <= Place(i) /\ i.sparse \in Nat
    BY DEF IteratorOK, Iterator
  <1>2. BlockCount \in Nat /\ FileSize \in Nat /\ \A b \in 0..BlockCount : StartOf(b) \in 0..FileSize
    BY Places
  <1>3. CASE i.block = Finished
    BY <1>1, <1>2, <1>3 DEF Place, IteratorOK
  <1>4. CASE i.block # Finished
    <2>1. i.block \in 0..BlockCount
      BY <1>1, <1>2, <1>4 DEF IteratorOK, Iterator
    <2>2. StartOf(i.block) \in 0..FileSize /\ Place(i) = StartOf(i.block) - i.sparse
      BY <1>2, <1>4, <2>1 DEF Place
    <2> QED BY <1>1, <1>2, <2>1, <2>2
  <1> QED BY <1>3, <1>4

\* An iterator that has not begun stands at its block.
LEMMA FreshOK ==
    ASSUME image \in Images, NEW b \in 0..BlockCount
    PROVE  /\ IteratorOK(FreshIterator(b, AddressOf(b))) /\ Place(FreshIterator(b, AddressOf(b))) = StartOf(b)
           /\ FreshIterator(b, AddressOf(b)).data = <<>> /\ FreshIterator(b, AddressOf(b)).block = b
           /\ FreshIterator(b, AddressOf(b)).sparse = 0
  <1> DEFINE i == FreshIterator(b, AddressOf(b))
  <1>1. BlockCount \in Nat /\ b \in Nat /\ AddressOf(b) \in Nat
    BY ImageOK, Addresses
  <1>2. i = [address |-> AddressOf(b), width |-> 0, block |-> b, sparse |-> 0, data |-> <<>>]
    BY DEF FreshIterator, FreshWindow
  <1>3. <<>> \in Seq(Int) /\ Len(<<>>) = 0
    OBVIOUS
  <1> HIDE DEF i
  <1>4. i \in Iterator /\ i.block = b /\ i.sparse = 0 /\ i.data = <<>> /\ i.address + i.width = AddressOf(b)
    BY <1>1, <1>2, <1>3 DEF Iterator
  <1>5. b # Finished
    BY <1>1 DEF Finished
  <1>6. Place(i) = StartOf(b) /\ StartOf(b) \in Nat
    <2>1. StartOf(b) \in Nat
      BY Places
    <2> QED BY <1>4, <1>5, <2>1 DEF Place
  <1>7. IteratorOK(i)
    BY <1>1, <1>3, <1>4, <1>5, <1>6 DEF IteratorOK
  <1> QED BY <1>4, <1>6, <1>7 DEF i

\* What a successful call does to an iterator that was at place p: it shows the bytes from there on.
Shows(j, p) == IteratorOK(j) /\ Place(j) = p + Len(j.data)

\* map_zero_block: some of the zeros to come.
LEMMA ZeroBlockOK ==
    ASSUME image \in Images, NEW i \in Iterator, i.block # Finished, i.block \in 1..BlockCount,
           i.address + i.width = AddressOf(i.block), i.sparse \in 1..Length(i.block - 1),
           \A k \in 1..i.sparse : Content[StartOf(i.block) - i.sparse + k] = Zero
    PROVE  Shows(ZeroBlock(i), StartOf(i.block) - i.sparse)
  <1> DEFINE n == IF i.sparse > ZeroSize THEN ZeroSize ELSE i.sparse
             z == [k \in 1..n |-> Zero]
             j == ZeroBlock(i)
  <1>1. ZeroSize \in Nat \ {0} /\ n \in 1..i.sparse /\ i.sparse \in Nat
    BY ZeroSizeAssumption DEF Iterator
  <1>2. j = [i EXCEPT !.sparse = i.sparse - n, !.data = z]
    BY DEF ZeroBlock
  <1> HIDE DEF n, j
  <1>3. z \in Seq(Int) /\ Len(z) = n /\ \A k \in 1..n : z[k] = Zero
    BY <1>1 DEF Zero
  <1> HIDE DEF z
  <1>4. /\ j \in Iterator /\ j.block = i.block /\ j.address = i.address /\ j.width = i.width
        /\ j.sparse = i.sparse - n /\ j.data = z
    <2>1. i.sparse - n \in Nat
      BY <1>1
    <2> QED BY <1>2, <1>3, <2>1 DEF Iterator
  <1>5. i.block - 1 \in 0..(BlockCount - 1) /\ (i.block - 1) + 1 = i.block /\ BlockCount \in Nat
    BY ImageOK
  <1>6. /\ Length(i.block - 1) \in Nat /\ StartOf(i.block - 1) \in Nat
        /\ StartOf(i.block) = StartOf(i.block - 1) + Length(i.block - 1)
    <2>1. i.block - 1 \in 0..BlockCount
      BY <1>5
    <2> QED BY <1>5, <2>1, Places, BlockSizeAssumption
  <1>7. Place(j) = StartOf(i.block) - i.sparse + n /\ Place(j) \in Nat
    BY <1>1, <1>4, <1>6 DEF Place
  <1>8. \A k \in 1..j.sparse : Content[Place(j) + k] = Zero
    <2>1. ASSUME NEW k \in 1..j.sparse PROVE Content[Place(j) + k] = Zero
      <3>1. n + k \in 1..i.sparse /\ Place(j) + k = StartOf(i.block) - i.sparse + (n + k)
        BY <1>1, <1>4, <1>6, <1>7
      <3> QED BY <3>1
    <2> QED BY <2>1
  <1>9. \A k \in 1..Len(j.data) : j.data[k] = Content[Place(j) - Len(j.data) + k]
    <2>1. ASSUME NEW k \in 1..n PROVE j.data[k] = Content[Place(j) - n + k]
      <3>1. k \in 1..i.sparse /\ Place(j) - n + k = StartOf(i.block) - i.sparse + k
        BY <1>1, <1>6, <1>7
      <3> QED BY <3>1, <1>3, <1>4
    <2> QED BY <2>1, <1>3, <1>4
  <1>10. Len(j.data) = n /\ n <= Place(j)
    BY <1>1, <1>3, <1>4, <1>6, <1>7
  <1>11. j.sparse > 0 => j.block > 0 /\ j.sparse <= Length(j.block - 1)
    BY <1>1, <1>4, <1>6
  <1>12. j.block # Finished /\ j.block <= BlockCount /\ j.address + j.width = AddressOf(j.block)
    BY <1>4, <1>5
  <1>13. Len(j.data) <= Place(j)
    BY <1>10
  <1>14. IteratorOK(j)
    BY <1>4, <1>8, <1>9, <1>11, <1>12, <1>13 DEF IteratorOK
  <1> QED BY <1>7, <1>10, <1>14 DEF Shows, j

\* The loop over raw blocks ends somewhere, and nowhere before that.
LEMMA RunEndIs ==
    ASSUME image \in Images, NEW i, i.block \in 0..(BlockCount - 1), NEW desired
    PROVE  /\ RunEnd(i, desired) \in i.block..BlockCount
           /\ RunEnds(i, RunEnd(i, desired), desired)
           /\ \A b \in i.block..(RunEnd(i, desired) - 1) : ~RunEnds(i, b, desired)
  <1> DEFINE s == i.block
             Ends(b) == RunEnds(i, b, desired)
             First(e) == Ends(e) /\ \A b \in s..(e - 1) : ~Ends(b)
             S == {n \in Nat : s + n <= BlockCount => \A b \in s..(s + n) : ~Ends(b)}
  <1>1. BlockCount \in Nat /\ s \in Nat /\ BlockCount - s \in Nat
    BY ImageOK
  <1>2. Ends(BlockCount)
    BY DEF RunEnds, RunOver
  <1>3. RunEnd(i, desired) = CHOOSE e \in s..BlockCount : First(e)
    BY DEF RunEnd
  <1>4. \E e \in s..BlockCount : First(e)
    <2>1. SUFFICES ASSUME \A e \in s..BlockCount : ~First(e) PROVE FALSE
      OBVIOUS
    <2> HIDE DEF Ends
    <2>2. 0 \in S
      <3>1. s \in s..BlockCount /\ s..(s - 1) = {} /\ s..(s + 0) = {s}
        BY <1>1
      <3> QED BY <2>1, <3>1
    <2>3. ASSUME NEW n \in Nat, n \in S PROVE n + 1 \in S
      <3>1. SUFFICES ASSUME s + (n + 1) <= BlockCount PROVE \A b \in s..(s + (n + 1)) : ~Ends(b)
        OBVIOUS
      <3>2. \A b \in s..(s + n) : ~Ends(b)
        BY <1>1, <2>3, <3>1
      <3>3. s + (n + 1) \in s..BlockCount /\ (s + (n + 1)) - 1 = s + n
        BY <1>1, <3>1
      <3>4. ~Ends(s + (n + 1))
        BY <2>1, <3>2, <3>3
      <3>5. \A b \in s..(s + (n + 1)) : b \in s..(s + n) \/ b = s + (n + 1)
        BY <1>1
      <3> QED BY <3>2, <3>4, <3>5
    <2>4. Nat \subseteq S
      <3> HIDE DEF S
      <3> QED BY <2>2, <2>3, EveryNumber
    <2>5. \A b \in s..(s + (BlockCount - s)) : ~Ends(b)
      <3> DEFINE n == BlockCount - s
      <3>1. n \in S /\ s + n <= BlockCount
        BY <1>1, <2>4
      <3> QED BY <3>1
    <2>6. BlockCount \in s..(s + (BlockCount - s))
      BY <1>1
    <2> QED BY <1>2, <2>5, <2>6
  <1> HIDE DEF First
  <1>5. RunEnd(i, desired) \in s..BlockCount /\ First(RunEnd(i, desired))
    BY <1>3, <1>4
  <1> QED BY <1>5 DEF First

\* get_block_size is the length of a block.
LEMMA SizeIsLength ==
    ASSUME image \in Images, NEW b \in 0..(BlockCount - 1)
    PROVE  SizeOfBlock(b) = Length(b)
  <1>1. BlockCount \in Nat
    BY ImageOK
  <1> QED BY <1>1 DEF SizeOfBlock, Length

\* The blocks of a run.
LEMMA RunBlocks ==
    ASSUME image \in Images, StoredWhole, NEW i, i.block \in 0..(BlockCount - 1),
           image.blocks[i.block + 1].kind = "raw", Stored(i.block) > 0, NEW desired \in Nat \ {0},
           NEW end, end = RunEnd(i, desired),
           NEW last, last = IF RunOver(i, end, desired) THEN end - 1 ELSE end,
           ~\E b \in i.block..last : Stored(b) > SizeOfBlock(b)
    PROVE  /\ end \in (i.block + 1)..BlockCount /\ last \in {end - 1, end} /\ last \in i.block..(BlockCount - 1)
           /\ \A b \in i.block..(end - 1) : image.blocks[b + 1].kind = "raw" /\ Stored(b) \in 0..Length(b)
           /\ \A b \in i.block..(end - 2) : Stored(b) = Length(b)
           /\ Behind(last) = Length(end - 1) - Stored(end - 1)
           /\ Behind(last) > 0 => Stored(end - 1) = Length(end - 1) - Behind(last)
           /\ desired = 1 => end = i.block + 1
  <1> DEFINE s == i.block
  <1>1. BlockCount \in Nat /\ s \in Nat
    BY ImageOK
  <1>2. end \in s..BlockCount /\ RunEnds(i, end, desired) /\ \A b \in s..(end - 1) : ~RunEnds(i, b, desired)
    BY RunEndIs
  <1>3. RunSize(i, s) = 0
    <2>1. AddressOf(s) \in Nat
      BY <1>1, Addresses
    <2> QED BY <2>1 DEF RunSize
  <1>4. end # s
    BY <1>1, <1>2, <1>3 DEF RunEnds, RunOver, TooFar
  <1>5. end \in (s + 1)..BlockCount
    BY <1>1, <1>2, <1>4
  <1>6. \A b \in s..(end - 1) : image.blocks[b + 1].kind = "raw" /\ b # BlockCount
    BY <1>2 DEF RunEnds, RunOver
  <1>7. last \in {end - 1, end} /\ last \in s..(BlockCount - 1)
    <2>1. CASE RunOver(i, end, desired)
      BY <1>1, <1>5, <2>1
    <2>2. CASE ~RunOver(i, end, desired)
      <3>1. end # BlockCount /\ last = end
        BY <2>2 DEF RunOver
      <3> QED BY <1>1, <1>5, <3>1
    <2> QED BY <2>1, <2>2
  <1>8. \A b \in 0..(BlockCount - 1) :
           /\ SizeOfBlock(b) = Length(b) /\ Stored(b) \in Nat /\ Length(b) \in 1..BlockSize
           /\ b + 1 # BlockCount => Length(b) = BlockSize
    BY SizeIsLength, Kinds, Places
  <1>9. \A b \in s..last : Stored(b) \in 0..Length(b)
    <2>1. ASSUME NEW b \in s..last PROVE Stored(b) \in 0..Length(b)
      <3>1. b \in 0..(BlockCount - 1) /\ ~(Stored(b) > SizeOfBlock(b))
        BY <1>1, <1>7
      <3> QED BY <1>8, <3>1, BlockSizeAssumption
    <2> QED BY <2>1
  <1>10. ASSUME NEW b \in (s + 1)..(BlockCount - 1), b - 1 \in s..(end - 1), image.blocks[b + 1].kind = "raw",
                Stored(b) \in 0..Length(b)
         PROVE  Stored(b) = Length(b)
    <2>1. b \in 0..(BlockCount - 1) /\ b # 0 /\ image.blocks[b].kind = "raw"
      <3>1. image.blocks[(b - 1) + 1].kind = "raw"
        BY <1>6, <1>10
      <3> QED BY <1>1, <3>1
    <2>2. Stored(b) >= Length(b)
      BY <2>1, <1>10 DEF StoredWhole
    <2>3. Length(b) \in Nat
      BY <1>8, <2>1, BlockSizeAssumption
    <2> QED BY <1>10, <2>2, <2>3
  <1>11. ASSUME NEW b \in s..(end - 2) PROVE Stored(b) = Length(b)
    <2>1. b + 1 \in s..(end - 1) /\ b + 1 > s /\ (b + 1) - 1 = b /\ b \in s..last /\ b \in 0..(BlockCount - 1) /\ b + 1 # BlockCount
      BY <1>1, <1>5, <1>7
    <2>2. ~RunOver(i, b + 1, desired)
      BY <1>2, <2>1 DEF RunEnds
    <2>3. ~(Behind(b) > 0)
      BY <2>1, <2>2 DEF RunOver
    <2>4. Behind(b) = BlockSize - Stored(b) /\ Length(b) = BlockSize
      BY <1>8, <2>1 DEF Behind
    <2> QED BY <1>8, <1>9, <2>1, <2>3, <2>4, BlockSizeAssumption
  <1> DEFINE f == end - 1
  <1>12. /\ f \in s..last /\ f \in s..(end - 1) /\ f \in 0..(BlockCount - 1) /\ f + 1 = end
         /\ Stored(f) \in 0..Length(f) /\ Length(f) \in 1..BlockSize /\ BlockSize \in Nat
    BY <1>1, <1>5, <1>7, <1>8, <1>9, BlockSizeAssumption
  <1>13. Behind(last) = Length(f) - Stored(f)
    <2>1. CASE RunOver(i, end, desired)
      <3>1. last = f
        BY <2>1
      <3>2. CASE f + 1 # BlockCount
        BY <1>8, <1>12, <3>1, <3>2 DEF Behind
      <3>3. CASE f + 1 = BlockCount
        <4>1. Stored(f) >= Length(f)
          BY <1>6, <1>12, <3>3 DEF StoredWhole
        <4> QED BY <1>12, <3>1, <3>3, <4>1 DEF Behind
      <3> QED BY <3>2, <3>3
    <2>2. CASE ~RunOver(i, end, desired)
      <3>1. /\ last = end /\ end # BlockCount /\ image.blocks[end + 1].kind = "raw"
            /\ (end > s => ~(Behind(f) > 0))
        BY <2>2 DEF RunOver
      <3>2. end \in (s + 1)..(BlockCount - 1) /\ end - 1 \in s..(end - 1) /\ end \in s..last /\ end \in 0..(BlockCount - 1)
        BY <1>1, <1>5, <3>1
      <3>3. Stored(end) = Length(end)
        BY <1>9, <1>10, <3>1, <3>2
      <3>4. Behind(end) = 0
        BY <1>8, <3>2, <3>3, BlockSizeAssumption DEF Behind
      <3>5. Behind(f) = BlockSize - Stored(f) /\ Length(f) = BlockSize
        BY <1>8, <1>12, <3>1 DEF Behind
      <3> QED BY <1>1, <1>5, <1>12, <3>1, <3>4, <3>5
    <2> QED BY <2>1, <2>2
  <1>14. ASSUME desired = 1 PROVE end = s + 1
    <2>1. SUFFICES ASSUME end # s + 1 PROVE FALSE
      OBVIOUS
    <2>2. s + 1 \in s..(end - 1)
      BY <1>1, <1>5, <2>1
    <2>3. ~RunOver(i, s + 1, desired)
      BY <1>2, <2>2 DEF RunEnds
    <2>4. RunSize(i, s + 1) = Stored(s) /\ Stored(s) \in Nat
      BY <1>1, Addresses, StoredNat DEF RunSize
    <2> QED BY <1>1, <1>14, <2>3, <2>4 DEF RunOver
  <1>15. \A b \in s..(end - 1) : image.blocks[b + 1].kind = "raw" /\ Stored(b) \in 0..Length(b)
    <2>1. \A b \in s..(end - 1) : b \in s..last
      BY <1>1, <1>5, <1>7
    <2> QED BY <1>6, <1>9, <2>1
  <1> QED BY <1>5, <1>7, <1>11, <1>12, <1>13, <1>14, <1>15

\* As long as the blocks of a run are stored whole, what lies between two of them in the archive is
\* what lies between them in the file.
LEMMA RunSpans ==
    ASSUME image \in Images, NEW s \in Nat, NEW f \in Nat, s <= f, f < BlockCount,
           \A b \in s..(f - 1) : Stored(b) = Length(b)
    PROVE  \A b \in s..f : AddressOf(b) - AddressOf(s) = StartOf(b) - StartOf(s)
  <1> DEFINE S == {n \in Nat : s + n <= f => AddressOf(s + n) - AddressOf(s) = StartOf(s + n) - StartOf(s)}
  <1>0. BlockCount \in Nat /\ \A b \in Nat : AddressOf(b) \in Nat /\ AddressOf(b + 1) = AddressOf(b) + Stored(b)
    BY ImageOK, Addresses
  <1>1. ASSUME NEW b \in 0..(BlockCount - 1)
        PROVE  StartOf(b) \in Nat /\ StartOf(b + 1) = StartOf(b) + Length(b) /\ Length(b) \in Nat
    <2>1. b \in 0..BlockCount
      BY <1>0
    <2> QED BY <1>1, <2>1, Places, BlockSizeAssumption
  <1>2. 0 \in S
    <2>1. s \in 0..(BlockCount - 1) /\ s + 0 = s
      BY <1>0
    <2>2. StartOf(s) \in Nat /\ AddressOf(s) \in Nat
      BY <2>1, <1>0, <1>1
    <2> QED BY <2>1, <2>2
  <1>3. ASSUME NEW n \in Nat, n \in S PROVE n + 1 \in S
    <2>1. SUFFICES ASSUME s + (n + 1) <= f
                   PROVE  AddressOf(s + (n + 1)) - AddressOf(s) = StartOf(s + (n + 1)) - StartOf(s)
      OBVIOUS
    <2> DEFINE b == s + n
    <2>2. b \in s..(f - 1) /\ b \in 0..(BlockCount - 1) /\ b \in Nat /\ s + (n + 1) = b + 1 /\ s \in 0..(BlockCount - 1)
      BY <1>0, <2>1
    <2>3. AddressOf(b) - AddressOf(s) = StartOf(b) - StartOf(s)
      BY <1>3, <2>1
    <2> HIDE DEF b
    <2>4. Stored(b) = Length(b)
      BY <2>2
    <2>5. AddressOf(b + 1) - AddressOf(s) = StartOf(b + 1) - StartOf(s)
      <3>1. AddressOf(b) \in Nat /\ AddressOf(b + 1) = AddressOf(b) + Stored(b) /\ AddressOf(s) \in Nat
        BY <1>0, <2>2
      <3>2. StartOf(b) \in Nat /\ StartOf(b + 1) = StartOf(b) + Length(b) /\ Length(b) \in Nat /\ StartOf(s) \in Nat
        BY <1>1, <2>2
      <3> QED BY <2>3, <2>4, <3>1, <3>2
    <2> QED BY <2>2, <2>5
  <1>4. Nat \subseteq S
    <2> HIDE DEF S
    <2> QED BY <1>2, <1>3, EveryNumber
  <1>5. ASSUME NEW b \in s..f PROVE AddressOf(b) - AddressOf(s) = StartOf(b) - StartOf(s)
    <2>1. b - s \in Nat /\ s + (b - s) = b /\ b <= f
      OBVIOUS
    <2>2. b - s \in S
      BY <1>4, <2>1
    <2> QED BY <2>1, <2>2
  <1> QED BY <1>5

\* map_block_uncompressed: the bytes of a run of raw blocks, and the sparse rest of the last.
LEMMA RawBlocksOK ==
    ASSUME image \in Images, StoredWhole, NEW i, IteratorOK(i), i.sparse = 0, i.block \in 0..(BlockCount - 1),
           image.blocks[i.block + 1].kind = "raw", Stored(i.block) > 0, NEW desired \in Nat \ {0},
           NEW o \in RawBlocks(i, desired)
    PROVE  /\ o.more \in BOOLEAN /\ o.err = ~o.more
           /\ o.more => /\ Shows(o.it, Place(i)) /\ o.it.block # Finished
                        /\ desired = 1 => o.it.block = i.block + 1
  <1> DEFINE s == i.block
             end == RunEnd(i, desired)
             last == IF RunOver(i, end, desired) THEN end - 1 ELSE end
             n == RunSize(i, end)
             mapped == MapAdvanced(i, i.width, n)
             bad == \E b \in s..last : Stored(b) > SizeOfBlock(b)
             j == [mapped EXCEPT !.block = end, !.sparse = Behind(last), !.data = MapData(mapped.address, n)]
  <1>1. \/ bad /\ o \in Error(i)
        \/ ~bad /\ o \in Success(j) \cup Error(mapped)
    <2>1. RawBlocks(i, desired) = IF bad THEN Error(i) ELSE Success(j) \cup Error(mapped)
      BY DEF RawBlocks
    <2> HIDE DEF j, mapped
    <2> QED BY <2>1
  <1> HIDE DEF j, mapped
  <1>2. CASE o \in Error(i) \cup Error(mapped)
    <2>1. o.more = FALSE /\ o.err = TRUE
      BY <1>2 DEF Error
    <2> QED BY <2>1
  <1>3. CASE ~bad /\ o \in Success(j)
    <2>1. o = [it |-> j, more |-> TRUE, err |-> FALSE] /\ ~bad
      BY <1>3 DEF Success
    <2> HIDE DEF bad
    <2> DEFINE f == end - 1
    <2>2. /\ end \in (s + 1)..BlockCount /\ last \in {end - 1, end} /\ last \in s..(BlockCount - 1)
          /\ \A b \in s..f : image.blocks[b + 1].kind = "raw" /\ Stored(b) \in 0..Length(b)
          /\ \A b \in s..(end - 2) : Stored(b) = Length(b)
          /\ Behind(last) = Length(f) - Stored(f)
          /\ Behind(last) > 0 => Stored(f) = Length(f) - Behind(last)
          /\ desired = 1 => end = s + 1
      <3>1. ~\E b \in s..last : Stored(b) > SizeOfBlock(b)
        BY <2>1 DEF bad
      <3> HIDE DEF last, end
      <3>2. end = RunEnd(i, desired) /\ last = IF RunOver(i, end, desired) THEN end - 1 ELSE end
        BY DEF last, end
      <3> QED BY <3>1, <3>2, RunBlocks
    <2> HIDE DEF end, last
    <2>3. /\ BlockCount \in Nat /\ s \in Nat /\ end \in Nat /\ f \in Nat /\ s <= f /\ f < BlockCount /\ f + 1 = end
          /\ \A b \in s..(f - 1) : Stored(b) = Length(b)
      <3>1. BlockCount \in Nat /\ s \in Nat /\ end - 2 = f - 1
        BY <2>2, ImageOK
      <3>2. \A b \in s..(f - 1) : Stored(b) = Length(b)
        BY <2>2, <3>1
      <3> QED BY <2>2, <3>1, <3>2
    <2> HIDE DEF f
    <2>4. \A b \in s..f : AddressOf(b) - AddressOf(s) = StartOf(b) - StartOf(s)
      BY <2>3, RunSpans
    <2>5. /\ f \in s..f /\ f \in 0..(BlockCount - 1) /\ f \in 0..BlockCount /\ end \in 0..BlockCount /\ s \in 0..BlockCount
          /\ s \in 0..(BlockCount - 1)
      BY <2>3
    <2>6. /\ Stored(f) \in 0..Length(f) /\ Length(f) \in Nat /\ StartOf(f) \in Nat /\ StartOf(end) = StartOf(f) + Length(f)
          /\ StartOf(s) \in Nat /\ AddressOf(s) \in Nat /\ AddressOf(f) \in Nat /\ AddressOf(end) = AddressOf(f) + Stored(f)
      BY <2>2, <2>3, <2>5, Places, Addresses, BlockSizeAssumption
    <2>7. n = AddressOf(end) - AddressOf(s) /\ n \in Nat /\ StartOf(end) - Behind(last) = StartOf(s) + n /\ Behind(last) \in Nat
      <3>1. AddressOf(f) - AddressOf(s) = StartOf(f) - StartOf(s)
        BY <2>4, <2>5
      <3>2. AddressOf(s) <= AddressOf(end)
        BY <2>3, AddressesGrow
      <3>3. n = AddressOf(end) - AddressOf(s)
        BY DEF RunSize
      <3>4. Behind(last) = Length(f) - Stored(f)
        BY <2>2 DEF f
      <3> QED BY <2>6, <3>1, <3>2, <3>3, <3>4
    <2> HIDE DEF n
    <2>8. i \in Iterator /\ s # Finished /\ Place(i) = StartOf(s) /\ i.address + i.width = AddressOf(s)
      <3>1. s # Finished
        BY <2>3 DEF Finished
      <3> QED BY <2>6, <3>1 DEF IteratorOK, Place
    <2>9. /\ mapped = [i EXCEPT !.address = AddressOf(s), !.width = n]
          /\ mapped.address = AddressOf(s)
      <3>1. mapped = [i EXCEPT !.address = i.address + i.width, !.width = n]
        BY DEF mapped, MapAdvanced
      <3> QED BY <2>8, <3>1 DEF Iterator
    <2> DEFINE d == MapData(AddressOf(s), n)
    <2>10. ASSUME NEW k \in 1..n
           PROVE  d[k] = Content[StartOf(s) + k] /\ d[k] \in Int
      <3> DEFINE x == AddressOf(s) + k - 1
      <3>1. x \in Nat /\ AddressOf(s) <= x /\ x < AddressOf(end)
        BY <2>6, <2>7
      <3>2. PICK b \in s..(end - 1) : x \in AddressOf(b)..(AddressOf(b + 1) - 1)
        <4> HIDE DEF x
        <4> QED BY <2>3, <3>1, Located
      <3>3. b \in s..f /\ b \in Nat /\ b \in 0..(BlockCount - 1) /\ b \in 0..BlockCount /\ BlockCount \in Nat
        BY <2>3
      <3>4. image.blocks[b + 1].kind = "raw" /\ Stored(b) \in 0..Length(b) /\ AddressOf(b) - AddressOf(s) = StartOf(b) - StartOf(s)
        BY <2>2, <2>4, <3>3 DEF f
      <3>5. AddressOf(b) \in Nat /\ AddressOf(b + 1) = AddressOf(b) + Stored(b)
        BY <3>3, Addresses
      <3>6. StartOf(b) \in Nat /\ StartOf(b) = b * BlockSize /\ Length(b) \in Nat
        BY <3>3, Places, BlockSizeAssumption
      <3> DEFINE m == x - AddressOf(b) + 1
      <3>7. m \in 1..Stored(b) /\ m \in 1..Length(b) /\ StartOf(b) + m = StartOf(s) + k
        BY <2>6, <3>1, <3>2, <3>4, <3>5, <3>6
      <3>8. d[k] = b * BlockSize + x - AddressOf(b)
        BY <2>6, <2>7, <3>2, <3>3, <3>4, RawBytes
      <3>9. d[k] = StartOf(b) + m - 1
        BY <3>1, <3>5, <3>6, <3>8
      <3> HIDE DEF m
      <3>10. Content[StartOf(b) + m] = StartOf(b) + m - 1
        <4>1. Content[StartOf(b) + m] = BlockBytes(b)[m] /\ BlockBytes(b)[m] = IF m <= Stored(b) THEN StartOf(b) + m - 1 ELSE Zero
          BY <3>3, <3>4, <3>7, BlockContent
        <4> QED BY <3>7, <4>1
      <3> QED BY <3>6, <3>7, <3>9, <3>10
    <2>11. d \in Seq(Int) /\ Len(d) = n
      <3>1. DOMAIN d = 1..n /\ d = [k \in 1..n |-> d[k]]
        BY DEF MapData
      <3> HIDE DEF d
      <3> QED BY <2>7, <2>10, <3>1
    <2> HIDE DEF d
    <2>12. /\ j \in Iterator /\ j.block = end /\ j.sparse = Behind(last) /\ j.data = d
           /\ j.address = AddressOf(s) /\ j.width = n
      <3>1. j = [mapped EXCEPT !.block = end, !.sparse = Behind(last), !.data = d]
        BY <2>9 DEF j, d
      <3> QED BY <2>3, <2>6, <2>7, <2>8, <2>9, <2>11, <3>1 DEF Iterator
    <2>13. end # Finished
      BY <2>3 DEF Finished
    <2>14. Place(j) = StartOf(s) + n
      BY <2>7, <2>12, <2>13 DEF Place
    <2>15. ASSUME j.sparse > 0
           PROVE  j.block > 0 /\ j.sparse <= Length(j.block - 1) /\ \A k \in 1..j.sparse : Content[Place(j) + k] = Zero
      <3>1. Stored(f) = Length(f) - j.sparse /\ j.sparse \in Nat
        BY <2>2, <2>7, <2>12, <2>15 DEF f
      <3>2. ASSUME NEW k \in 1..j.sparse PROVE Content[Place(j) + k] = Zero
        <4> DEFINE m == Stored(f) + k
        <4>1. m \in 1..Length(f) /\ ~(m <= Stored(f)) /\ Place(j) + k = StartOf(f) + m
          BY <2>6, <2>7, <2>12, <2>14, <3>1
        <4> HIDE DEF m
        <4>2. Content[StartOf(f) + m] = BlockBytes(f)[m] /\ BlockBytes(f)[m] = Zero
          <5>1. image.blocks[f + 1].kind = "raw"
            BY <2>2, <2>5 DEF f
          <5> QED BY <2>5, <4>1, <5>1, BlockContent
        <4> QED BY <4>1, <4>2
      <3>3. j.block - 1 = f
        BY <2>3, <2>12
      <3> QED BY <2>3, <2>6, <2>12, <3>1, <3>2, <3>3
    <2>16. j.block <= BlockCount /\ j.address + j.width = AddressOf(j.block)
      BY <2>5, <2>6, <2>7, <2>12
    <2>17. Len(j.data) = n /\ n <= Place(j) /\ \A k \in 1..n : j.data[k] = Content[Place(j) - n + k]
      <3>1. \A k \in 1..n : Place(j) - n + k = StartOf(s) + k
        BY <2>6, <2>7, <2>14
      <3>2. \A k \in 1..n : j.data[k] = Content[Place(j) - n + k]
        BY <2>10, <2>12, <3>1
      <3>3. n <= Place(j)
        BY <2>6, <2>7, <2>14
      <3> QED BY <2>11, <2>12, <3>2, <3>3
    <2>18. IteratorOK(j)
      BY <2>12, <2>15, <2>16, <2>17, <2>13 DEF IteratorOK
    <2>19. Shows(j, Place(i))
      BY <2>8, <2>14, <2>17, <2>18 DEF Shows
    <2> QED BY <2>1, <2>2, <2>12, <2>13, <2>19
  <1> HIDE DEF bad
  <1> QED BY <1>1, <1>2, <1>3

\* map_block_compressed: the whole block, or an error.
LEMMA PackedBlockOK ==
    ASSUME image \in Images, NEW i, IteratorOK(i), i.sparse = 0, i.block \in 0..(BlockCount - 1),
           NEW o \in PackedBlock(i)
    PROVE  \/ o.more = FALSE /\ o.err = TRUE
           \/ /\ o.more = TRUE /\ o.err = FALSE /\ Shows(o.it, Place(i)) /\ o.it.block = i.block + 1
  <1> DEFINE b == i.block
             mapped == MapAdvanced(i, i.width, Stored(b))
             j == [mapped EXCEPT !.block = mapped.block + 1, !.data = BlockBytes(b)]
  <1>1. o \in Success(j) \/ o \in Error(mapped)
    <2> HIDE DEF mapped
    <2> QED BY DEF PackedBlock, mapped
  <1> HIDE DEF j, mapped
  <1>2. CASE o \in Error(mapped)
    BY <1>2 DEF Error
  <1>3. CASE o \in Success(j)
    <2>1. o = [it |-> j, more |-> TRUE, err |-> FALSE]
      BY <1>3 DEF Success
    <2>2. BlockCount \in Nat /\ b \in Nat /\ b + 1 \in 0..BlockCount /\ b \in 0..BlockCount /\ b + 1 \in Nat
      BY ImageOK
    <2>3. /\ Stored(b) \in Nat /\ AddressOf(b) \in Nat /\ AddressOf(b + 1) = AddressOf(b) + Stored(b)
          /\ StartOf(b) \in Nat /\ StartOf(b + 1) = StartOf(b) + Length(b) /\ Length(b) \in Nat
      BY SMTT(30), <2>2, StoredNat, Addresses, Places, BlockSizeAssumption
    <2>4. i \in Iterator /\ b # Finished /\ b + 1 # Finished /\ Place(i) = StartOf(b) /\ i.address + i.width = AddressOf(b)
      BY <2>2, <2>3 DEF IteratorOK, Place, Finished
    <2> DEFINE d == BlockBytes(b)
    <2>5. \A k \in 1..Length(b) : d[k] = Content[StartOf(b) + k] /\ d[k] \in Int
      BY BlockContent
    <2>6. d \in Seq(Int) /\ Len(d) = Length(b)
      <3>1. d = [k \in 1..Length(b) |-> d[k]]
        BY DEF BlockBytes
      <3> HIDE DEF d
      <3> QED BY SMTT(30), <2>3, <2>5, <3>1
    <2> HIDE DEF d
    <2>7. mapped = [i EXCEPT !.address = AddressOf(b), !.width = Stored(b)]
      <3>1. mapped = [i EXCEPT !.address = i.address + i.width, !.width = Stored(b)]
        BY DEF mapped, MapAdvanced
      <3> QED BY <2>4, <3>1
    <2>8. /\ j \in Iterator /\ j.block = b + 1 /\ j.sparse = 0 /\ j.data = d
          /\ j.address = AddressOf(b) /\ j.width = Stored(b)
      <3>1. mapped.block = b
        BY <2>4, <2>7 DEF Iterator
      <3>2. j = [mapped EXCEPT !.block = b + 1, !.data = d]
        BY <3>1 DEF j, d
      <3> QED BY <2>2, <2>3, <2>4, <2>6, <2>7, <3>2 DEF Iterator
    <2>9. Place(j) = StartOf(b) + Length(b)
      BY <2>3, <2>4, <2>8 DEF Place
    <2>10. \A k \in 1..Len(j.data) : j.data[k] = Content[Place(j) - Len(j.data) + k]
      <3>1. \A k \in 1..Length(b) : Place(j) - Length(b) + k = StartOf(b) + k
        BY <2>3, <2>9
      <3> QED BY <2>5, <2>6, <2>8, <3>1
    <2>11. Len(j.data) <= Place(j)
      BY <2>3, <2>6, <2>8, <2>9
    <2>12. j.block <= BlockCount /\ j.address + j.width = AddressOf(j.block) /\ ~(j.sparse > 0)
      BY <2>2, <2>3, <2>8
    <2>13. IteratorOK(j)
      BY <2>8, <2>10, <2>11, <2>12 DEF IteratorOK
    <2>14. Shows(j, Place(i))
      BY <2>4, <2>6, <2>8, <2>9, <2>13 DEF Shows
    <2> QED BY <2>1, <2>8, <2>14
  <1> QED BY <1>1, <1>2, <1>3

\* map_block
LEMMA MapBlockOK ==
    ASSUME image \in Images, StoredWhole, NEW i, IteratorOK(i), i.sparse = 0, i.block \in 0..(BlockCount - 1),
           NEW desired \in Nat \ {0}, NEW o \in MapBlock(i, desired)
    PROVE  \/ o.more = FALSE /\ o.err = TRUE
           \/ /\ o.more = TRUE /\ o.err = FALSE /\ Shows(o.it, Place(i)) /\ o.it.block # Finished
              /\ desired = 1 => o.it.block = i.block + 1
  <1> DEFINE b == i.block
  <1>1. BlockCount \in Nat /\ b \in Nat /\ b + 1 \in 0..BlockCount /\ b \in 0..BlockCount /\ b + 1 \in Nat
    BY ImageOK
  <1>2. /\ image.blocks[b + 1].kind \in {"raw", "sparse"} \cup Packed /\ Stored(b) \in Nat
        /\ image.blocks[b + 1].kind = "sparse" => Stored(b) = 0
        /\ image.blocks[b + 1].kind \in Packed => Stored(b) > 0
    BY Kinds
  <1>3. CASE Stored(b) = 0
    <2> DEFINE z == ZeroBlock([i EXCEPT !.sparse = SizeOfBlock(b)])
               j == [z EXCEPT !.block = z.block + 1]
               h == [i EXCEPT !.sparse = Length(b), !.block = b + 1]
    <2>1. o \in Success(j)
      <3>1. image.blocks[b + 1].kind \notin Packed
        BY <1>2, <1>3
      <3>2. MapBlock(i, desired) = CASE Stored(b) = 0 -> Success(j)
                                     [] image.blocks[b + 1].kind \in Packed -> PackedBlock(i)
                                     [] OTHER -> RawBlocks(i, desired)
        BY DEF MapBlock
      <3> HIDE DEF j
      <3> QED BY <1>3, <3>1, <3>2
    <2>2. o = [it |-> j, more |-> TRUE, err |-> FALSE]
      <3> HIDE DEF j
      <3> QED BY <2>1 DEF Success
    <2>3. /\ AddressOf(b) \in Nat /\ AddressOf(b + 1) = AddressOf(b) + Stored(b)
          /\ StartOf(b) \in Nat /\ StartOf(b + 1) = StartOf(b) + Length(b) /\ Length(b) \in Nat \ {0}
      BY <1>1, Addresses, Places, BlockSizeAssumption
    <2>4. i \in Iterator /\ b # Finished /\ b + 1 # Finished /\ Place(i) = StartOf(b) /\ i.address + i.width = AddressOf(b)
      BY <1>1, <2>3 DEF IteratorOK, Place, Finished
    <2>5. j = ZeroBlock(h) /\ j.block = b + 1
      <3>1. SizeOfBlock(b) = Length(b)
        BY SizeIsLength
      <3> DEFINE g == [i EXCEPT !.sparse = Length(b)]
                 n == IF Length(b) > ZeroSize THEN ZeroSize ELSE Length(b)
      <3>2. g \in Iterator /\ g.sparse = Length(b) /\ g.block = b
        BY <2>3, <2>4 DEF Iterator
      <3>3. h \in Iterator /\ h.sparse = Length(b) /\ h.block = b + 1
        BY <1>1, <2>3, <2>4 DEF Iterator
      <3> DEFINE y == [k \in 1..n |-> Zero]
      <3>4. z = [g EXCEPT !.sparse = Length(b) - n, !.data = y]
        BY <3>1, <3>2 DEF ZeroBlock
      <3>5. ZeroBlock(h) = [h EXCEPT !.sparse = Length(b) - n, !.data = y]
        BY <3>3 DEF ZeroBlock
      <3> HIDE DEF y, n, z
      <3>6. z.block = b
        BY <2>4, <3>4 DEF Iterator
      <3>7. j = [z EXCEPT !.block = b + 1]
        BY <3>6
      <3> HIDE DEF j
      <3> DEFINE r == [address |-> i.address, width |-> i.width, block |-> b + 1, sparse |-> Length(b) - n, data |-> y]
      <3>8. i = [address |-> i.address, width |-> i.width, block |-> b, sparse |-> i.sparse, data |-> i.data]
        BY <2>4 DEF Iterator
      <3>9. z = [address |-> i.address, width |-> i.width, block |-> b, sparse |-> Length(b) - n, data |-> y]
        BY <3>4, <3>8
      <3>10. j = r
        BY <3>7, <3>9
      <3>11. ZeroBlock(h) = r
        BY <3>5, <3>8
      <3> QED BY <3>10, <3>11
    <2> HIDE DEF j, z
    <2>6. /\ h \in Iterator /\ h.sparse = Length(b) /\ h.block = b + 1 /\ h.address + h.width = AddressOf(b + 1)
      <3>1. AddressOf(b + 1) = AddressOf(b)
        BY <1>3, <2>3
      <3>2. h \in Iterator /\ h.sparse = Length(b) /\ h.block = b + 1 /\ h.address = i.address /\ h.width = i.width
        BY <1>1, <2>3, <2>4 DEF Iterator
      <3> HIDE DEF h
      <3> QED BY <2>4, <3>1, <3>2
    <2> HIDE DEF h
    <2>7. ASSUME NEW k \in 1..Length(b) PROVE Content[StartOf(b) + k] = Zero
      <3>1. /\ Content[StartOf(b) + k] = BlockBytes(b)[k]
            /\ image.blocks[b + 1].kind = "raw" => BlockBytes(b)[k] = IF k <= Stored(b) THEN StartOf(b) + k - 1 ELSE Zero
            /\ image.blocks[b + 1].kind = "sparse" => BlockBytes(b)[k] = Zero
        BY BlockContent
      <3>2. ~(k <= Stored(b))
        BY <1>3
      <3> QED BY <1>2, <1>3, <3>1, <3>2
    <2>8. Shows(ZeroBlock(h), StartOf(h.block) - h.sparse)
      <3>1. h.block # Finished /\ h.block \in 1..BlockCount /\ h.block - 1 = b
        BY <1>1, <2>4, <2>6
      <3>2. h.sparse \in 1..Length(h.block - 1) /\ StartOf(h.block) - h.sparse = StartOf(b)
        BY <2>3, <2>6, <3>1
      <3> QED BY <2>6, <2>7, <3>1, <3>2, ZeroBlockOK
    <2>9. StartOf(h.block) - h.sparse = StartOf(b)
      BY <2>3, <2>6
    <2> QED BY <2>2, <2>4, <2>5, <2>8, <2>9
  <1>4. CASE Stored(b) # 0 /\ image.blocks[b + 1].kind \in Packed
    <2>1. o \in PackedBlock(i)
      BY <1>4 DEF MapBlock
    <2>2. b + 1 # Finished
      BY <1>1 DEF Finished
    <2> QED BY <2>1, <2>2, PackedBlockOK
  <1>5. CASE Stored(b) # 0 /\ image.blocks[b + 1].kind \notin Packed
    <2>1. o \in RawBlocks(i, desired)
      BY <1>5 DEF MapBlock
    <2>2. image.blocks[b + 1].kind = "raw" /\ Stored(b) > 0
      BY <1>2, <1>5
    <2>3. /\ o.more \in BOOLEAN /\ o.err = ~o.more
          /\ o.more => Shows(o.it, Place(i)) /\ o.it.block # Finished /\ (desired = 1 => o.it.block = i.block + 1)
      BY <2>1, <2>2, RawBlocksOK
    <2>4. (o.more = TRUE /\ o.err = FALSE) \/ (o.more = FALSE /\ o.err = TRUE)
      BY <2>3
    <2> QED BY <2>3, <2>4
  <1> QED BY <1>3, <1>4, <1>5

\* Extractors have sizes.
Extractors == [rv : {"ok", "error"}, impl : BOOLEAN, open : Int, size : Int, ended : BOOLEAN]

LEMMA SetRv ==
    ASSUME NEW e \in Extractors, NEW rv0 \in {"ok", "error"}
    PROVE  [e EXCEPT !.rv = rv0] \in Extractors
  BY DEF Extractors

LEMMA SetSize ==
    ASSUME NEW e \in Extractors, NEW n \in Int
    PROVE  [e EXCEPT !.size = n] \in Extractors
  BY DEF Extractors

LEMMA SetEnded ==
    ASSUME NEW e \in Extractors, NEW n \in Int, NEW b \in BOOLEAN
    PROVE  [e EXCEPT !.size = n, !.ended = b] \in Extractors
  BY DEF Extractors

LEMMA SetImpl ==
    ASSUME NEW e \in Extractors, NEW b \in BOOLEAN
    PROVE  [e EXCEPT !.impl = b] \in Extractors
  BY DEF Extractors

LEMMA SetOpen ==
    ASSUME NEW e \in Extractors, NEW n \in Int, NEW rv0 \in {"ok", "error"}
    PROVE  [e EXCEPT !.open = n, !.rv = rv0] \in Extractors
  BY DEF Extractors

LEMMA InitSizes ==
    ASSUME NEW codec, NEW e \in ExtractorInit(codec)
    PROVE  e \in Extractors /\ (codec = "none" => ~e.impl)
  <1>1. NoExtractor \in Extractors /\ ~NoExtractor.impl
    BY DEF NoExtractor, Extractors
  <1>2. ASSUME NEW i \in ImplInit(NoExtractor), e = [i EXCEPT !.impl = (i.rv = "ok")]
        PROVE  e \in Extractors
    <2>1. i \in Extractors
      <3>1. CASE i = [NoExtractor EXCEPT !.rv = "ok", !.open = 1]
        <4>1. i = [rv |-> "ok", impl |-> FALSE, open |-> 1, size |-> 0, ended |-> FALSE]
          BY <3>1 DEF NoExtractor
        <4> QED BY <4>1 DEF Extractors
      <3> QED BY <1>1, <1>2, <3>1 DEF ImplInit
    <2>2. (i.rv = "ok") \in BOOLEAN
      OBVIOUS
    <2> QED BY <1>2, <2>1, <2>2, SetImpl
  <1> QED BY <1>1, <1>2 DEF ExtractorInit

LEMMA WriteSizes ==
    ASSUME NEW codec \in Codecs, NEW stream, stream.size \in Int, stream.whole \in BOOLEAN, NEW room \in Int,
           NEW e \in Extractors, codec = "none" => ~e.impl, NEW f \in ExtractorWrite(e, codec, stream, room)
    PROVE  f \in Extractors
  <1> DEFINE n == IF stream.size > room THEN room ELSE stream.size
             b == stream.whole /\ stream.size <= room
             failed == [e EXCEPT !.rv = "error"]
             sized == [e EXCEPT !.size = n]
             exact == [e EXCEPT !.size = stream.size]
             ended == [e EXCEPT !.size = n, !.ended = b]
  <1>1. n \in Int /\ b \in BOOLEAN
    OBVIOUS
  <1>2. /\ InflateWrite(e, stream, room) \subseteq {failed, ended}
        /\ Lz4Write(e, stream, room) \subseteq {failed, exact}
        /\ ZstdWrite(e, stream, room) \subseteq {failed, sized}
    BY DEF InflateWrite, Lz4Write, ZstdWrite
  <1> HIDE DEF n, b
  <1>3. failed \in Extractors /\ ended \in Extractors /\ exact \in Extractors /\ sized \in Extractors
    BY <1>1, SetRv, SetSize, SetEnded
  <1>4. CASE ~e.impl
    <2>1. ExtractorWrite(e, codec, stream, room) = {failed}
      BY <1>4 DEF ExtractorWrite
    <2> QED BY <1>3, <2>1
  <1>5. CASE e.impl
    <2>1. codec \in {"zlib", "lzma", "lz4", "zstd"}
      BY <1>5, CodecsAssumption
    <2>2. codec = "zlib" => ExtractorWrite(e, codec, stream, room) = InflateWrite(e, stream, room)
      BY <1>5 DEF ExtractorWrite
    <2>3. codec = "lzma" => ExtractorWrite(e, codec, stream, room) = InflateWrite(e, stream, room)
      BY <1>5 DEF ExtractorWrite, LzmaWrite
    <2>4. codec = "lz4" => ExtractorWrite(e, codec, stream, room) = Lz4Write(e, stream, room)
      BY <1>5 DEF ExtractorWrite
    <2>5. codec = "zstd" => ExtractorWrite(e, codec, stream, room) = ZstdWrite(e, stream, room)
      BY <1>5 DEF ExtractorWrite
    <2>6. f \in InflateWrite(e, stream, room) \cup Lz4Write(e, stream, room) \cup ZstdWrite(e, stream, room)
      BY <2>1, <2>2, <2>3, <2>4, <2>5
    <2> QED BY <1>2, <1>3, <2>6
  <1> QED BY <1>4, <1>5

LEMMA FinishSizes ==
    ASSUME NEW codec, NEW e \in Extractors
    PROVE  ImplFinish([e EXCEPT !.impl = FALSE], codec) \in Extractors
  <1> DEFINE g == [e EXCEPT !.impl = FALSE]
  <1>1. g \in Extractors
    BY SetImpl
  <1> HIDE DEF g
  <1> DEFINE n == g.open - 1
             status == IF g.ended THEN "ok" ELSE "error"
  <1>2. n \in Int /\ status \in {"ok", "error"}
    BY <1>1 DEF Extractors
  <1>3. InflateFinish(g) = [g EXCEPT !.open = n, !.rv = status] /\ StreamFinish(g) = [g EXCEPT !.open = n, !.rv = "ok"]
    BY DEF InflateFinish, StreamFinish
  <1> HIDE DEF n, status
  <1>4. InflateFinish(g) \in Extractors /\ StreamFinish(g) \in Extractors
    <2> DEFINE inflated == [g EXCEPT !.open = n, !.rv = status]
               streamed == [g EXCEPT !.open = n, !.rv = "ok"]
    <2>1. inflated \in Extractors /\ streamed \in Extractors
      BY <1>1, <1>2, SetOpen
    <2>2. InflateFinish(g) = inflated /\ StreamFinish(g) = streamed
      BY <1>3
    <2> HIDE DEF inflated, streamed
    <2> QED BY <2>1, <2>2
  <1>5. LzmaFinish(g) \in Extractors
    <2>1. (IF g.ended THEN InflateFinish(g).size ELSE 0) \in Int
      BY <1>4 DEF Extractors
    <2> QED BY <1>4, <2>1, SetSize DEF LzmaFinish
  <1>6. ImplFinish(g, codec) \in Extractors
    BY <1>4, <1>5 DEF ImplFinish
  <1> QED BY <1>6 DEF g

LEMMA ExtractedSizes ==
    ASSUME NEW codec \in Codecs, NEW stream, stream.size \in Int, stream.whole \in BOOLEAN, NEW room \in Int,
           NEW x \in Extracted(codec, stream, room)
    PROVE  x.size \in Int
  <1> DEFINE inits == ExtractorInit(codec)
             writes == UNION {IF e.rv = "ok" THEN ExtractorWrite(e, codec, stream, room) ELSE {e} : e \in inits}
             finishes == {IF e.rv = "ok" THEN ExtractorFinish(e, codec) ELSE e : e \in writes}
  <1>1. \A e \in inits : e \in Extractors /\ (codec = "none" => ~e.impl)
    BY InitSizes
  <1>2. writes \subseteq Extractors
    <2> HIDE DEF inits
    <2> QED BY <1>1, WriteSizes
  <1>3. ASSUME NEW e \in Extractors PROVE ExtractorFinish(e, codec) \in Extractors
    BY FinishSizes, SetRv DEF ExtractorFinish
  <1>4. finishes \subseteq Extractors
    <2> HIDE DEF writes
    <2> QED BY <1>2, <1>3
  <1>5. ASSUME NEW e \in Extractors PROVE ExtractorCleanup(e, codec) \in Extractors
    <2>1. e.rv \in {"ok", "error"}
      BY DEF Extractors
    <2> QED BY <2>1, FinishSizes, SetRv DEF ExtractorCleanup
  <1>6. x \in {ExtractorCleanup(e, codec) : e \in finishes}
    BY DEF Extracted
  <1>7. x \in Extractors
    <2> HIDE DEF finishes
    <2> QED BY <1>4, <1>5, <1>6
  <1> QED BY <1>7 DEF Extractors

\* map_fragment: the fragment, if it lies in what was read of its block, or an error.
LEMMA MapFragmentOK ==
    ASSUME image \in Images, HasFragment, NEW i, IteratorOK(i), i.sparse = 0, i.block = BlockCount,
           NEW o \in MapFragment(i)
    PROVE  \/ o.more = FALSE /\ o.err = TRUE
           \/ o.more = TRUE /\ o.err = FALSE /\ Shows(o.it, Place(i)) /\ o.it.block = Finished
  <1> DEFINE from == image.shared.offset
             j(d) == [i EXCEPT !.block = Finished, !.data = d]
  <1>1. \/ o \in Error(i)
        \/ \E s \in SharedRead : \E d \in ApplyFragment(s) : o \in Success(j(d))
    <2>1. \/ o \in Error(i)
          \/ o \in UNION {Success(j(d)) : d \in UNION {ApplyFragment(s) : s \in SharedRead}}
      BY DEF MapFragment
    <2> HIDE DEF j
    <2> QED BY <2>1
  <1>2. CASE o \in Error(i)
    BY <1>2 DEF Error
  <1>3. ASSUME NEW s \in SharedRead, NEW d \in ApplyFragment(s), o \in Success(j(d))
        PROVE  o.more = TRUE /\ o.err = FALSE /\ Shows(o.it, Place(i)) /\ o.it.block = Finished
    <2>1. o = [it |-> j(d), more |-> TRUE, err |-> FALSE]
      BY <1>3 DEF Success
    <2>2. /\ BlockCount \in Nat /\ image.fragment \in 1..BlockSize /\ from \in Nat /\ image.shared.size \in Nat
          /\ BlockSize \in Nat
      BY ImageOK, Places, BlockSizeAssumption
    <2>3. PICK n \in Int : s = SharedBlock(n)
      <3>1. CASE image.shared.kind = "raw"
        BY <2>2, <3>1 DEF SharedRead
      <3>2. CASE image.shared.kind # "raw"
        <4> DEFINE stream == StreamOf(image.shared.kind, image.shared.size)
        <4>1. PICK e \in Extracted(image.codec, stream, BlockSize) : s = SharedBlock(e.size)
          BY <3>2 DEF SharedRead
        <4>2. stream.size \in Int /\ stream.whole \in BOOLEAN /\ image.codec \in Codecs
          BY <2>2, ImagesAssumption DEF StreamOf
        <4> HIDE DEF stream
        <4>3. e.size \in Int
          BY <2>2, <4>2, ExtractedSizes
        <4> QED BY <4>1, <4>3
      <3> QED BY <3>1, <3>2
    <2>4. /\ n \in Nat => Len(s) = n
          /\ ~(n \in Nat) => Len(s) = 0
          /\ s \in Seq(Int)
      <3>1. DOMAIN s = 1..n /\ s = [k \in 1..n |-> s[k]]
        BY <2>3 DEF SharedBlock
      <3>2. \A k \in 1..n : s[k] \in Int
        BY <2>2, <2>3 DEF SharedBlock, Foreign
      <3>3. CASE n \in Nat
        BY <3>1, <3>2, <3>3
      <3>4. CASE ~(n \in Nat)
        <4>1. 1..n = {}
          BY <3>4
        <4>2. s = <<>>
          BY <3>1, <4>1
        <4> QED BY <3>4, <4>2
      <3> QED BY <3>3, <3>4
    <2>5. ~(from + image.fragment > Len(s)) /\ d = SubSeq(s, from + 1, from + image.fragment)
      BY DEF ApplyFragment
    <2>6. n \in Nat /\ Len(s) = n /\ from + image.fragment <= n
      BY <2>2, <2>4, <2>5
    <2>7. ASSUME NEW k \in 1..image.fragment PROVE s[from + k] = Content[StartOf(BlockCount) + k]
      <3>1. from + k \in 1..n /\ (from + k) - from = k
        BY <2>2, <2>6
      <3>2. s[from + k] = BlockCount * BlockSize + (from + k) - from - 1
        BY <2>3, <3>1 DEF SharedBlock
      <3>3. BlockCount * BlockSize \in Nat
        BY <2>2, Multiples
      <3>4. BlockCount * BlockSize + (from + k) - from - 1 = BlockCount * BlockSize + k - 1
        BY <2>2, <3>3
      <3> QED BY <3>2, <3>4, FragmentContent
    <2>8. d \in Seq(Int) /\ Len(d) = image.fragment /\ \A k \in 1..image.fragment : d[k] = s[from + k]
      <3> DEFINE m == from + 1
                 h == from + image.fragment
      <3>1. /\ m \in Int /\ h \in Int /\ m <= h /\ h - m + 1 = image.fragment
            /\ \A k \in 1..image.fragment : m + k - 1 = from + k
            /\ \A k \in m..h : k \in 1..Len(s)
        BY <2>2, <2>6
      <3>2. \A k \in m..h : s[k] \in Int
        BY <2>4, <3>1
      <3>3. d = SubSeq(s, m, h)
        BY <2>5
      <3> HIDE DEF m, h
      <3>4. /\ SubSeq(s, m, h) \in Seq(Int) /\ Len(SubSeq(s, m, h)) = IF m <= h THEN h - m + 1 ELSE 0
            /\ \A k \in 1..(h - m + 1) : SubSeq(s, m, h)[k] = s[m + k - 1]
        BY <3>1, <3>2, SubSeqProperties
      <3> QED BY <3>1, <3>3, <3>4
    <2>9. i \in Iterator /\ BlockCount # Finished /\ Place(i) = StartOf(BlockCount)
      <3>1. StartOf(BlockCount) \in Nat
        <4>1. BlockCount \in 0..BlockCount
          BY <2>2
        <4> QED BY <4>1, Places
      <3> QED BY <2>2, <3>1 DEF IteratorOK, Place, Finished
    <2>10. /\ j(d) \in Iterator /\ j(d).block = Finished /\ j(d).sparse = 0 /\ j(d).data = d
      BY <2>8, <2>9 DEF Iterator
    <2> DEFINE h == j(d)
    <2>11. h \in Iterator /\ h.block = Finished /\ h.sparse = 0 /\ h.data = d /\ o.it = h
      BY <2>1, <2>10
    <2> HIDE DEF h
    <2>12. Place(h) = FileSize /\ FileSize = StartOf(BlockCount) + image.fragment /\ StartOf(BlockCount) \in Nat
      <3>1. BlockCount \in 0..BlockCount
        BY <2>2
      <3> QED BY <2>11, <3>1, Places DEF Place
    <2>13. \A k \in 1..Len(h.data) : h.data[k] = Content[Place(h) - Len(h.data) + k]
      <3>1. \A k \in 1..image.fragment : Place(h) - image.fragment + k = StartOf(BlockCount) + k
        BY <2>2, <2>12
      <3> QED BY <2>7, <2>8, <2>11, <3>1
    <2>14. Len(h.data) <= Place(h) /\ ~(h.sparse > 0)
      BY <2>2, <2>8, <2>11, <2>12
    <2>15. IteratorOK(h)
      BY <2>11, <2>13, <2>14 DEF IteratorOK
    <2>16. Shows(h, Place(i))
      BY <2>8, <2>9, <2>11, <2>12, <2>15 DEF Shows
    <2> QED BY <2>1, <2>11, <2>16
  <1> QED BY <1>1, <1>2, <1>3

\* sqsh_file_iterator_next: the bytes that come next in the file, an error, or the end.
LEMMA IteratorNextOK ==
    ASSUME image \in Images, StoredWhole, NEW i, IteratorOK(i), NEW desired \in Nat, NEW o \in IteratorNext(i, desired)
    PROVE  \/ o.more = FALSE /\ o.err = TRUE
           \/ o.more = FALSE /\ o.err = FALSE /\ Place(i) = FileSize
           \/ /\ o.more = TRUE /\ o.err = FALSE /\ Shows(o.it, Place(i))
              /\ desired = 1 /\ i.sparse = 0 => o.it.block = Finished \/ o.it.block = i.block + 1
  <1> DEFINE n == IF desired = 0 THEN 1 ELSE desired
  <1>0. n \in Nat \ {0} /\ (desired = 1 => n = 1)
    OBVIOUS
  <1>1. /\ i \in Iterator /\ i.sparse \in Nat /\ BlockCount \in Nat
        /\ i.block # Finished => i.block \in 0..BlockCount
    BY ImageOK, PlaceOK DEF IteratorOK, Iterator
  <1> HIDE DEF n
  <1>2. CASE i.sparse > 0
    <2>1. o \in Success(ZeroBlock(i))
      <3>1. ~(i.sparse = 0)
        BY <1>1, <1>2
      <3> QED BY <1>2, <3>1 DEF IteratorNext
    <2>2. o = [it |-> ZeroBlock(i), more |-> TRUE, err |-> FALSE]
      BY <2>1 DEF Success
    <2>3. /\ i.block # Finished /\ i.block \in 1..BlockCount /\ i.sparse \in 1..Length(i.block - 1)
          /\ i.address + i.width = AddressOf(i.block) /\ Place(i) = StartOf(i.block) - i.sparse
          /\ \A k \in 1..i.sparse : Content[Place(i) + k] = Zero
      <3>1. i.block # Finished /\ i.block \in 1..BlockCount
        BY <1>1, <1>2 DEF IteratorOK
      <3>2. i.block - 1 \in 0..(BlockCount - 1)
        BY <1>1, <3>1
      <3>3. Length(i.block - 1) \in Nat
        BY <3>2, Places, BlockSizeAssumption
      <3> QED BY <1>1, <1>2, <3>1, <3>3 DEF IteratorOK, Place
    <2>4. Shows(ZeroBlock(i), Place(i))
      BY <1>1, <2>3, ZeroBlockOK
    <2> QED BY <1>1, <1>2, <2>2, <2>4
  <1>3. CASE i.sparse = 0 /\ 0 <= i.block /\ i.block < BlockCount
    <2>1. o \in MapBlock(i, n)
      <3>1. ~(i.sparse > 0) /\ ~(i.block = BlockCount)
        BY <1>1, <1>3
      <3>2. IteratorNext(i, desired) = MapBlock(i, IF desired = 0 THEN 1 ELSE desired)
        BY <1>3, <3>1 DEF IteratorNext
      <3> QED BY <3>2 DEF n
    <2>2. i.block \in 0..(BlockCount - 1)
      BY <1>1, <1>3 DEF Finished
    <2>3. \/ o.more = FALSE /\ o.err = TRUE
          \/ /\ o.more = TRUE /\ o.err = FALSE /\ Shows(o.it, Place(i)) /\ o.it.block # Finished
             /\ n = 1 => o.it.block = i.block + 1
      BY <1>0, <1>3, <2>1, <2>2, MapBlockOK
    <2> QED BY <1>0, <2>3
  <1>4. CASE i.sparse = 0 /\ i.block = BlockCount /\ HasFragment
    <2>1. o \in MapFragment(i)
      <3>1. ~(i.block < BlockCount)
        BY <1>1, <1>4
      <3> QED BY <1>4, <3>1 DEF IteratorNext
    <2> QED BY <1>4, <2>1, MapFragmentOK
  <1>5. CASE /\ i.sparse = 0 /\ ~(0 <= i.block /\ i.block < BlockCount)
             /\ ~(i.block = BlockCount /\ HasFragment)
    <2> DEFINE d == [i EXCEPT !.data = <<>>]
    <2>1. o = [it |-> d, more |-> FALSE, err |-> FALSE]
      <3> HIDE DEF d
      <3> QED BY <1>5 DEF IteratorNext, d
    <2>2. Place(i) = FileSize
      <3>1. i.block = Finished \/ (i.block = BlockCount /\ ~HasFragment)
        BY <1>1, <1>5
      <3>2. FileSize \in Nat
        BY Places
      <3> QED BY <1>5, <3>1, <3>2 DEF Place, StartOf
    <2> QED BY <2>1, <2>2
  <1>6. \/ i.sparse > 0
        \/ i.sparse = 0 /\ 0 <= i.block /\ i.block < BlockCount
        \/ i.sparse = 0 /\ i.block = BlockCount /\ HasFragment
        \/ /\ i.sparse = 0 /\ ~(0 <= i.block /\ i.block < BlockCount)
           /\ ~(i.block = BlockCount /\ HasFragment)
    BY <1>1
  <1> QED BY <1>2, <1>3, <1>4, <1>5, <1>6, Zenon


-----------------------------------------------------------------------------
(* The file stays the same *)

LEMMA SameAddress ==
    ASSUME image' = image
    PROVE  \A b : AddressOf(b)' = AddressOf(b)
  <1> SUFFICES ASSUME NEW b PROVE AddressOf(b)' = AddressOf(b)
    OBVIOUS
  <1> DEFINE Sum(im) == LET at(c) == IF c < Len(im.blocks) THEN im.blocks[c + 1].stored ELSE 0
                            sum[n \in 0..b] == IF n = 0 THEN 0 ELSE sum[n - 1] + at(n - 1) IN sum[b]
  <1>1. AddressOf(b) = Sum(image)
    BY DEF AddressOf, Stored, BlockCount
  <1>2. AddressOf(b)' = Sum(image')
    BY DEF AddressOf, Stored, BlockCount
  <1> HIDE DEF Sum
  <1> QED BY <1>1, <1>2

LEMMA SameFile ==
    ASSUME image' = image
    PROVE  /\ BlockCount' = BlockCount /\ (HasFragment' <=> HasFragment) /\ FileSize' = FileSize
           /\ \A b : Length(b)' = Length(b) /\ Stored(b)' = Stored(b) /\ StartOf(b)' = StartOf(b)
           /\ \A b : AddressOf(b)' = AddressOf(b) /\ BlockBytes(b)' = BlockBytes(b)
           /\ Content' = Content
  <1>1. BlockCount' = BlockCount /\ (HasFragment' <=> HasFragment)
    BY DEF BlockCount, HasFragment
  <1>2. FileSize' = FileSize
    BY <1>1 DEF FileSize
  <1>3. ASSUME NEW b PROVE Length(b)' = Length(b) /\ Stored(b)' = Stored(b) /\ StartOf(b)' = StartOf(b)
    BY <1>1, <1>2 DEF Length, Stored, StartOf
  <1>4. ASSUME NEW b PROVE BlockBytes(b)' = BlockBytes(b)
    <2> DEFINE Bytes(im, l) ==
                 LET n == CASE im.blocks[b + 1].kind = "raw" -> im.blocks[b + 1].stored
                            [] im.blocks[b + 1].kind \in Packed -> l [] OTHER -> 0
                 IN  [k \in 1..l |-> IF k <= n THEN b * BlockSize + k - 1 ELSE Zero]
    <2>1. BlockBytes(b) = Bytes(image, Length(b))
      BY DEF BlockBytes
    <2>2. BlockBytes(b)' = Bytes(image', Length(b)')
      BY DEF BlockBytes
    <2> HIDE DEF Bytes
    <2> QED BY <1>3, <2>1, <2>2
  <1>5. Content' = Content
    <2> SUFFICES \A k \in 1..FileSize : Content'[k] = Content[k]
      BY <1>2 DEF Content
    <2> TAKE k \in 1..FileSize
    <2> DEFINE b == (k - 1) \div BlockSize
    <2>1. Content[k] = IF b < BlockCount THEN BlockBytes(b)[k - b * BlockSize] ELSE k - 1
      BY DEF Content
    <2>2. Content'[k] = IF b < BlockCount' THEN BlockBytes(b)'[k - b * BlockSize] ELSE k - 1
      BY <1>2 DEF Content
    <2> HIDE DEF b
    <2> QED BY <1>1, <1>4, <2>1, <2>2
  <1> QED BY <1>1, <1>2, <1>3, <1>4, <1>5, SameAddress

LEMMA SameIterator ==
    ASSUME image' = image, NEW i
    PROVE  Place(i)' = Place(i) /\ (IteratorOK(i)' <=> IteratorOK(i))
  <1>1. Place(i)' = Place(i)
    BY SameFile DEF Place
  <1> QED BY <1>1, SameFile DEF IteratorOK

LEMMA SameBlocks ==
    ASSUME image' = image
    PROVE  StoredWhole' <=> StoredWhole
  BY SameFile DEF StoredWhole


-----------------------------------------------------------------------------
(* The inductive invariant *)

\* A reader is asked once: the program that reads chunk after chunk takes a file in one.
OneCall == client.name = "chunks" => client.size >= FileSize

\* What a reader is asked for.
From == IF client.name = "pread" THEN client.offset ELSE 0
Size == IF client.name = "pread" THEN Clamped(client.offset, client.size) ELSE FileSize

\* A sequence that is the bytes of the file from a place on.
Shown(s, p) == s \in Seq(Int) /\ p + Len(s) <= FileSize /\ \A k \in 1..Len(s) : s[k] = Content[p + k]

Readers == [stage : {"skip", "skipping", "fill", "next"}, data : Seq(Int), offset : Nat, iterator_offset : Nat,
            buffer : Seq(Int), skip : Nat, size : Nat, remaining : Nat, start : Nat]

\* A reader that fills its buffer: the place its next byte comes from.
Fills(r, i) ==
    /\ r \in Readers /\ r.size = Size /\ IteratorOK(i) /\ Shown(r.buffer, From)
    /\ Len(r.buffer) + r.remaining = Size /\ r.remaining > 0
    /\ r.stage \in {"fill", "next"}
    /\ r.stage = "fill" => /\ r.offset <= Len(i.data)
                           /\ Place(i) - Len(i.data) + r.offset = From + Len(r.buffer)
    /\ r.stage = "next" => r.offset = 0 /\ Place(i) = From + Len(r.buffer)

LEMMA ShownMore ==
    ASSUME NEW p \in Nat, NEW s, Shown(s, p), NEW t, Shown(t, p + Len(s))
    PROVE  Shown(s \o t, p) /\ Len(s \o t) = Len(s) + Len(t)
  <1>1. /\ s \in Seq(Int) /\ t \in Seq(Int) /\ Len(s) \in Nat /\ Len(t) \in Nat
        /\ (p + Len(s)) + Len(t) <= FileSize
        /\ \A k \in 1..Len(s) : s[k] = Content[p + k]
        /\ \A k \in 1..Len(t) : t[k] = Content[(p + Len(s)) + k]
    BY DEF Shown
  <1> DEFINE u == s \o t
  <1>2. /\ u \in Seq(Int) /\ Len(u) = Len(s) + Len(t)
        /\ \A k \in 1..Len(s) + Len(t) : u[k] = IF k <= Len(s) THEN s[k] ELSE t[k - Len(s)]
    BY <1>1, ConcatProperties
  <1> HIDE DEF u
  <1>3. ASSUME NEW k \in 1..Len(u) PROVE u[k] = Content[p + k]
    <2>1. CASE k <= Len(s)
      <3>1. k \in 1..Len(s) /\ k \in 1..Len(s) + Len(t)
        BY <1>1, <1>2, <2>1
      <3>2. u[k] = s[k]
        BY <1>2, <2>1, <3>1
      <3> QED BY <1>1, <3>1, <3>2
    <2>2. CASE ~(k <= Len(s))
      <3>1. k - Len(s) \in 1..Len(t) /\ (p + Len(s)) + (k - Len(s)) = p + k
        BY <1>1, <1>2, <2>2
      <3> QED BY <1>1, <1>2, <2>2, <3>1
    <2> QED BY <2>1, <2>2
  <1>4. p + Len(u) <= FileSize
    BY <1>1, <1>2
  <1> QED BY <1>2, <1>3, <1>4 DEF Shown, u

LEMMA ShownSlice ==
    ASSUME NEW p \in Nat, NEW s, Shown(s, p), FileSize \in Nat,
           NEW l \in Nat \ {0}, NEW h \in Nat, l <= h + 1, h <= Len(s), NEW q, q = p + l - 1
    PROVE  Shown(SubSeq(s, l, h), q) /\ Len(SubSeq(s, l, h)) = h - l + 1
  <1>1. /\ s \in Seq(Int) /\ Len(s) \in Nat /\ p + Len(s) <= FileSize
        /\ \A k \in 1..Len(s) : s[k] = Content[p + k]
    BY DEF Shown
  <1> DEFINE u == SubSeq(s, l, h)
  <1>2. \A k \in l..h : s[k] \in Int
    <2>1. \A k \in l..h : k \in 1..Len(s)
      BY <1>1
    <2> QED BY <1>1, <2>1
  <1>3. /\ u \in Seq(Int) /\ Len(u) = IF l <= h THEN h - l + 1 ELSE 0
        /\ \A k \in 1..(h - l + 1) : u[k] = s[l + k - 1]
    BY <1>2, SubSeqProperties
  <1> HIDE DEF u
  <1>4. Len(u) = h - l + 1
    BY <1>3
  <1>5. ASSUME NEW k \in 1..(h - l + 1) PROVE u[k] = Content[q + k]
    <2>1. l + k - 1 \in 1..Len(s) /\ p + (l + k - 1) = q + k
      BY <1>1
    <2> QED BY <1>1, <1>3, <2>1
  <1>6. q + (h - l + 1) <= FileSize
    BY <1>1
  <1>7. Shown(u, q)
    BY <1>3, <1>4, <1>5, <1>6 DEF Shown
  <1> QED BY <1>4, <1>7 DEF u

LEMMA IteratorShown ==
    ASSUME image \in Images, NEW i, IteratorOK(i)
    PROVE  /\ Shown(i.data, Place(i) - Len(i.data)) /\ Place(i) - Len(i.data) \in Nat
           /\ Len(i.data) \in Nat /\ Place(i) \in 0..FileSize /\ FileSize \in Nat
  <1>1. Place(i) \in 0..FileSize /\ FileSize \in Nat /\ Len(i.data) \in 0..FileSize
    BY PlaceOK
  <1>2. i.data \in Seq(Int) /\ Len(i.data) <= Place(i)
    BY DEF IteratorOK, Iterator
  <1>3. \A k \in 1..Len(i.data) : i.data[k] = Content[(Place(i) - Len(i.data)) + k]
    BY DEF IteratorOK
  <1>4. Place(i) - Len(i.data) \in Nat /\ (Place(i) - Len(i.data)) + Len(i.data) <= FileSize
    BY <1>1, <1>2
  <1> QED BY <1>1, <1>2, <1>3, <1>4 DEF Shown


\* What a reader is asked for lies in the file.
LEMMA PieceInFile ==
    ASSUME image \in Images, client.offset \in Nat, client.size \in Nat
    PROVE  /\ From \in Nat /\ Size \in Nat /\ FileSize \in Nat
           /\ Size > 0 => From + Size <= FileSize /\ Size < SizeMax
  <1>1. FileSize \in Nat /\ FileSize < SizeMax /\ SizeMax \in Nat
    BY Places, SizeMaxAssumption
  <1>2. Clamped(client.offset, client.size) \in Nat
    BY <1>1 DEF Clamped
  <1>3. Clamped(client.offset, client.size) > 0 => client.offset + Clamped(client.offset, client.size) <= FileSize
    BY <1>1 DEF Clamped
  <1> QED BY <1>1, <1>2, <1>3 DEF From, Size

\* The window lies in the block, or the reader begins to fill its buffer.
LEMMA MappedOK ==
    ASSUME image \in Images, client.offset \in Nat, client.size \in Nat,
           NEW i, IteratorOK(i), NEW r \in Readers, r.size = Size, Size > 0,
           NEW n \in Nat, n <= Len(i.data), Place(i) - Len(i.data) + n = From
    PROVE  LET m == Mapped(r, n, i.data)
           IN  \/ m.stage = "idle" /\ Shown(m.data, From) /\ Len(m.data) = Size
               \/ m.stage = "fill" /\ Fills(m, i)
  <1> DEFINE m == Mapped(r, n, i.data)
             d == SubSeq(i.data, n + 1, n + r.size)
  <1>1. From \in Nat /\ Size \in Nat /\ FileSize \in Nat /\ From + Size <= FileSize /\ Size < SizeMax /\ SizeMax \in Nat
    BY PieceInFile, SizeMaxAssumption
  <1>2. /\ Shown(i.data, Place(i) - Len(i.data)) /\ Place(i) - Len(i.data) \in Nat
        /\ Len(i.data) \in Nat /\ Place(i) \in Nat
    BY IteratorShown
  <1>3. CASE n + r.size <= Len(i.data)
    <2> DEFINE l == n + 1
               h == n + r.size
               p == Place(i) - Len(i.data)
    <2>1. /\ p \in Nat /\ l \in Nat \ {0} /\ h \in Nat /\ l <= h + 1 /\ h <= Len(i.data) /\ From = p + l - 1
          /\ h - l + 1 = Size /\ Shown(i.data, p)
      BY <1>1, <1>2, <1>3
    <2> HIDE DEF l, h, p
    <2>2. Shown(SubSeq(i.data, l, h), From) /\ Len(SubSeq(i.data, l, h)) = Size
      BY <1>1, <2>1, ShownSlice
    <2>2a. Shown(d, From) /\ Len(d) = Size
      BY <2>2 DEF l, h
    <2>3. m = [r EXCEPT !.stage = "idle", !.offset = n, !.data = d]
      BY <1>3 DEF Mapped
    <2> HIDE DEF d, m
    <2>4. m.stage = "idle" /\ m.data = d
      BY <2>3 DEF Readers
    <2> QED BY <2>2a, <2>4 DEF m
  <1>4. CASE ~(n + r.size <= Len(i.data))
    <2> DEFINE f == [r EXCEPT !.offset = n, !.buffer = <<>>]
    <2>1. m = Filling(f)
      BY <1>4 DEF Mapped
    <2>2. /\ f \in Readers /\ f.offset = n /\ f.buffer = <<>> /\ f.size = Size /\ f.stage = r.stage
      <3>1. <<>> \in Seq(Int)
        OBVIOUS
      <3> QED BY <3>1 DEF Readers
    <2> HIDE DEF f, m
    <2> DEFINE c == (f.size - Len(f.buffer)) % SizeMax
    <2>3. c = Size
      BY <1>1, <2>2
    <2>4. m = [f EXCEPT !.stage = "fill", !.remaining = c, !.start = f.iterator_offset]
      BY <2>1 DEF Filling
    <2> HIDE DEF c
    <2>5. /\ m \in Readers /\ m.stage = "fill" /\ m.offset = n /\ m.buffer = <<>> /\ m.size = Size
          /\ m.remaining = Size
      BY <1>1, <2>2, <2>3, <2>4 DEF Readers
    <2>6. <<>> \in Seq(Int) /\ Len(<<>>) = 0
      OBVIOUS
    <2>7. Shown(m.buffer, From) /\ Len(m.buffer) = 0
      BY <1>1, <2>5, <2>6 DEF Shown
    <2>8. Fills(m, i)
      BY <1>1, <1>2, <2>5, <2>7 DEF Fills
    <2> QED BY <2>5, <2>8 DEF m
  <1> QED BY <1>3, <1>4

\* A turn of the loop: what is missing is copied, or all that the block has.
LEMMA FilledOK ==
    ASSUME image \in Images, client.offset \in Nat, client.size \in Nat,
           NEW i, NEW r, Fills(r, i), r.stage = "fill", Size > 0
    PROVE  LET m == Filled(r, i.data)
           IN  \/ m.stage = "idle" /\ Shown(m.data, From) /\ Len(m.data) = Size
               \/ m.stage = "next" /\ Fills(m, i)
  <1> DEFINE m == Filled(r, i.data)
             l == Len(i.data) - r.offset
             rest == SubSeq(i.data, r.offset + 1, Len(i.data))
             n == IF Len(rest) < r.remaining THEN Len(rest) ELSE r.remaining
             piece == SubSeq(rest, 1, n)
             buffer == r.buffer \o piece
  <1>1. From \in Nat /\ Size \in Nat /\ FileSize \in Nat /\ From + Size <= FileSize
    BY PieceInFile
  <1>2. /\ r \in Readers /\ r.size = Size /\ IteratorOK(i) /\ Shown(r.buffer, From)
        /\ Len(r.buffer) + r.remaining = Size /\ r.remaining > 0 /\ r.offset <= Len(i.data)
        /\ Place(i) - Len(i.data) + r.offset = From + Len(r.buffer)
        /\ r.offset \in Nat /\ r.remaining \in Nat /\ Len(r.buffer) \in Nat /\ r.buffer \in Seq(Int)
    BY DEF Fills, Readers
  <1>3. /\ Shown(i.data, Place(i) - Len(i.data)) /\ Place(i) - Len(i.data) \in Nat
        /\ Len(i.data) \in Nat /\ Place(i) \in Nat
    BY <1>2, IteratorShown
  <1>4. l \in Nat /\ r.offset + l = Len(i.data)
    BY <1>2, <1>3
  <1>5. Shown(rest, From + Len(r.buffer)) /\ Len(rest) = l
    <2> DEFINE f == r.offset + 1
               h == Len(i.data)
               p == Place(i) - Len(i.data)
               q == From + Len(r.buffer)
    <2>1. /\ p \in Nat /\ f \in Nat \ {0} /\ h \in Nat /\ f <= h + 1 /\ h <= Len(i.data) /\ q = p + f - 1
          /\ h - f + 1 = l /\ Shown(i.data, p)
      <3>1. p \in Nat /\ Shown(i.data, p)
        BY <1>3
      <3>2. f \in Nat \ {0} /\ h \in Nat /\ f <= h + 1 /\ h <= Len(i.data)
        BY <1>2, <1>3
      <3>3. h - f + 1 = l
        BY <1>2, <1>3
      <3>4. q = p + f - 1
        BY <1>1, <1>2, <1>3
      <3> QED BY <3>1, <3>2, <3>3, <3>4
    <2> HIDE DEF f, h, p, q, l
    <2>2. Shown(SubSeq(i.data, f, h), q) /\ Len(SubSeq(i.data, f, h)) = l
      BY <1>1, <2>1, ShownSlice
    <2> QED BY <2>2 DEF f, h, q
  <1> HIDE DEF rest
  <1>6. n \in Nat /\ 0 + n <= Len(rest) /\ n <= r.remaining /\ n <= l
    BY <1>2, <1>4, <1>5
  <1> HIDE DEF l
  <1>7. Shown(piece, From + Len(r.buffer)) /\ Len(piece) = n
    <2> HIDE DEF n
    <2> DEFINE p == From + Len(r.buffer)
    <2>1. /\ p \in Nat /\ 1 \in Nat \ {0} /\ n \in Nat /\ 1 <= n + 1 /\ n <= Len(rest) /\ p = p + 1 - 1
          /\ n - 1 + 1 = n /\ Shown(rest, p)
      BY <1>1, <1>2, <1>5, <1>6
    <2> HIDE DEF p
    <2>2. Shown(SubSeq(rest, 1, n), p) /\ Len(SubSeq(rest, 1, n)) = n
      BY <1>1, <2>1, ShownSlice
    <2> QED BY <2>2 DEF p
  <1> HIDE DEF piece
  <1>8. Shown(buffer, From) /\ Len(buffer) = Len(r.buffer) + n
    <2> HIDE DEF n
    <2>1. /\ Shown(r.buffer, From) /\ From \in Nat /\ Shown(piece, From + Len(r.buffer))
      BY <1>1, <1>2, <1>7
    <2>2. Shown(r.buffer \o piece, From) /\ Len(r.buffer \o piece) = Len(r.buffer) + Len(piece)
      BY <2>1, ShownMore
    <2> QED BY <1>7, <2>2
  <1>9. m = IF n = r.remaining
            THEN [r EXCEPT !.stage = "idle", !.offset = 0, !.buffer = buffer, !.data = buffer,
                           !.iterator_offset = r.start]
            ELSE [r EXCEPT !.stage = "next", !.offset = 0, !.buffer = buffer,
                           !.remaining = r.remaining - n, !.start = r.size - r.remaining + n]
    BY DEF Filled, rest, piece
  <1>10. buffer \in Seq(Int)
    BY <1>8 DEF Shown
  <1> HIDE DEF buffer, m
  <1>11. CASE n = r.remaining
    <2> HIDE DEF n
    <2>1. m.stage = "idle" /\ m.data = buffer
      BY <1>2, <1>9, <1>11 DEF Readers
    <2>2. Len(buffer) = Size
      BY <1>2, <1>8, <1>11
    <2> QED BY <1>8, <2>1, <2>2 DEF m
  <1>12. CASE n # r.remaining
    <2>1. r.remaining - n \in Nat /\ r.size - r.remaining + n \in Nat /\ r.remaining - n > 0 /\ n = Len(rest)
      BY <1>1, <1>2, <1>6, <1>12
    <2> HIDE DEF n
    <2>2. m = [r EXCEPT !.stage = "next", !.offset = 0, !.buffer = buffer,
                        !.remaining = r.remaining - n, !.start = r.size - r.remaining + n]
      BY <1>9, <1>12
    <2>3. /\ m \in Readers /\ m.stage = "next" /\ m.offset = 0 /\ m.buffer = buffer /\ m.size = Size
          /\ m.remaining = r.remaining - n
      BY <1>2, <1>10, <2>1, <2>2 DEF Readers
    <2>4. Place(i) = From + Len(buffer)
      <3>1. Len(rest) = l /\ Len(buffer) = Len(r.buffer) + Len(rest)
        BY <1>5, <1>8, <2>1
      <3>2. Place(i) - Len(i.data) + r.offset = From + Len(r.buffer) /\ r.offset + l = Len(i.data)
        BY <1>2, <1>4
      <3>3. /\ Place(i) \in Nat /\ Len(i.data) \in Nat /\ r.offset \in Nat /\ Len(r.buffer) \in Nat
            /\ From \in Nat /\ l \in Nat
        BY <1>1, <1>2, <1>3, <1>4
      <3> DEFINE a == Place(i)
                 b == Len(i.data)
                 c == r.offset
                 d == From
                 e == Len(r.buffer)
      <3>4. a \in Nat /\ b \in Nat /\ c \in Nat /\ d \in Nat /\ e \in Nat /\ l \in Nat
        BY <3>3
      <3>5. a - b + c = d + e /\ c + l = b
        BY <3>2
      <3> HIDE DEF a, b, c, d, e
      <3>6. a = d + (e + l)
        BY <3>4, <3>5
      <3> QED BY <3>1, <3>6 DEF a, d, e
    <2>5. Len(buffer) + m.remaining = Size
      BY <1>1, <1>2, <1>6, <1>8, <2>3
    <2>6. Fills(m, i)
      BY <1>2, <1>8, <2>1, <2>3, <2>4, <2>5 DEF Fills
    <2> QED BY <2>3, <2>6 DEF m
  <1> QED BY <1>11, <1>12


\* A reader at the place it skips to.
Skips(r, i) == r \in Readers /\ r.stage = "skip" /\ r.size = Size /\ r.skip = From /\ i = FreshIterator(0, 0)
Skipping(r, i) == /\ r \in Readers /\ r.stage = "skipping" /\ r.size = Size /\ IteratorOK(i)
                  /\ Place(i) - Len(i.data) + r.skip = From

FrameInv ==
    /\ image \in Images
    /\ client \in [name : {"stream", "tasks", "pread", "chunks"}, offset : Nat, size : Nat]
    /\ client.name \in {"stream", "tasks"} => reader.stage = "idle"
    /\ task \in Nat /\ rv \in {"none", "ok", "error"}

\* The loop has received what lies in front of its iterator.
StreamInv ==
    /\ Shown(got, 0)
    /\ rv = "none" => IteratorOK(it) /\ Place(it) = Len(got)
    /\ rv = "ok" => Len(got) = FileSize

\* A byte that a task has not written yet is zero.
TasksInv ==
    /\ got \in [1..FileSize -> Int] /\ \A k \in 1..FileSize : got[k] \in {Zero, Content[k]}
    /\ rv # "error" => \A k \in 1..FileSize : k <= task * BlockSize => got[k] = Content[k]
    /\ rv = "ok" => task * BlockSize >= FileSize

\* A reader that is asked once: before, on its way, when it has answered, and when it has failed.
Unasked == /\ reader = FreshReader /\ it = FreshIterator(0, 0) /\ got = <<>> /\ rv \in {"none", "ok"}
           /\ rv = "ok" => Size = 0
Asked == rv = "none" /\ got = <<>> /\ Size > 0
Answered == /\ reader.stage = "idle" /\ Shown(got, From) /\ Len(got) = Size /\ Size > 0
            /\ rv \in {"none", "ok"} /\ (client.name = "pread" => rv = "ok")
Failed == reader.stage = "failed" /\ got = <<>> /\ rv = "error"
ReaderInv == \/ Unasked \/ Answered \/ Failed
             \/ Asked /\ (Skips(reader, it) \/ Skipping(reader, it) \/ Fills(reader, it))

ContentInv ==
    /\ FrameInv
    /\ StoredWhole /\ OneCall =>
          /\ client.name = "stream" => StreamInv
          /\ client.name = "tasks" => TasksInv
          /\ client.name \in {"pread", "chunks"} => ReaderInv

LEMMA SameAnswers ==
    ASSUME image' = image, client' = client
    PROVE  /\ From' = From /\ Size' = Size /\ (OneCall' <=> OneCall)
           /\ \A s, p : Shown(s, p)' <=> Shown(s, p)
           /\ \A r, i : Fills(r, i)' <=> Fills(r, i)
           /\ \A r, i : Skips(r, i)' <=> Skips(r, i)
           /\ \A r, i : Skipping(r, i)' <=> Skipping(r, i)
  <1>1. From' = From /\ Size' = Size /\ (OneCall' <=> OneCall)
    BY SameFile DEF From, Size, OneCall, Clamped
  <1>2. ASSUME NEW s, NEW p PROVE Shown(s, p)' <=> Shown(s, p)
    BY SameFile DEF Shown
  <1>3. ASSUME NEW r, NEW i PROVE Fills(r, i)' <=> Fills(r, i)
    BY <1>1, <1>2, SameIterator DEF Fills
  <1>4. ASSUME NEW r, NEW i PROVE Skips(r, i)' <=> Skips(r, i)
    BY <1>1 DEF Skips
  <1>5. ASSUME NEW r, NEW i PROVE Skipping(r, i)' <=> Skipping(r, i)
    BY <1>1, SameIterator DEF Skipping
  <1> QED BY <1>1, <1>2, <1>3, <1>4, <1>5

LEMMA FrameStep ==
    ASSUME FrameInv, ReadingNext
    PROVE  FrameInv' /\ image' = image /\ client' = client
  <1>1. image' = image /\ client' = client
    BY DEF ReadingNext, StreamNext, RunTask, TasksDone, ReadPiece, ReadChunk, SkipBlocks, SkipNothing,
           SkipNext, SkipEnd, Fill, FillNext
  <1>2. task' \in Nat
    BY DEF ReadingNext, StreamNext, RunTask, TasksDone, ReadPiece, ReadChunk, SkipBlocks, SkipNothing,
           SkipNext, SkipEnd, Fill, FillNext, FrameInv
  <1>3. ASSUME NEW r, Settled(r) PROVE rv' \in {"none", "ok", "error"}
    BY <1>3 DEF Settled
  <1>4. rv' \in {"none", "ok", "error"}
    BY <1>3 DEF ReadingNext, StreamNext, RunTask, TasksDone, ReadPiece, ReadChunk, SkipBlocks, SkipNothing,
           SkipNext, SkipEnd, Fill, FillNext, FrameInv
  <1>5. client.name \in {"stream", "tasks"} => reader'.stage = "idle"
    BY DEF ReadingNext, StreamNext, RunTask, TasksDone, ReadPiece, ReadChunk, SkipBlocks, SkipNothing,
           SkipNext, SkipEnd, Fill, FillNext, FrameInv
  <1> QED BY <1>1, <1>2, <1>4, <1>5 DEF FrameInv

LEMMA StreamStep ==
    ASSUME FrameInv, StoredWhole, StreamInv, StreamNext
    PROVE  StreamInv'
  <1>1. /\ rv = "none" /\ image \in Images /\ IteratorOK(it) /\ Place(it) = Len(got) /\ Shown(got, 0)
        /\ image' = image /\ client' = client
    BY DEF FrameInv, StreamInv, StreamNext
  <1>2. PICK o \in IteratorNext(it, Unlimited) :
           /\ it' = o.it
           /\ got' = IF o.more THEN got \o o.it.data ELSE got
           /\ rv' = IF o.err THEN "error" ELSE IF o.more THEN "none" ELSE "ok"
    BY DEF StreamNext
  <1>3. \A s, p : Shown(s, p)' <=> Shown(s, p)
    BY <1>1, SameAnswers
  <1>4. Unlimited \in Nat
    BY SizeMaxAssumption DEF Unlimited
  <1>5. \/ o.more = FALSE /\ o.err = TRUE
        \/ o.more = FALSE /\ o.err = FALSE /\ Place(it) = FileSize
        \/ o.more = TRUE /\ o.err = FALSE /\ Shows(o.it, Place(it))
    <2>1. \/ o.more = FALSE /\ o.err = TRUE
          \/ o.more = FALSE /\ o.err = FALSE /\ Place(it) = FileSize
          \/ /\ o.more = TRUE /\ o.err = FALSE /\ Shows(o.it, Place(it))
             /\ Unlimited = 1 /\ it.sparse = 0 => o.it.block = Finished \/ o.it.block = it.block + 1
      BY <1>1, <1>4, IteratorNextOK
    <2> QED BY <2>1
  <1>6. CASE o.more = FALSE /\ o.err = TRUE
    <2>1. got' = got /\ rv' = "error"
      BY <1>2, <1>6
    <2>2. Shown(got, 0)'
      BY <1>1, <1>3, <2>1
    <2> QED BY <2>1, <2>2 DEF StreamInv
  <1>7. CASE o.more = FALSE /\ o.err = FALSE /\ Place(it) = FileSize
    <2>1. got' = got /\ rv' = "ok"
      BY <1>2, <1>7
    <2>2. Shown(got, 0)' /\ FileSize' = FileSize
      BY <1>1, <1>3, <2>1, SameFile
    <2> QED BY <1>1, <1>7, <2>1, <2>2 DEF StreamInv
  <1>8. CASE o.more = TRUE /\ o.err = FALSE /\ Shows(o.it, Place(it))
    <2>1. got' = got \o o.it.data /\ rv' = "none"
      BY <1>2, <1>8
    <2>2. IteratorOK(o.it) /\ Place(o.it) = Place(it) + Len(o.it.data)
      BY <1>8 DEF Shows
    <2>3. Shown(o.it.data, Place(o.it) - Len(o.it.data)) /\ Len(o.it.data) \in Nat /\ Len(got) \in Nat
      <3>1. got \in Seq(Int)
        BY <1>1 DEF Shown
      <3> QED BY <1>1, <2>2, <3>1, IteratorShown
    <2>4. Place(o.it) - Len(o.it.data) = 0 + Len(got) /\ 0 \in Nat
      BY <1>1, <2>2, <2>3
    <2>5. Shown(got \o o.it.data, 0) /\ Len(got \o o.it.data) = Len(got) + Len(o.it.data)
      BY <1>1, <2>3, <2>4, ShownMore
    <2>6. Shown(got, 0)'
      BY <1>3, <2>1, <2>5
    <2>7. IteratorOK(it)' /\ Place(it)' = Place(o.it)
      BY <1>1, <1>2, <2>2, SameIterator
    <2>8. Place(it)' = Len(got)'
      BY <1>1, <2>1, <2>2, <2>5, <2>7
    <2> QED BY <2>1, <2>6, <2>7, <2>8 DEF StreamInv
  <1> QED BY <1>5, <1>6, <1>7, <1>8


\* A task writes what its block holds, and the zeros that end the block are there already.
LEMMA TasksStep ==
    ASSUME FrameInv, StoredWhole, TasksInv, RunTask \/ TasksDone
    PROVE  TasksInv'
  <1>1. /\ image \in Images /\ task \in Nat /\ image' = image
        /\ got \in [1..FileSize -> Int] /\ FileSize \in Nat /\ BlockCount \in Nat
        /\ \A k \in 1..FileSize : got[k] \in {Zero, Content[k]}
        /\ rv = "none" /\ \A k \in 1..FileSize : k <= task * BlockSize => got[k] = Content[k]
    <2>1. image \in Images /\ task \in Nat
      BY DEF FrameInv
    <2>2. image' = image /\ rv = "none"
      BY DEF RunTask, TasksDone
    <2> QED BY <2>1, <2>2, Places DEF TasksInv
  <1>2. FileSize' = FileSize /\ Content' = Content
    BY <1>1, SameFile
  <1>3. CASE TasksDone
    <2>1. got' = got /\ task' = task /\ rv' = "ok" /\ task * BlockSize >= FileSize
      BY <1>3 DEF TasksDone
    <2> QED BY <1>1, <1>2, <2>1 DEF TasksInv
  <1>4. CASE RunTask
    <2> DEFINE b == task
               i == FreshIterator(b, AddressOf(b))
    <2>1. PICK o \in IteratorNext(i, 1) :
             /\ got' = IF o.more
                       THEN [k \in DOMAIN got |->
                                IF k - b * BlockSize \in DOMAIN o.it.data
                                THEN o.it.data[k - b * BlockSize] ELSE got[k]]
                       ELSE got
             /\ rv' = IF o.more THEN "none" ELSE "error"
      BY <1>4 DEF RunTask
    <2>2. b * BlockSize < FileSize /\ task' = b + 1
      BY <1>4 DEF RunTask
    <2>3. /\ b * BlockSize \in Nat /\ (b + 1) * BlockSize = b * BlockSize + BlockSize /\ BlockSize \in Nat \ {0}
          /\ BlockCount * BlockSize \in Nat
      BY <1>1, Multiples, BlockSizeAssumption
    <2>4. /\ FileSize = StartOf(BlockCount) + image.fragment /\ image.fragment \in 0..(BlockSize - 1)
          /\ HasFragment => StartOf(BlockCount) = BlockCount * BlockSize
          /\ HasFragment <=> image.fragment > 0
          /\ ~HasFragment => StartOf(BlockCount) = FileSize
          /\ \A c \in 0..(BlockCount - 1) : StartOf(c) = c * BlockSize /\ Length(c) \in 1..BlockSize
                                            /\ StartOf(c + 1) = StartOf(c) + Length(c)
                                            /\ (c + 1 # BlockCount \/ HasFragment => Length(c) = BlockSize)
      <3>1. ~HasFragment => StartOf(BlockCount) = FileSize
        BY DEF StartOf
      <3> QED BY <1>1, <3>1, Places, ImageOK
    <2>5. b \in 0..BlockCount /\ (b = BlockCount => HasFragment) /\ StartOf(b) = b * BlockSize
      <3>1. CASE b < BlockCount
        BY <1>1, <2>4, <3>1
      <3>2. CASE ~(b < BlockCount)
        <4>1. BlockCount * BlockSize <= b * BlockSize
          BY <1>1, <3>2, Multiples
        <4>2. HasFragment
          <5>1. CASE ~HasFragment
            <6>1. BlockCount = 0 => FileSize = 0
              BY <5>1, <2>4 DEF FileSize
            <6>2. BlockCount # 0 => FileSize <= BlockCount * BlockSize
              <7>1. BlockCount # 0 => BlockCount - 1 \in Nat /\ BlockCount - 1 \in 0..(BlockCount - 1) /\ (BlockCount - 1) + 1 = BlockCount
                BY <1>1
              <7>2. BlockCount # 0 => BlockCount * BlockSize = (BlockCount - 1) * BlockSize + BlockSize
                <8>1. BlockCount # 0 => ((BlockCount - 1) + 1) * BlockSize = (BlockCount - 1) * BlockSize + BlockSize
                  BY <7>1, Multiples
                <8> QED BY <7>1, <8>1
              <7>3. BlockCount # 0 => (BlockCount - 1) * BlockSize \in Nat
                BY <1>1, <7>1, Multiples
              <7> QED BY <2>3, <2>4, <5>1, <7>1, <7>2, <7>3
            <6> QED BY <1>1, <2>2, <2>3, <4>1, <6>1, <6>2
          <5> QED BY <5>1
        <4>3. FileSize < (BlockCount + 1) * BlockSize
          <5>1. (BlockCount + 1) * BlockSize = BlockCount * BlockSize + BlockSize
            BY <1>1, Multiples
          <5> QED BY <2>3, <2>4, <4>2, <5>1
        <4>4. ~(BlockCount + 1 <= b)
          <5>1. BlockCount + 1 <= b => (BlockCount + 1) * BlockSize <= b * BlockSize
            <6>1. BlockCount + 1 \in Nat
              BY <1>1
            <6> HIDE DEF b
            <6> QED BY <1>1, <6>1, Multiples DEF b
          <5>2. (BlockCount + 1) * BlockSize \in Nat
            <6>1. BlockCount + 1 \in Nat
              BY <1>1
            <6> QED BY <6>1, Multiples
          <5> QED BY <1>1, <2>2, <2>3, <4>3, <5>1, <5>2
        <4> QED BY <1>1, <2>4, <3>2, <4>2, <4>4
      <3> QED BY <3>1, <3>2
    <2>6. /\ IteratorOK(i) /\ Place(i) = b * BlockSize /\ i.sparse = 0 /\ i.block = b
      BY <1>1, <2>5, FreshOK
    <2> HIDE DEF i
    <2>7. \/ o.more = FALSE
          \/ o.more = TRUE /\ Shows(o.it, Place(i)) /\ (o.it.block = Finished \/ o.it.block = b + 1)
      <3>1. \/ o.more = FALSE /\ o.err = TRUE
            \/ o.more = FALSE /\ o.err = FALSE /\ Place(i) = FileSize
            \/ /\ o.more = TRUE /\ o.err = FALSE /\ Shows(o.it, Place(i))
               /\ 1 = 1 /\ i.sparse = 0 => o.it.block = Finished \/ o.it.block = i.block + 1
        BY <1>1, <2>6, IteratorNextOK
      <3> QED BY <2>6, <3>1
    <2>8. CASE o.more = FALSE
      <3>1. got' = got /\ rv' = "error"
        BY <2>1, <2>8
      <3> QED BY <1>1, <1>2, <3>1 DEF TasksInv
    <2>9. CASE o.more = TRUE /\ Shows(o.it, Place(i)) /\ (o.it.block = Finished \/ o.it.block = b + 1)
      <3> DEFINE d == o.it.data
                 s == b * BlockSize
      <3>1. rv' = "none"
        BY <2>1, <2>9
      <3>2. got' = [k \in 1..FileSize |-> IF k - s \in DOMAIN d THEN d[k - s] ELSE got[k]]
        BY <1>1, <2>1, <2>9
      <3>3. /\ IteratorOK(o.it) /\ Place(o.it) = s + Len(d) /\ d \in Seq(Int) /\ Len(d) \in Nat
            /\ \A k \in 1..Len(d) : d[k] = Content[s + k]
        <4>1. IteratorOK(o.it) /\ Place(o.it) = s + Len(d)
          BY <2>6, <2>9 DEF Shows
        <4>2. Shown(d, Place(o.it) - Len(d)) /\ Len(d) \in Nat
          BY <1>1, <4>1, IteratorShown
        <4>3. Place(o.it) - Len(d) = s
          BY <2>3, <4>1, <4>2
        <4> QED BY <4>1, <4>2, <4>3 DEF Shown
      <3> HIDE DEF d
      <3>4. DOMAIN d = 1..Len(d)
        BY <3>3
      <3>5. s \in Nat
        BY <2>3
      <3> HIDE DEF s
      <3>6. ASSUME NEW k \in 1..FileSize, k - s \in DOMAIN d PROVE got'[k] = Content[k]
        <4>1. got'[k] = d[k - s]
          BY <3>2, <3>6
        <4>2. k - s \in 1..Len(d) /\ s + (k - s) = k
          BY <3>4, <3>5, <3>6
        <4> QED BY <3>3, <4>1, <4>2
      <3>7. ASSUME NEW k \in 1..FileSize, ~(k - s \in DOMAIN d) PROVE got'[k] = got[k]
        BY <3>2, <3>7
      <3>8. \A k \in 1..FileSize : got'[k] \in {Zero, Content[k]}
        BY <1>1, <3>6, <3>7
      <3>9. got' \in [1..FileSize -> Int]
        <4>1. \A k \in 1..FileSize : got'[k] \in Int
          <5>1. Content \in [1..FileSize -> Int]
            BY <1>1, ContentType
          <5> QED BY <3>8, <5>1 DEF Zero
        <4> QED BY <3>2, <4>1
      <3>10. ASSUME NEW k \in 1..FileSize, k <= (b + 1) * BlockSize PROVE got'[k] = Content[k]
        <4>1. CASE k - s \in DOMAIN d
          BY <3>6, <4>1
        <4>2. CASE k <= s
          <5>1. ~(k - s \in DOMAIN d)
            BY <3>4, <3>5, <4>2
          <5>2. got[k] = Content[k]
            BY <1>1, <4>2 DEF s
          <5> QED BY <3>7, <5>1, <5>2
        <4>3. CASE ~(k - s \in DOMAIN d) /\ ~(k <= s)
          <5>1. k > Place(o.it) /\ Place(o.it) \in Nat
            BY <3>3, <3>4, <3>5, <4>3
          <5>2. o.it.block # Finished /\ o.it.block = b + 1
            <6>1. o.it.block # Finished
              BY <1>1, <5>1 DEF Place
            <6> QED BY <2>9, <6>1
          <5>3. b \in 0..(BlockCount - 1)
            <6>1. b + 1 <= BlockCount
              BY <3>3, <5>2 DEF IteratorOK
            <6> QED BY <1>1, <6>1
          <5>4. k <= StartOf(b + 1)
            <6>1. CASE b + 1 = BlockCount /\ ~HasFragment
              BY <2>4, <6>1
            <6>2. CASE b + 1 # BlockCount \/ HasFragment
              <7>1. StartOf(b + 1) = b * BlockSize + BlockSize
                BY <2>4, <5>3, <6>2
              <7> QED BY <2>3, <3>10, <7>1
            <6> QED BY <6>1, <6>2
          <5>5. Place(o.it) = StartOf(b + 1) - o.it.sparse /\ o.it.sparse \in Nat
            <6>1. o.it.sparse \in Nat
              BY <3>3 DEF IteratorOK, Iterator
            <6> QED BY <5>2, <6>1 DEF Place
          <5>6. k - Place(o.it) \in 1..o.it.sparse
            <6>1. StartOf(b + 1) \in Nat
              <7>1. b + 1 \in 0..BlockCount
                BY <1>1, <5>3
              <7> QED BY <1>1, <7>1, Places
            <6> QED BY <5>1, <5>4, <5>5, <6>1
          <5>7. Content[k] = Zero
            <6>1. o.it.sparse > 0 /\ Place(o.it) + (k - Place(o.it)) = k
              BY <5>1, <5>5, <5>6
            <6> QED BY <3>3, <5>6, <6>1 DEF IteratorOK
          <5> QED BY <1>1, <3>7, <4>3, <5>7
        <4> QED BY <4>1, <4>2, <4>3
      <3> QED BY <1>1, <1>2, <2>2, <3>1, <3>8, <3>9, <3>10 DEF TasksInv
    <2> QED BY <2>7, <2>8, <2>9
  <1> QED BY <1>3, <1>4


\* What became of a call that was under way, by the reader it leaves.
LEMMA SettledOK ==
    ASSUME FrameInv, Asked, image' = image, client' = client, NEW i, it' = i, NEW r, Settled(r),
           \/ r.stage = "failed"
           \/ r.stage = "idle" /\ Shown(r.data, From) /\ Len(r.data) = Size
           \/ r.stage = "skipping" /\ Skipping(r, i)
           \/ r.stage \in {"fill", "next"} /\ Fills(r, i)
    PROVE  ReaderInv'
  <1>1. /\ reader' = r /\ got = <<>> /\ rv = "none" /\ Size > 0
        /\ got' = IF r.stage = "idle" THEN got \o r.data ELSE got
        /\ rv' = CASE r.stage = "failed" -> "error"
                   [] r.stage = "idle" /\ client.name = "pread" -> "ok" [] OTHER -> "none"
    BY DEF Settled, Asked
  <1>2. /\ From' = From /\ Size' = Size /\ \A s, p : Shown(s, p)' <=> Shown(s, p)
        /\ \A x, y : (Fills(x, y)' <=> Fills(x, y)) /\ (Skipping(x, y)' <=> Skipping(x, y))
    BY SameAnswers
  <1>3. CASE r.stage = "failed"
    BY <1>1, <1>3 DEF ReaderInv, Failed
  <1>4. CASE r.stage = "idle" /\ Shown(r.data, From) /\ Len(r.data) = Size
    <2>1. got' = r.data
      <3>1. r.data \in Seq(Int)
        BY <1>4 DEF Shown
      <3>2. <<>> \o r.data = r.data
        BY <3>1
      <3> QED BY <1>1, <1>4, <3>2
    <2>2. rv' \in {"none", "ok"} /\ (client.name = "pread" => rv' = "ok")
      BY <1>1, <1>4
    <2>3. Shown(got, From)'
      BY <1>2, <1>4, <2>1
    <2>4. Answered'
      BY <1>1, <1>2, <1>4, <2>1, <2>2, <2>3 DEF Answered
    <2> QED BY <2>4 DEF ReaderInv
  <1>5. ASSUME r.stage \in {"skipping", "fill", "next"} PROVE Asked'
    <2>1. got' = <<>> /\ rv' = "none"
      BY <1>1, <1>5
    <2> QED BY <1>1, <1>2, <2>1 DEF Asked
  <1>6. CASE r.stage = "skipping" /\ Skipping(r, i)
    <2>1. Skipping(reader, it)'
      BY <1>1, <1>2, <1>6
    <2> QED BY <1>5, <1>6, <2>1 DEF ReaderInv
  <1>7. CASE r.stage \in {"fill", "next"} /\ Fills(r, i)
    <2>1. Fills(reader, it)'
      BY <1>1, <1>2, <1>7
    <2> QED BY <1>5, <1>7, <2>1 DEF ReaderInv
  <1> QED BY <1>3, <1>4, <1>6, <1>7

\* The call of a program that has not asked yet.
LEMMA AskStep ==
    ASSUME FrameInv, OneCall, client.name \in {"pread", "chunks"}, ReaderInv, ReadPiece \/ ReadChunk
    PROVE  ReaderInv'
  <1>1. /\ image \in Images /\ client.offset \in Nat /\ client.size \in Nat /\ rv = "none" /\ reader.stage = "idle"
        /\ image' = image /\ client' = client /\ it' = it /\ got' = got
    BY DEF FrameInv, ReadPiece, ReadChunk
  <1>2. /\ From' = From /\ Size' = Size /\ \A s, p : Shown(s, p)' <=> Shown(s, p)
        /\ \A x, y : Skips(x, y)' <=> Skips(x, y)
    BY <1>1, SameAnswers
  <1>3. From \in Nat /\ Size \in Nat /\ FileSize \in Nat
    BY <1>1, PieceInFile
  <1>4. Unasked \/ (Answered /\ client.name = "chunks")
    <2>1. ~Skips(reader, it) /\ ~Skipping(reader, it) /\ ~Failed
      BY <1>1 DEF Skips, Skipping, Failed
    <2>2. ~Fills(reader, it)
      <3>1. Fills(reader, it) => reader.stage \in {"fill", "next"}
        BY DEF Fills
      <3> QED BY <1>1, <3>1
    <2>3. Answered => client.name = "chunks"
      BY <1>1 DEF Answered
    <2>4. \/ Unasked \/ Answered \/ Failed
          \/ Skips(reader, it) \/ Skipping(reader, it) \/ Fills(reader, it)
      BY DEF ReaderInv
    <2> QED BY <2>1, <2>2, <2>3, <2>4
  <1>5. ASSUME Size = 0, Unasked, rv' = "ok", UNCHANGED reader PROVE Unasked'
    BY <1>1, <1>2, <1>5 DEF Unasked
  <1>6. ASSUME Size > 0, Unasked, rv' = rv, reader' = Advanced(reader, From, Size) PROVE ReaderInv'
    <2>1. reader = FreshReader /\ it = FreshIterator(0, 0) /\ got = <<>>
      BY <1>6 DEF Unasked
    <2>2. reader' = [stage |-> "skip", data |-> <<>>, offset |-> 0, iterator_offset |-> 0, buffer |-> <<>>,
                     skip |-> From, size |-> Size, remaining |-> 0, start |-> 0]
      <3>1. From >= 0 /\ From - 0 + 0 = From
        BY <1>3
      <3> QED BY <1>6, <2>1, <3>1 DEF Advanced, FreshReader
    <2>3. reader' \in Readers /\ reader'.stage = "skip" /\ reader'.size = Size /\ reader'.skip = From
      <3>1. <<>> \in Seq(Int)
        OBVIOUS
      <3> QED BY <1>3, <2>2, <3>1 DEF Readers
    <2>4. Skips(reader', it)
      BY <2>1, <2>3 DEF Skips
    <2>5. Skips(reader, it)'
      BY <1>1, <1>2, <2>4
    <2>6. Asked'
      BY <1>1, <1>2, <1>6, <2>1 DEF Asked
    <2> QED BY <2>5, <2>6 DEF ReaderInv
  <1>7. CASE ReadPiece
    <2>1. client.name = "pread" /\ Unasked /\ From = client.offset /\ Size = Clamped(client.offset, client.size)
      BY <1>4, <1>7 DEF ReadPiece, From, Size
    <2>2. \/ Size = 0 /\ rv' = "ok" /\ UNCHANGED reader
          \/ Size # 0 /\ rv' = rv /\ reader' = Advanced(reader, From, Size)
      BY <1>7, <2>1 DEF ReadPiece
    <2> QED BY <1>3, <1>5, <1>6, <2>1, <2>2 DEF ReaderInv
  <1>8. CASE ReadChunk
    <2>1. client.name = "chunks" /\ From = 0 /\ Size = FileSize /\ client.size >= FileSize
      BY <1>8 DEF ReadChunk, From, Size, OneCall
    <2>2. CASE Unasked
      <3>1. got = <<>> /\ Len(got) = 0 /\ Len(reader.data) = 0 /\ FileSize - 0 = Size
        <4>1. got = <<>> /\ reader.data = <<>>
          BY <2>2 DEF Unasked, FreshReader
        <4> QED BY <1>3, <2>1, <4>1
      <3>2. (IF client.size > FileSize THEN FileSize ELSE client.size) = FileSize
        BY <1>1, <1>3, <2>1
      <3>3. \/ Size = 0 /\ rv' = "ok" /\ UNCHANGED reader
            \/ Size # 0 /\ rv' = rv /\ reader' = Advanced(reader, 0, FileSize)
        BY <1>3, <1>8, <2>1, <3>1, <3>2 DEF ReadChunk
      <3> QED BY <1>3, <1>5, <1>6, <2>1, <2>2, <3>3 DEF ReaderInv
    <2>3. CASE Answered
      <3>1. Len(got) = FileSize /\ FileSize - Len(got) = 0 /\ Shown(got, From) /\ Size > 0
        BY <1>3, <2>1, <2>3 DEF Answered
      <3>2. rv' = "ok" /\ reader' = reader
        BY <1>8, <3>1 DEF ReadChunk
      <3>3. Shown(got, From)'
        BY <1>1, <1>2, <3>1
      <3>4. Answered'
        BY <1>1, <1>2, <2>1, <3>1, <3>2, <3>3 DEF Answered
      <3> QED BY <3>4 DEF ReaderInv
    <2> QED BY <1>4, <2>2, <2>3
  <1> QED BY <1>7, <1>8


\* sqsh_file_iterator_skip2 up to its loop: the block that the piece begins in, which is there.
LEMMA SkipBlocksStep ==
    ASSUME FrameInv, Asked, Skips(reader, it), SkipBlocks
    PROVE  ReaderInv'
  <1> DEFINE n == From \div BlockSize
             i == FreshIterator(n, AddressOf(n))
             r == [reader EXCEPT !.stage = "skipping", !.skip = From % BlockSize]
  <1>1. /\ image \in Images /\ client.offset \in Nat /\ client.size \in Nat /\ image' = image /\ client' = client
        /\ it = FreshIterator(0, 0) /\ reader \in Readers /\ reader.skip = From /\ reader.size = Size
        /\ rv = "none" /\ got = <<>> /\ Size > 0
    BY DEF FrameInv, Asked, Skips, SkipBlocks
  <1>2. /\ From \in Nat /\ Size \in Nat /\ FileSize \in Nat /\ From + Size <= FileSize
        /\ BlockCount \in Nat /\ BlockSize \in Nat \ {0}
    BY <1>1, PieceInFile, Places, BlockSizeAssumption
  <1>3. /\ n \in Nat /\ From % BlockSize \in 0..(BlockSize - 1) /\ From = n * BlockSize + (From % BlockSize)
        /\ n * BlockSize \in Nat
    <2>1. n \in Nat
      BY <1>2, Quotients
    <2> QED BY <1>2, <2>1, Quotients, Multiples
  <1>4. it = [address |-> 0, width |-> 0, block |-> 0, sparse |-> 0, data |-> <<>>]
    BY <1>1 DEF FreshIterator, FreshWindow
  <1>5. Len(it.data) = 0 /\ it.block = 0 /\ it.data = <<>>
    BY <1>4
  <1>6. reader.skip - Len(it.data) = From
    BY <1>1, <1>2, <1>5
  <1> HIDE DEF n
  <1>7. n <= BlockCount /\ (n = BlockCount => HasFragment)
    <2>1. /\ FileSize = StartOf(BlockCount) + image.fragment /\ image.fragment \in 0..(BlockSize - 1)
          /\ HasFragment => StartOf(BlockCount) = BlockCount * BlockSize
          /\ HasFragment <=> image.fragment > 0
          /\ ~HasFragment => StartOf(BlockCount) = FileSize
          /\ \A c \in 0..(BlockCount - 1) : StartOf(c) = c * BlockSize /\ Length(c) \in 1..BlockSize
                                            /\ StartOf(c + 1) = StartOf(c) + Length(c)
      <3>1. ~HasFragment => StartOf(BlockCount) = FileSize
        BY DEF StartOf
      <3> QED BY <1>1, <3>1, Places, ImageOK
    <2>2. n * BlockSize < FileSize
      BY <1>1, <1>2, <1>3
    <2>3. CASE n < BlockCount
      BY <1>2, <1>3, <2>3
    <2>4. CASE ~(n < BlockCount)
      <3>1. BlockCount * BlockSize <= n * BlockSize /\ BlockCount * BlockSize \in Nat
        BY <1>2, <1>3, <2>4, Multiples
      <3>2. HasFragment
        <4>1. BlockCount = 0 /\ ~HasFragment => FileSize = 0
          BY DEF FileSize
        <4>2. BlockCount # 0 /\ ~HasFragment => FileSize <= BlockCount * BlockSize
          <5>1. BlockCount # 0 => BlockCount - 1 \in Nat /\ BlockCount - 1 \in 0..(BlockCount - 1)
                                  /\ (BlockCount - 1) + 1 = BlockCount
            BY <1>2
          <5>2. BlockCount # 0 => /\ ((BlockCount - 1) + 1) * BlockSize = (BlockCount - 1) * BlockSize + BlockSize
                                  /\ (BlockCount - 1) * BlockSize \in Nat
            BY <5>1, Multiples
          <5>3. BlockCount # 0 => BlockCount * BlockSize = (BlockCount - 1) * BlockSize + BlockSize
            BY <5>1, <5>2
          <5>4. BlockCount # 0 => /\ StartOf(BlockCount) = StartOf(BlockCount - 1) + Length(BlockCount - 1)
                                  /\ StartOf(BlockCount - 1) = (BlockCount - 1) * BlockSize
                                  /\ Length(BlockCount - 1) \in 1..BlockSize
            BY <2>1, <5>1
          <5> QED BY <1>2, <2>1, <5>2, <5>3, <5>4
        <4> QED BY <1>2, <1>3, <2>2, <3>1, <4>1, <4>2
      <3>3. FileSize < (BlockCount + 1) * BlockSize
        <4>1. (BlockCount + 1) * BlockSize = BlockCount * BlockSize + BlockSize
          BY <1>2, Multiples
        <4> QED BY <1>2, <2>1, <3>1, <3>2, <4>1
      <3>4. ~(BlockCount + 1 <= n)
        <4>1. BlockCount + 1 \in Nat
          BY <1>2
        <4>2. BlockCount + 1 <= n => (BlockCount + 1) * BlockSize <= n * BlockSize
          BY <1>3, <4>1, Multiples
        <4>3. (BlockCount + 1) * BlockSize \in Nat
          BY <4>1, Multiples
        <4> QED BY <1>2, <1>3, <2>2, <3>3, <4>2, <4>3
      <3> QED BY <1>2, <1>3, <2>4, <3>2, <3>4
    <2> QED BY <2>3, <2>4
  <1>8. AddressOf(0) = 0 /\ AddressOf(n) \in Nat
    BY <1>1, <1>3, Addresses
  <1>9. \/ it' = i /\ reader' = r /\ UNCHANGED <<got, rv>>
        \/ Settled(Broken(reader)) /\ UNCHANGED it
    <2> DEFINE m == (reader.skip - Len(it.data)) \div BlockSize + (IF it.data # <<>> THEN 1 ELSE 0)
               last == IF it.block = Finished THEN Finished
                       ELSE IF it.block + m > BlockCount THEN BlockCount ELSE it.block + m
    <2>1. m = n
      BY <1>3, <1>5, <1>6 DEF n
    <2> HIDE DEF m
    <2>2. last = n /\ n # Finished
      BY <1>2, <1>3, <1>5, <1>7, <2>1 DEF Finished
    <2> HIDE DEF last
    <2>3. \/ /\ it' = [MapAdvanced(it, IF last = Finished THEN 0
                                       ELSE AddressOf(last) - AddressOf(it.block), 0)
                       EXCEPT !.sparse = 0, !.block = last]
             /\ reader' = [reader EXCEPT !.stage = "skipping", !.skip = (reader.skip - Len(it.data)) % BlockSize]
             /\ UNCHANGED <<got, rv>>
          \/ Settled(Broken(reader)) /\ UNCHANGED it
      BY <1>5 DEF SkipBlocks, m, last
    <2> DEFINE x == IF last = Finished THEN 0 ELSE AddressOf(last) - AddressOf(it.block)
    <2>4. [MapAdvanced(it, x, 0) EXCEPT !.sparse = 0, !.block = last] = i
      <3>1. x = AddressOf(n)
        BY <1>5, <1>8, <2>2
      <3> HIDE DEF x
      <3>2. MapAdvanced(it, AddressOf(n), 0)
              = [address |-> AddressOf(n), width |-> 0, block |-> 0, sparse |-> 0, data |-> <<>>]
        <4> DEFINE a == AddressOf(n)
        <4>1. 0 + a = a
          BY <1>8
        <4> HIDE DEF a
        <4>2. MapAdvanced(it, a, 0) = [it EXCEPT !.address = 0 + a, !.width = 0]
          BY <1>4 DEF MapAdvanced
        <4>3. MapAdvanced(it, a, 0) = [address |-> a, width |-> 0, block |-> 0, sparse |-> 0, data |-> <<>>]
          BY <1>4, <4>1, <4>2
        <4> QED BY <4>3 DEF a
      <3>3. i = [address |-> AddressOf(n), width |-> 0, block |-> n, sparse |-> 0, data |-> <<>>]
        BY DEF FreshIterator, FreshWindow
      <3> HIDE DEF i
      <3> DEFINE w == MapAdvanced(it, x, 0)
      <3>4. w = [address |-> AddressOf(n), width |-> 0, block |-> 0, sparse |-> 0, data |-> <<>>]
        BY <3>1, <3>2
      <3> HIDE DEF w
      <3>5. [w EXCEPT !.sparse = 0, !.block = last] = i
        <4> DEFINE v == [w EXCEPT !.sparse = 0, !.block = last]
        <4>1. v = [address |-> AddressOf(n), width |-> 0, block |-> last, sparse |-> 0, data |-> <<>>]
          <5>1. <<>> \in Seq(Int)
            OBVIOUS
          <5>2. w \in Iterator /\ w.address = AddressOf(n) /\ w.width = 0 /\ w.data = <<>>
            BY <1>8, <3>4, <5>1 DEF Iterator
          <5>3. /\ v \in Iterator /\ v.address = AddressOf(n) /\ v.width = 0 /\ v.block = last /\ v.sparse = 0
                /\ v.data = <<>>
            BY <1>3, <2>2, <5>2 DEF Iterator
          <5> HIDE DEF v
          <5>4. v = [address |-> v.address, width |-> v.width, block |-> v.block, sparse |-> v.sparse, data |-> v.data]
            BY <5>3 DEF Iterator
          <5> QED BY <5>3, <5>4
        <4> HIDE DEF v
        <4>2. v = i
          BY <2>2, <3>3, <4>1
        <4> QED BY <4>2 DEF v
      <3> QED BY <3>5 DEF w
    <2> QED BY <1>6, <2>3, <2>4
  <1>10. CASE it' = i /\ reader' = r /\ UNCHANGED <<got, rv>>
    <2>1. n \in 0..BlockCount
      BY <1>2, <1>3, <1>7
    <2>2. IteratorOK(i) /\ Place(i) = StartOf(n) /\ i.data = <<>>
      BY <1>1, <2>1, FreshOK
    <2>3. StartOf(n) = n * BlockSize
      BY <1>7 DEF StartOf
    <2>4. r \in Readers /\ r.stage = "skipping" /\ r.skip = From % BlockSize /\ r.size = Size
      <3>1. From % BlockSize \in Nat
        BY <1>2, <1>3
      <3> QED BY <1>1, <3>1 DEF Readers
    <2> HIDE DEF i, r
    <2>5. Place(i) - Len(i.data) + r.skip = From
      <3>1. Len(i.data) = 0
        BY <2>2
      <3> QED BY <1>2, <1>3, <2>2, <2>3, <2>4, <3>1
    <2>6. Skipping(r, i)
      BY <2>2, <2>4, <2>5 DEF Skipping
    <2>7. Skipping(reader, it)'
      BY <1>1, <1>10, <2>6, SameAnswers
    <2>8. Asked'
      BY <1>1, <1>10, SameAnswers DEF Asked
    <2> QED BY <2>7, <2>8 DEF ReaderInv
  <1>11. CASE Settled(Broken(reader)) /\ UNCHANGED it
    <2> DEFINE b == Broken(reader)
    <2>1. b.stage = "failed"
      BY <1>1 DEF Broken, Readers
    <2> HIDE DEF b
    <2> QED BY <1>1, <1>11, <2>1, SettledOK DEF b
  <1> QED BY <1>9, <1>10, <1>11


\* The steps of a call that is under way.
LEMMA ReaderStep ==
    ASSUME FrameInv, StoredWhole, Asked,
           Skips(reader, it) \/ Skipping(reader, it) \/ Fills(reader, it),
           SkipBlocks \/ SkipNothing \/ SkipNext \/ SkipEnd \/ Fill \/ FillNext
    PROVE  ReaderInv'
  <1>1. /\ image \in Images /\ client.offset \in Nat /\ client.size \in Nat /\ image' = image /\ client' = client
        /\ rv = "none" /\ got = <<>> /\ Size > 0
    BY DEF FrameInv, Asked, SkipBlocks, SkipNothing, SkipNext, SkipEnd, Fill, FillNext
  <1>2. From \in Nat /\ Size \in Nat /\ FileSize \in Nat /\ From + Size <= FileSize
    BY <1>1, PieceInFile
  <1>3. reader \in Readers
    BY DEF Skips, Skipping, Fills
  <1>4. /\ reader.stage = "skip" => Skips(reader, it)
        /\ reader.stage = "skipping" => Skipping(reader, it)
        /\ reader.stage \in {"fill", "next"} => Fills(reader, it)
    <2>1. Fills(reader, it) => reader.stage \in {"fill", "next"}
      BY DEF Fills
    <2>2. Skips(reader, it) => reader.stage = "skip"
      BY DEF Skips
    <2>3. Skipping(reader, it) => reader.stage = "skipping"
      BY DEF Skipping
    <2> QED BY <2>1, <2>2, <2>3
  <1>5. ASSUME Settled(Broken(reader)), NEW j, it' = j PROVE ReaderInv'
    <2> DEFINE b == Broken(reader)
    <2>1. b.stage = "failed"
      BY <1>3 DEF Broken, Readers
    <2> HIDE DEF b
    <2> QED BY <1>1, <1>5, <2>1, SettledOK DEF b
  <1>6. CASE SkipBlocks
    BY <1>4, <1>6, SkipBlocksStep DEF SkipBlocks
  <1>7. CASE SkipNothing
    <2>1. Skips(reader, it) /\ reader.skip < Len(it.data)
      BY <1>4, <1>7 DEF SkipNothing
    <2>2. it.data = <<>> /\ reader.skip = From
      BY <2>1 DEF Skips, FreshIterator, FreshWindow
    <2>3. Len(it.data) = 0
      BY <2>2
    <2> QED BY <1>2, <2>1, <2>2, <2>3
  <1>8. CASE SkipNext
    <2>1. PICK o \in IteratorNext(it, reader.size) :
             /\ it' = o.it
             /\ Settled(IF o.more THEN [reader EXCEPT !.skip = @ - Len(it.data)] ELSE Broken(reader))
      BY <1>8 DEF SkipNext
    <2>2. Skipping(reader, it) /\ Len(it.data) <= reader.skip
      BY <1>4, <1>8 DEF SkipNext
    <2>3. /\ IteratorOK(it) /\ Place(it) - Len(it.data) + reader.skip = From /\ reader.size = Size
          /\ reader.skip \in Nat
      BY <1>3, <2>2 DEF Skipping, Readers
    <2>4. \/ o.more = FALSE
          \/ o.more = TRUE /\ Shows(o.it, Place(it))
      <3>1. \/ o.more = FALSE /\ o.err = TRUE
            \/ o.more = FALSE /\ o.err = FALSE /\ Place(it) = FileSize
            \/ /\ o.more = TRUE /\ o.err = FALSE /\ Shows(o.it, Place(it))
               /\ Size = 1 /\ it.sparse = 0 => o.it.block = Finished \/ o.it.block = it.block + 1
        BY <1>1, <1>2, <2>1, <2>3, IteratorNextOK
      <3> QED BY <3>1
    <2>5. CASE o.more = FALSE
      <3>1. Settled(Broken(reader))
        BY <2>1, <2>5
      <3> QED BY <1>5, <2>1, <3>1
    <2>6. CASE o.more = TRUE /\ Shows(o.it, Place(it))
      <3> DEFINE n == reader.skip - Len(it.data)
                 r == [reader EXCEPT !.skip = n]
      <3>1. Settled(r)
        BY <2>1, <2>6
      <3>2. Len(it.data) \in Nat /\ Place(it) \in Nat
        BY <1>1, <2>3, IteratorShown
      <3>3. n \in Nat /\ Place(it) + n = From
        BY <1>2, <2>2, <2>3, <3>2
      <3> HIDE DEF n
      <3>4. r \in Readers /\ r.stage = "skipping" /\ r.skip = n /\ r.size = Size
        <4>1. reader.stage = "skipping"
          BY <2>2 DEF Skipping
        <4> QED BY <1>3, <2>3, <3>3, <4>1 DEF Readers
      <3> HIDE DEF r
      <3>5. IteratorOK(o.it) /\ Place(o.it) = Place(it) + Len(o.it.data)
        BY <2>6 DEF Shows
      <3>6. Len(o.it.data) \in Nat
        BY <1>1, <3>5, IteratorShown
      <3>7. Place(o.it) - Len(o.it.data) + r.skip = From
        BY <3>2, <3>3, <3>4, <3>5, <3>6
      <3>8. Skipping(r, o.it)
        BY <3>4, <3>5, <3>7 DEF Skipping
      <3> QED BY <1>1, <2>1, <3>1, <3>4, <3>8, SettledOK
    <2> QED BY <2>4, <2>5, <2>6
  <1>9. CASE SkipEnd
    <2>1. Skipping(reader, it) /\ reader.skip < Len(it.data) /\ Settled(Mapped(reader, reader.skip, it.data)) /\ it' = it
      BY <1>4, <1>9 DEF SkipEnd
    <2>2. /\ IteratorOK(it) /\ Place(it) - Len(it.data) + reader.skip = From /\ reader.size = Size
          /\ reader.skip \in Nat
      BY <1>3, <2>1 DEF Skipping, Readers
    <2> DEFINE m == Mapped(reader, reader.skip, it.data)
    <2>3. Len(it.data) \in Nat /\ reader.skip <= Len(it.data)
      BY <1>1, <2>1, <2>2, IteratorShown
    <2>4. \/ m.stage = "idle" /\ Shown(m.data, From) /\ Len(m.data) = Size
          \/ m.stage = "fill" /\ Fills(m, it)
      BY <1>1, <1>3, <2>2, <2>3, MappedOK
    <2> HIDE DEF m
    <2> QED BY <1>1, <2>1, <2>4, SettledOK DEF m
  <1>10. CASE Fill
    <2>1. Fills(reader, it) /\ reader.stage = "fill" /\ Settled(Filled(reader, it.data)) /\ it' = it
      BY <1>4, <1>10 DEF Fill
    <2> DEFINE m == Filled(reader, it.data)
    <2>2. \/ m.stage = "idle" /\ Shown(m.data, From) /\ Len(m.data) = Size
          \/ m.stage = "next" /\ Fills(m, it)
      BY <1>1, <2>1, FilledOK
    <2> HIDE DEF m
    <2> QED BY <1>1, <2>1, <2>2, SettledOK DEF m
  <1>11. CASE FillNext
    <2>1. PICK o \in IteratorNext(it, reader.remaining) :
             it' = o.it /\ Settled(IF o.more THEN Continued(reader) ELSE Broken(reader))
      BY <1>11 DEF FillNext
    <2>2. Fills(reader, it) /\ reader.stage = "next"
      BY <1>4, <1>11 DEF FillNext
    <2>3. /\ IteratorOK(it) /\ Place(it) = From + Len(reader.buffer) /\ reader.size = Size /\ reader.offset = 0
          /\ Shown(reader.buffer, From) /\ Len(reader.buffer) + reader.remaining = Size /\ reader.remaining > 0
          /\ reader.remaining \in Nat
      BY <1>3, <2>2 DEF Fills, Readers
    <2>4. \/ o.more = FALSE
          \/ o.more = TRUE /\ Shows(o.it, Place(it))
      <3> DEFINE n == reader.remaining
      <3> HIDE DEF n
      <3>1. n \in Nat /\ o \in IteratorNext(it, n)
        BY <2>1, <2>3 DEF n
      <3>2. \/ o.more = FALSE /\ o.err = TRUE
            \/ o.more = FALSE /\ o.err = FALSE /\ Place(it) = FileSize
            \/ /\ o.more = TRUE /\ o.err = FALSE /\ Shows(o.it, Place(it))
               /\ n = 1 /\ it.sparse = 0 => o.it.block = Finished \/ o.it.block = it.block + 1
        BY <1>1, <2>3, <3>1, IteratorNextOK
      <3> QED BY <3>2
    <2>5. CASE o.more = FALSE
      <3>1. Settled(Broken(reader))
        BY <2>1, <2>5
      <3> QED BY <1>5, <2>1, <3>1
    <2>6. CASE o.more = TRUE /\ Shows(o.it, Place(it))
      <3> DEFINE r == Continued(reader)
      <3>1. Settled(r)
        BY <2>1, <2>6
      <3>2. /\ r \in Readers /\ r.stage = "fill" /\ r.offset = 0 /\ r.size = Size /\ r.buffer = reader.buffer
            /\ r.remaining = reader.remaining
        BY <1>3, <2>3 DEF Readers, Continued
      <3> HIDE DEF r
      <3>3. IteratorOK(o.it) /\ Place(o.it) = Place(it) + Len(o.it.data)
        BY <2>6 DEF Shows
      <3>4. Len(o.it.data) \in Nat /\ Place(it) \in Nat
        BY <1>1, <2>3, <3>3, IteratorShown
      <3>5. Place(o.it) - Len(o.it.data) + r.offset = From + Len(r.buffer) /\ r.offset <= Len(o.it.data)
        BY <2>3, <3>2, <3>3, <3>4
      <3>6. Fills(r, o.it)
        BY <2>3, <3>2, <3>3, <3>5 DEF Fills
      <3> QED BY <1>1, <2>1, <3>1, <3>2, <3>6, SettledOK
    <2> QED BY <2>4, <2>5, <2>6
  <1> QED BY <1>6, <1>7, <1>8, <1>9, <1>10, <1>11


LEMMA ContentInitial ==
    ASSUME ReadingInit
    PROVE  ContentInv
  <1>1. /\ image \in Images /\ client.name \in {"stream", "tasks", "pread", "chunks"}
        /\ client \in [name : Clients, offset : 0..FileSize, size : 0..FileSize]
        /\ it = FreshIterator(0, 0) /\ reader = FreshReader /\ task = 0 /\ rv = "none"
        /\ got = IF client.name = "tasks" THEN [k \in 1..FileSize |-> Zero] ELSE <<>>
    BY ClientsAssumption DEF ReadingInit
  <1>2. FileSize \in Nat /\ BlockCount \in Nat
    BY <1>1, Places
  <1>3. FrameInv
    <2>1. client \in [name : {"stream", "tasks", "pread", "chunks"}, offset : Nat, size : Nat]
      BY <1>1, <1>2
    <2>2. reader.stage = "idle"
      BY <1>1 DEF FreshReader
    <2> QED BY <1>1, <2>1, <2>2 DEF FrameInv
  <1>4. IteratorOK(it) /\ Place(it) = 0
    <2>1. 0 \in 0..BlockCount /\ AddressOf(0) = 0
      BY <1>1, <1>2, Addresses
    <2>2. StartOf(0) = 0
      BY <1>1, Places
    <2>3. /\ IteratorOK(FreshIterator(0, AddressOf(0)))
          /\ Place(FreshIterator(0, AddressOf(0))) = StartOf(0)
      BY <1>1, <2>1, FreshOK
    <2> QED BY <1>1, <2>1, <2>2, <2>3
  <1>5. ASSUME client.name = "stream" PROVE StreamInv
    <2>1. got = <<>> /\ <<>> \in Seq(Int) /\ Len(<<>>) = 0
      BY <1>1, <1>5
    <2>2. Shown(got, 0) /\ Len(got) = 0
      BY <1>2, <2>1 DEF Shown
    <2> QED BY <1>1, <1>4, <2>2 DEF StreamInv
  <1>6. ASSUME client.name = "tasks" PROVE TasksInv
    <2>1. got = [k \in 1..FileSize |-> Zero]
      BY <1>1, <1>6
    <2>2. got \in [1..FileSize -> Int] /\ \A k \in 1..FileSize : got[k] = Zero
      BY <2>1 DEF Zero
    <2>3. \A k \in 1..FileSize : ~(k <= task * BlockSize)
      BY <1>1, <1>2, Multiples
    <2> QED BY <1>1, <2>2, <2>3 DEF TasksInv
  <1>7. ASSUME client.name \in {"pread", "chunks"} PROVE ReaderInv
    <2>1. got = <<>>
      BY <1>1, <1>7
    <2>2. Unasked
      BY <1>1, <2>1 DEF Unasked
    <2> QED BY <2>2 DEF ReaderInv
  <1> QED BY <1>3, <1>5, <1>6, <1>7 DEF ContentInv

LEMMA ContentStep ==
    ASSUME ContentInv, ReadingNext
    PROVE  ContentInv'
  <1>1. FrameInv /\ FrameInv' /\ image' = image /\ client' = client
    BY FrameStep DEF ContentInv
  <1>2. (StoredWhole' <=> StoredWhole) /\ (OneCall' <=> OneCall) /\ image \in Images
    BY <1>1, SameBlocks, SameAnswers DEF FrameInv
  <1>3. SUFFICES ASSUME StoredWhole, OneCall
                 PROVE  /\ client.name = "stream" => StreamInv'
                        /\ client.name = "tasks" => TasksInv'
                        /\ client.name \in {"pread", "chunks"} => ReaderInv'
    BY <1>1, <1>2 DEF ContentInv
  <1>4. /\ client.name = "stream" => StreamInv
        /\ client.name = "tasks" => TasksInv
        /\ client.name \in {"pread", "chunks"} => ReaderInv
    BY <1>3 DEF ContentInv
  <1>5. ASSUME client.name = "stream" PROVE StreamInv'
    <2>1. StreamNext
      BY <1>1, <1>5 DEF FrameInv, ReadingNext, RunTask, TasksDone, ReadPiece, ReadChunk, SkipBlocks, SkipNothing,
                        SkipNext, SkipEnd, Fill, FillNext
    <2> QED BY <1>1, <1>3, <1>4, <1>5, <2>1, StreamStep
  <1>6. ASSUME client.name = "tasks" PROVE TasksInv'
    <2>1. RunTask \/ TasksDone
      BY <1>1, <1>6 DEF FrameInv, ReadingNext, StreamNext, ReadPiece, ReadChunk, SkipBlocks, SkipNothing,
                        SkipNext, SkipEnd, Fill, FillNext
    <2> QED BY <1>1, <1>3, <1>4, <1>6, <2>1, TasksStep
  <1>7. ASSUME client.name \in {"pread", "chunks"} PROVE ReaderInv'
    <2>1. \/ ReadPiece \/ ReadChunk
          \/ SkipBlocks \/ SkipNothing \/ SkipNext \/ SkipEnd \/ Fill \/ FillNext
      BY <1>7 DEF ReadingNext, StreamNext, RunTask, TasksDone
    <2>2. CASE ReadPiece \/ ReadChunk
      BY <1>1, <1>3, <1>4, <1>7, <2>2, AskStep
    <2>3. CASE SkipBlocks \/ SkipNothing \/ SkipNext \/ SkipEnd \/ Fill \/ FillNext
      <3>1. reader.stage \in {"skip", "skipping", "fill", "next"}
        BY <2>3 DEF SkipBlocks, SkipNothing, SkipNext, SkipEnd, Fill, FillNext
      <3>2. ~Unasked /\ ~Answered /\ ~Failed
        BY <3>1 DEF Unasked, FreshReader, Answered, Failed
      <3>3. Asked /\ (Skips(reader, it) \/ Skipping(reader, it) \/ Fills(reader, it))
        BY <1>4, <1>7, <3>2 DEF ReaderInv
      <3> QED BY <1>1, <1>3, <2>3, <3>3, ReaderStep
    <2> QED BY <2>1, <2>2, <2>3
  <1> QED BY <1>5, <1>6, <1>7

LEMMA ContentUnchanged ==
    ASSUME ContentInv, UNCHANGED readingVars
    PROVE  ContentInv'
  <1>1. /\ image' = image /\ client' = client /\ it' = it /\ reader' = reader /\ task' = task
        /\ got' = got /\ rv' = rv
    BY DEF readingVars
  <1>2. /\ FrameInv' <=> FrameInv
        /\ (StoredWhole' <=> StoredWhole) /\ (OneCall' <=> OneCall)
        /\ FileSize' = FileSize /\ Content' = Content /\ From' = From /\ Size' = Size
        /\ \A s, p : Shown(s, p)' <=> Shown(s, p)
        /\ \A r, i : /\ Fills(r, i)' <=> Fills(r, i)
                     /\ Skips(r, i)' <=> Skips(r, i)
                     /\ Skipping(r, i)' <=> Skipping(r, i)
        /\ \A i : Place(i)' = Place(i) /\ (IteratorOK(i)' <=> IteratorOK(i))
    BY <1>1, SameBlocks, SameAnswers, SameFile, SameIterator DEF FrameInv
  <1>3. StreamInv' <=> StreamInv
    BY <1>1, <1>2 DEF StreamInv
  <1>4. TasksInv' <=> TasksInv
    BY <1>1, <1>2 DEF TasksInv
  <1>5. ReaderInv' <=> ReaderInv
    BY <1>1, <1>2 DEF ReaderInv, Unasked, Answered, Failed, Asked
  <1> QED BY <1>1, <1>2, <1>3, <1>4, <1>5 DEF ContentInv

\* The invariant of the programs that read.
THEOREM ContentInvariant == ReadingSpec => []ContentInv
  <1>1. ReadingInit => ContentInv
    BY ContentInitial
  <1>2. ContentInv /\ [ReadingNext]_readingVars => ContentInv'
    BY ContentStep, ContentUnchanged
  <1> QED BY <1>1, <1>2, PTL DEF ReadingSpec


\* Bytes that are the file's from a place on are a piece of it.
LEMMA ShownIsPiece ==
    ASSUME NEW p \in Nat, NEW s, Shown(s, p)
    PROVE  s = Piece(p, Len(s))
  <1>1. s \in Seq(Int) /\ Len(s) \in Nat /\ \A k \in 1..Len(s) : s[k] = Content[p + k]
    BY DEF Shown
  <1>2. s = [k \in 1..Len(s) |-> s[k]]
    BY <1>1
  <1>3. Piece(p, Len(s)) = [k \in 1..Len(s) |-> Content[p + k]]
    BY DEF Piece
  <1> QED BY <1>1, <1>2, <1>3

LEMMA NoPiece ==
    ASSUME NEW p
    PROVE  Piece(p, 0) = <<>>
  <1>1. 1..0 = {}
    OBVIOUS
  <1> QED BY <1>1 DEF Piece

LEMMA WholePiece ==
    ASSUME image \in Images
    PROVE  Piece(0, FileSize) = Content
  <1>1. FileSize \in Nat /\ Content \in [1..FileSize -> Int]
    BY Places, ContentType
  <1>2. \A k \in 1..FileSize : 0 + k = k
    BY <1>1
  <1>3. Piece(0, FileSize) = [k \in 1..FileSize |-> Content[0 + k]]
    BY DEF Piece
  <1> QED BY <1>1, <1>2, <1>3

\* A program that reads by offset and size has received nothing or all.
LEMMA NothingOrAll ==
    ASSUME FrameInv, ReaderInv, client.name \in {"pread", "chunks"}
    PROVE  /\ got = <<>> \/ (Len(got) = Size /\ got = Piece(From, Size) /\ Shown(got, From))
           /\ rv = "ok" => got = Piece(From, Size)
  <1>1. From \in Nat /\ Size \in Nat
    BY PieceInFile DEF FrameInv
  <1>2. CASE Unasked
    <2>1. got = <<>> /\ (rv = "ok" => Size = 0)
      BY <1>2 DEF Unasked
    <2> QED BY <2>1, NoPiece
  <1>3. CASE Answered
    <2>1. Shown(got, From) /\ Len(got) = Size
      BY <1>3 DEF Answered
    <2>2. got = Piece(From, Len(got))
      BY <1>1, <2>1, ShownIsPiece
    <2> QED BY <2>1, <2>2
  <1>4. CASE Failed
    BY <1>4 DEF Failed
  <1>5. CASE Asked
    BY <1>5 DEF Asked
  <1> QED BY <1>2, <1>3, <1>4, <1>5 DEF ReaderInv

\* What a program has received is what the file holds there (ReceivesContent): of a file whose
\* raw blocks are stored whole, or in part where the iterator can tell, and by a reader that is
\* asked once.
THEOREM ReceivesWhatIsThere == ReadingSpec => [](StoredWhole /\ OneCall => ReceivesContent)
  <1>1. ContentInv => (StoredWhole /\ OneCall => ReceivesContent)
    <2> SUFFICES ASSUME ContentInv, StoredWhole, OneCall PROVE ReceivesContent
      OBVIOUS
    <2>1. /\ FrameInv /\ image \in Images /\ FileSize \in Nat
          /\ client.name \in {"stream", "tasks", "pread", "chunks"}
          /\ client.name = "stream" => StreamInv
          /\ client.name = "tasks" => TasksInv
          /\ client.name \in {"pread", "chunks"} => ReaderInv
      BY Places DEF ContentInv, FrameInv
    <2>2. ASSUME Shown(got, 0) PROVE Len(got) <= FileSize /\ got = Piece(0, Len(got))
      <3>1. got = Piece(0, Len(got))
        BY <2>2, ShownIsPiece
      <3>2. Len(got) \in Nat /\ 0 + Len(got) <= FileSize
        BY <2>2 DEF Shown
      <3> QED BY <2>1, <3>1, <3>2
    <2>3. CASE client.name = "stream"
      BY <2>1, <2>2, <2>3 DEF StreamInv, ReceivesContent
    <2>4. CASE client.name = "tasks"
      BY <2>1, <2>4 DEF TasksInv, ReceivesContent
    <2>5. CASE client.name = "pread"
      <3>1. got \in {<<>>, Piece(From, Size)}
        BY <2>1, <2>5, NothingOrAll
      <3>2. Wanted = Piece(From, Size)
        BY <2>5 DEF Wanted, From, Size
      <3> QED BY <2>5, <3>1, <3>2 DEF ReceivesContent
    <2>6. CASE client.name = "chunks"
      <3>1. got = <<>> \/ Shown(got, From)
        BY <2>1, <2>6, NothingOrAll
      <3>2. <<>> \in Seq(Int) /\ Len(<<>>) = 0
        OBVIOUS
      <3>3. Shown(got, 0)
        <4>1. Shown(<<>>, 0)
          BY <2>1, <3>2 DEF Shown
        <4>2. From = 0
          BY <2>6 DEF From
        <4> QED BY <3>1, <4>1, <4>2
      <3> QED BY <2>2, <2>6, <3>3 DEF ReceivesContent
    <2> QED BY <2>1, <2>3, <2>4, <2>5, <2>6
  <1> QED BY <1>1, ContentInvariant, PTL

\* Success means that everything asked for has been received (NothingLeftOut), by the loops, the
\* tasks and the reader alike, for the same files.
THEOREM ReceivesAll == ReadingSpec => [](StoredWhole /\ OneCall => NothingLeftOut)
  <1>1. ContentInv => (StoredWhole /\ OneCall => NothingLeftOut)
    <2> SUFFICES ASSUME ContentInv, StoredWhole, OneCall, rv = "ok" PROVE got = Wanted
      BY DEF NothingLeftOut
    <2>1. /\ FrameInv /\ image \in Images /\ FileSize \in Nat
          /\ client.name \in {"stream", "tasks", "pread", "chunks"}
          /\ client.name = "stream" => StreamInv
          /\ client.name = "tasks" => TasksInv
          /\ client.name \in {"pread", "chunks"} => ReaderInv
      BY Places DEF ContentInv, FrameInv
    <2>2. client.name # "pread" => Wanted = Content
      BY DEF Wanted
    <2>3. CASE client.name = "stream"
      <3>1. Shown(got, 0) /\ Len(got) = FileSize
        BY <2>1, <2>3 DEF StreamInv
      <3>2. got = Piece(0, Len(got))
        BY <3>1, ShownIsPiece
      <3> QED BY <2>1, <2>2, <2>3, <3>1, <3>2, WholePiece
    <2>4. CASE client.name = "tasks"
      <3>1. /\ got \in [1..FileSize -> Int] /\ task * BlockSize >= FileSize
            /\ \A k \in 1..FileSize : k <= task * BlockSize => got[k] = Content[k]
        BY <2>1, <2>4 DEF TasksInv
      <3>2. task * BlockSize \in Nat
        BY <2>1, Multiples DEF FrameInv
      <3>3. \A k \in 1..FileSize : got[k] = Content[k]
        BY <2>1, <3>1, <3>2
      <3>4. Content \in [1..FileSize -> Int]
        BY <2>1, ContentType
      <3>5. Wanted = Content
        BY <2>2, <2>4
      <3>6. got = [k \in 1..FileSize |-> got[k]] /\ Content = [k \in 1..FileSize |-> Content[k]]
        BY <3>1, <3>4
      <3>7. got = Content
        BY <3>3, <3>6
      <3> QED BY <3>5, <3>7
    <2>5. CASE client.name \in {"pread", "chunks"}
      <3>1. got = Piece(From, Size)
        BY <2>1, <2>5, NothingOrAll
      <3>2. CASE client.name = "pread"
        BY <3>1, <3>2 DEF Wanted, From, Size
      <3>3. CASE client.name = "chunks"
        <4>1. From = 0 /\ Size = FileSize
          BY <3>3 DEF From, Size
        <4> QED BY <2>1, <2>2, <3>1, <3>3, <4>1, WholePiece
      <3> QED BY <2>5, <3>2, <3>3
    <2> QED BY <2>1, <2>3, <2>4, <2>5
  <1> QED BY <1>1, ContentInvariant, PTL
=============================================================================
