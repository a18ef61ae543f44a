------------------------- MODULE FileIteratorMt_proofs -------------------------
(***************************************************************************)
(* The proofs about FileIteratorMt, for every number of blocks and of      *)
(* worker threads.  The invariant IInv says who still counts on mt; from   *)
(* it follow the safety of the hand-over and the step simulation of the    *)
(* promise FileJob makes to the caller.                                    *)
(***************************************************************************)
EXTENDS FileIteratorMt, FiniteSetTheorems, TLAPS

\* The blocks that mt->remaining_blocks counts.
OpenBlocks == {b \in Block : task[b] \in Open}

LEMMA BlockFacts ==
    /\ IsFiniteSet(Block)
    /\ Cardinality(Block) = BlockCount
    /\ Block \subseteq Nat
  BY FS_Interval, BlockCountAssumption DEF Block

LEMMA OpenFinite ==
    /\ IsFiniteSet(OpenBlocks)
    /\ Cardinality(OpenBlocks) \in Nat
    /\ Cardinality(OpenBlocks) = 0 => OpenBlocks = {}
    /\ OpenBlocks # {} => Cardinality(OpenBlocks) > 0
  <1>1. IsFiniteSet(OpenBlocks)
    BY BlockFacts, FS_Subset DEF OpenBlocks
  <1>2. Cardinality(OpenBlocks) \in Nat
    BY <1>1, FS_CardinalityType
  <1>3. Cardinality(OpenBlocks) = 0 <=> OpenBlocks = {}
    BY <1>1, FS_EmptySet
  <1> QED BY <1>1, <1>2, <1>3

LEMMA OpenFiniteNext ==
    /\ IsFiniteSet(OpenBlocks')
    /\ Cardinality(OpenBlocks') \in Nat
    /\ Cardinality(OpenBlocks') = 0 => OpenBlocks' = {}
    /\ OpenBlocks' # {} => Cardinality(OpenBlocks') > 0
  <1>1. IsFiniteSet(OpenBlocks')
    BY BlockFacts, FS_Subset DEF OpenBlocks
  <1>2. Cardinality(OpenBlocks') \in Nat
    BY <1>1, FS_CardinalityType
  <1>3. Cardinality(OpenBlocks') = 0 <=> OpenBlocks' = {}
    BY <1>1, FS_EmptySet
  <1> QED BY <1>1, <1>2, <1>3

\* A counter that equals the number of open blocks is positive for a task that counts.
LEMMA CounterFromSet ==
    ASSUME TypeOK', FreedWhenReported', ScheduleOK', CleanupOK',
           alive' /\ main' # "open" => remaining' = Cardinality(OpenBlocks')
    PROVE  CounterExact'
  <1>1. ASSUME NEW b \in Block, task'[b] = "count"
        PROVE  remaining' > 0
    <2>1. alive' /\ main' # "open"
      BY <1>1, BlockFacts DEF FreedWhenReported, ScheduleOK, CleanupOK, FinalCallbackLast, TypeOK
    <2>2. OpenBlocks' # {}
      BY <1>1 DEF OpenBlocks, Open, Running
    <2> QED BY <2>1, <2>2, OpenFiniteNext
  <1> QED BY <1>1 DEF CounterExact, OpenBlocks

LEMMA CallocStep ==
    ASSUME IInv, Calloc
    PROVE  IInv'
  <1> USE BlockFacts, BlockCountAssumption DEF IInv, Calloc
  <1>1. TypeOK'
    BY DEF TypeOK, CounterExact, Open, Running
  <1>2. FreedWhenReported'
    BY DEF FreedWhenReported, ScheduleOK, CleanupOK
  <1>3. ScheduleOK'
    BY DEF TypeOK, ScheduleOK, CleanupOK, ErrorOK, FinalCallbackLast, Open, Running
  <1>4. CleanupOK'
    BY DEF TypeOK, ScheduleOK, CleanupOK, ErrorOK, FinalCallbackLast, Open, Running, CounterExact, FreedWhenReported
  <1>5. ErrorOK'
    BY DEF TypeOK, ScheduleOK, CleanupOK, ErrorOK, FinalCallbackLast, Open, Running
  <1>6. DeliveredOK'
    BY DEF TypeOK, ScheduleOK, DeliveredOK, ErrorOK, Open, Running
  <1>7. NoErrorLost'
    BY DEF TypeOK, NoErrorLost, ScheduleOK, CleanupOK, ErrorOK, DeliveredOK, FinalCallbackLast, Open, Running
  <1>8. OpenBlocks' = OpenBlocks
    BY DEF TypeOK, OpenBlocks, Open, Running
  <1>9. CounterExact'
    BY <1>1, <1>2, <1>3, <1>4, <1>8, CounterFromSet
    DEF CounterExact, OpenBlocks, FreedWhenReported, CleanupOK
  <1> QED BY <1>1, <1>2, <1>3, <1>4, <1>5, <1>6, <1>7, <1>9

LEMMA CallocFailsStep ==
    ASSUME IInv, CallocFails
    PROVE  IInv'
  <1> USE BlockFacts, BlockCountAssumption DEF IInv, CallocFails
  <1>1. TypeOK'
    BY DEF TypeOK, CounterExact, Open, Running
  <1>2. FreedWhenReported'
    BY DEF FreedWhenReported, ScheduleOK, CleanupOK
  <1>3. ScheduleOK'
    BY DEF TypeOK, ScheduleOK, CleanupOK, ErrorOK, FinalCallbackLast, Open, Running
  <1>4. CleanupOK'
    BY DEF TypeOK, ScheduleOK, CleanupOK, DeliveredOK, FinalCallbackLast
  <1>5. ErrorOK'
    BY DEF TypeOK, ScheduleOK, CleanupOK, ErrorOK, FinalCallbackLast, Open, Running
  <1>6. DeliveredOK'
    BY DEF TypeOK, ScheduleOK, DeliveredOK, ErrorOK, Open, Running
  <1>7. NoErrorLost'
    BY DEF TypeOK, NoErrorLost, ScheduleOK, CleanupOK, ErrorOK, DeliveredOK, FinalCallbackLast, Open, Running
  <1>8. OpenBlocks' = OpenBlocks
    BY DEF TypeOK, OpenBlocks, Open, Running
  <1>9. CounterExact'
    BY <1>1, <1>2, <1>3, <1>4, <1>8, CounterFromSet
    DEF CounterExact, OpenBlocks, FreedWhenReported, CleanupOK
  <1> QED BY <1>1, <1>2, <1>3, <1>4, <1>5, <1>6, <1>7, <1>9

LEMMA OpenFileStep ==
    ASSUME NEW ok \in BOOLEAN, IInv, OpenFile(ok)
    PROVE  IInv'
  <1> USE BlockFacts, BlockCountAssumption DEF IInv, OpenFile
  <1>1. \A b \in Block : task[b] = "new"
    BY DEF TypeOK, ScheduleOK
  <1>2. OpenBlocks' = Block
    BY <1>1 DEF OpenBlocks, Open
  <1>3. TypeOK'
    BY DEF TypeOK, CounterExact, Open, Running
  <1>4. FreedWhenReported'
    BY DEF FreedWhenReported, ScheduleOK, CleanupOK
  <1>5. ScheduleOK'
    BY DEF TypeOK, ScheduleOK, CleanupOK, ErrorOK, FinalCallbackLast, Open, Running
  <1>6. CleanupOK'
    BY DEF TypeOK, ScheduleOK, CleanupOK, ErrorOK, FinalCallbackLast, Open, Running, CounterExact, FreedWhenReported
  <1>7. ErrorOK'
    BY DEF TypeOK, ScheduleOK, CleanupOK, ErrorOK, FinalCallbackLast, Open, Running
  <1>8. DeliveredOK'
    BY DEF TypeOK, ScheduleOK, DeliveredOK, ErrorOK, Open, Running
  <1>9. NoErrorLost'
    BY DEF TypeOK, NoErrorLost, ScheduleOK, CleanupOK, ErrorOK, DeliveredOK, FinalCallbackLast, Open, Running
  <1>10. CounterExact'
    BY <1>2, <1>3, <1>4, <1>5, <1>6, CounterFromSet
  <1> QED BY <1>3, <1>4, <1>5, <1>6, <1>7, <1>8, <1>9, <1>10

LEMMA AllocBlocksStep ==
    ASSUME NEW ok \in BOOLEAN, IInv, AllocBlocks(ok)
    PROVE  IInv'
  <1> USE BlockFacts, BlockCountAssumption DEF IInv, AllocBlocks
  <1>1. TypeOK'
    BY DEF TypeOK, CounterExact, Open, Running
  <1>2. FreedWhenReported'
    BY DEF FreedWhenReported, ScheduleOK, CleanupOK
  <1>3. ScheduleOK'
    BY DEF TypeOK, ScheduleOK, CleanupOK, ErrorOK, FinalCallbackLast, Open, Running
  <1>4. CleanupOK'
    BY DEF TypeOK, ScheduleOK, CleanupOK, ErrorOK, FinalCallbackLast, Open, Running, CounterExact, FreedWhenReported
  <1>5. ErrorOK'
    BY DEF TypeOK, ScheduleOK, CleanupOK, ErrorOK, FinalCallbackLast, Open, Running
  <1>6. DeliveredOK'
    BY DEF TypeOK, ScheduleOK, DeliveredOK, ErrorOK, Open, Running
  <1>7. NoErrorLost'
    BY DEF TypeOK, NoErrorLost, ScheduleOK, CleanupOK, ErrorOK, DeliveredOK, FinalCallbackLast, Open, Running
  <1>8. OpenBlocks' = OpenBlocks
    BY DEF TypeOK, OpenBlocks, Open, Running
  <1>9. CounterExact'
    BY <1>1, <1>2, <1>3, <1>4, <1>8, CounterFromSet
    DEF CounterExact, OpenBlocks, FreedWhenReported, CleanupOK
  <1> QED BY <1>1, <1>2, <1>3, <1>4, <1>5, <1>6, <1>7, <1>9

LEMMA ScheduleStep ==
    ASSUME IInv, Schedule
    PROVE  IInv'
  <1> USE BlockFacts, BlockCountAssumption DEF IInv, Schedule
  <1>1. TypeOK'
    BY DEF TypeOK, Block, Open, Running
  <1>2. FreedWhenReported'
    BY DEF FreedWhenReported, ScheduleOK, CleanupOK
  <1>3. ScheduleOK'
    BY DEF TypeOK, ScheduleOK, CleanupOK, ErrorOK, FinalCallbackLast, Open, Running
  <1>4. CleanupOK'
    BY DEF TypeOK, ScheduleOK, CleanupOK, ErrorOK, FinalCallbackLast, Open, Running, CounterExact, FreedWhenReported
  <1>5. ErrorOK'
    BY DEF TypeOK, ScheduleOK, CleanupOK, ErrorOK, FinalCallbackLast, Open, Running
  <1>6. DeliveredOK'
    BY DEF TypeOK, ScheduleOK, DeliveredOK, ErrorOK, Open, Running
  <1>7. NoErrorLost'
    BY DEF TypeOK, NoErrorLost, ScheduleOK, CleanupOK, ErrorOK, DeliveredOK, FinalCallbackLast, Open, Running
  <1>8. OpenBlocks' = OpenBlocks
    BY DEF TypeOK, Block, ScheduleOK, OpenBlocks, Open, Running
  <1>9. CounterExact'
    BY <1>1, <1>2, <1>3, <1>4, <1>8, CounterFromSet
    DEF CounterExact, OpenBlocks, FreedWhenReported, CleanupOK
  <1> QED BY <1>1, <1>2, <1>3, <1>4, <1>5, <1>6, <1>7, <1>9

LEMMA ScheduleFailsStep ==
    ASSUME IInv, ScheduleFails
    PROVE  IInv'
  <1> USE BlockFacts, BlockCountAssumption DEF IInv, ScheduleFails
  <1>1. report = "none"
    BY DEF TypeOK, CleanupOK
  <1>2. next \in OpenBlocks
    BY DEF TypeOK, Block, ScheduleOK, OpenBlocks, Open, ErrorOK
  <1>3. \A b \in Block : task[b] # "cleanup"
    BY <1>1, <1>2, OpenFinite DEF CleanupOK, CounterExact, OpenBlocks, FreedWhenReported
  <1>4. TypeOK'
    BY DEF TypeOK, CounterExact, Open, Running
  <1>5. FreedWhenReported'
    BY DEF FreedWhenReported, ScheduleOK, CleanupOK
  <1>6. ScheduleOK'
    BY DEF TypeOK, ScheduleOK, CleanupOK, ErrorOK, FinalCallbackLast, Open, Running
  <1>7. CleanupOK'
    BY <1>1, <1>3 DEF CleanupOK
  <1>8. ErrorOK'
    BY DEF TypeOK, ScheduleOK, CleanupOK, ErrorOK, FinalCallbackLast, Open, Running
  <1>9. DeliveredOK'
    BY DEF TypeOK, ScheduleOK, DeliveredOK, ErrorOK, Open, Running
  <1>10. NoErrorLost'
    BY DEF TypeOK, NoErrorLost, ScheduleOK, CleanupOK, ErrorOK, DeliveredOK, FinalCallbackLast, Open, Running
  <1>11. OpenBlocks' = OpenBlocks
    BY DEF TypeOK, OpenBlocks, Open, Running
  <1>12. CounterExact'
    BY <1>4, <1>5, <1>6, <1>7, <1>11, CounterFromSet
    DEF CounterExact, OpenBlocks, FreedWhenReported, CleanupOK
  <1> QED BY <1>4, <1>5, <1>6, <1>7, <1>8, <1>9, <1>10, <1>12

LEMMA ReadBlockSizeStep ==
    ASSUME IInv, ReadBlockSize
    PROVE  IInv'
  <1> USE BlockFacts, BlockCountAssumption DEF IInv, ReadBlockSize
  <1>1. TypeOK'
    BY DEF TypeOK, CounterExact, Open, Running
  <1>2. FreedWhenReported'
    BY DEF FreedWhenReported, ScheduleOK, CleanupOK
  <1>3. ScheduleOK'
    BY DEF TypeOK, ScheduleOK, CleanupOK, ErrorOK, FinalCallbackLast, Open, Running
  <1>4. CleanupOK'
    BY DEF TypeOK, ScheduleOK, CleanupOK, ErrorOK, FinalCallbackLast, Open, Running, CounterExact, FreedWhenReported
  <1>5. ErrorOK'
    BY DEF TypeOK, ScheduleOK, CleanupOK, ErrorOK, FinalCallbackLast, Open, Running
  <1>6. DeliveredOK'
    BY DEF TypeOK, ScheduleOK, DeliveredOK, ErrorOK, Open, Running
  <1>7. NoErrorLost'
    BY DEF TypeOK, NoErrorLost, ScheduleOK, CleanupOK, ErrorOK, DeliveredOK, FinalCallbackLast, Open, Running
  <1>8. OpenBlocks' = OpenBlocks
    BY DEF TypeOK, OpenBlocks, Open, Running
  <1>9. CounterExact'
    BY <1>1, <1>2, <1>3, <1>4, <1>8, CounterFromSet
    DEF CounterExact, OpenBlocks, FreedWhenReported, CleanupOK
  <1> QED BY <1>1, <1>2, <1>3, <1>4, <1>5, <1>6, <1>7, <1>9

LEMMA ScheduledAllStep ==
    ASSUME IInv, ScheduledAll
    PROVE  IInv'
  <1> USE BlockFacts, BlockCountAssumption DEF IInv, ScheduledAll
  <1>1. TypeOK'
    BY DEF TypeOK, CounterExact, Open, Running
  <1>2. FreedWhenReported'
    BY DEF FreedWhenReported, ScheduleOK, CleanupOK
  <1>3. ScheduleOK'
    BY DEF TypeOK, ScheduleOK, CleanupOK, ErrorOK, FinalCallbackLast, Open, Running
  <1>4. CleanupOK'
    BY DEF TypeOK, ScheduleOK, CleanupOK, ErrorOK, FinalCallbackLast, Open, Running, CounterExact, FreedWhenReported
  <1>5. ErrorOK'
    BY DEF TypeOK, ScheduleOK, CleanupOK, ErrorOK, FinalCallbackLast, Open, Running
  <1>6. DeliveredOK'
    BY DEF TypeOK, ScheduleOK, DeliveredOK, ErrorOK, Open, Running
  <1>7. NoErrorLost'
    BY DEF TypeOK, NoErrorLost, ScheduleOK, CleanupOK, ErrorOK, DeliveredOK, FinalCallbackLast, Open, Running
  <1>8. OpenBlocks' = OpenBlocks
    BY DEF TypeOK, OpenBlocks, Open, Running
  <1>9. CounterExact'
    BY <1>1, <1>2, <1>3, <1>4, <1>8, CounterFromSet
    DEF CounterExact, OpenBlocks, FreedWhenReported, CleanupOK
  <1> QED BY <1>1, <1>2, <1>3, <1>4, <1>5, <1>6, <1>7, <1>9

LEMMA StoreErrorStep ==
    ASSUME IInv, StoreError
    PROVE  IInv'
  <1> USE BlockFacts, BlockCountAssumption DEF IInv, StoreError
  <1>1. TypeOK'
    BY DEF TypeOK, CounterExact, Open, Running
  <1>2. FreedWhenReported'
    BY DEF FreedWhenReported, ScheduleOK, CleanupOK
  <1>3. ScheduleOK'
    BY DEF TypeOK, ScheduleOK, CleanupOK, ErrorOK, FinalCallbackLast, Open, Running
  <1>4. CleanupOK'
    BY DEF TypeOK, ScheduleOK, CleanupOK, ErrorOK, FinalCallbackLast, Open, Running, CounterExact, FreedWhenReported
  <1>5. ErrorOK'
    BY DEF TypeOK, ScheduleOK, CleanupOK, ErrorOK, FinalCallbackLast, Open, Running
  <1>6. DeliveredOK'
    BY DEF TypeOK, ScheduleOK, DeliveredOK, ErrorOK, Open, Running
  <1>7. NoErrorLost'
    BY DEF TypeOK, NoErrorLost, ScheduleOK, CleanupOK, ErrorOK, DeliveredOK, FinalCallbackLast, Open, Running
  <1>8. OpenBlocks' = OpenBlocks
    BY DEF TypeOK, OpenBlocks, Open, Running
  <1>9. CounterExact'
    BY <1>1, <1>2, <1>3, <1>4, <1>8, CounterFromSet
    DEF CounterExact, OpenBlocks, FreedWhenReported, CleanupOK
  <1> QED BY <1>1, <1>2, <1>3, <1>4, <1>5, <1>6, <1>7, <1>9

LEMMA SettleStep ==
    ASSUME IInv, Settle
    PROVE  IInv'
  <1> USE BlockFacts, BlockCountAssumption DEF IInv, Settle
  <1>1. OpenBlocks' = OpenBlocks \ (next .. BlockCount - 1)
    BY DEF TypeOK, Block, OpenBlocks, Open, Running
  <1>2. (next .. BlockCount - 1) \subseteq OpenBlocks
    BY DEF TypeOK, Block, ScheduleOK, OpenBlocks, Open, Running
  <1>3. Cardinality(next .. BlockCount - 1) = BlockCount - next
    BY FS_Interval DEF TypeOK, ScheduleOK
  <1>4. /\ remaining = Cardinality(OpenBlocks)
        /\ remaining' = Cardinality(OpenBlocks')
    <2>1. remaining = Cardinality(OpenBlocks)
      BY DEF CounterExact, OpenBlocks, ErrorOK, CleanupOK, FreedWhenReported
    <2>2. OpenBlocks \cap (next .. BlockCount - 1) = next .. BlockCount - 1
      BY <1>2
    <2>3. Cardinality(OpenBlocks \ (next .. BlockCount - 1)) =
            Cardinality(OpenBlocks) - Cardinality(OpenBlocks \cap (next .. BlockCount - 1))
      BY OpenFinite, FS_Difference
    <2> QED BY <1>1, <1>3, <2>1, <2>2, <2>3
  <1>5. main' = "cleanup" => OpenBlocks' = {}
    BY <1>4, OpenFiniteNext, OpenFinite DEF TypeOK
  <1>6. TypeOK'
    BY <1>4, OpenFiniteNext DEF TypeOK
  <1>7. FreedWhenReported'
    BY DEF FreedWhenReported, ScheduleOK, CleanupOK
  <1>8. ScheduleOK'
    <2>1. \A b \in Block : task'[b] \in {"new", "skipped"} <=> b >= next'
      BY DEF TypeOK, ScheduleOK, Open, Running
    <2>2. main' = "cleanup" => \A b \in Block : task'[b] \in {"new", "skipped", "done"}
      BY <1>5 DEF TypeOK, CleanupOK, OpenBlocks
    <2> QED BY <2>1, <2>2 DEF TypeOK, ScheduleOK, CleanupOK, ErrorOK
  <1>9. CleanupOK'
    BY DEF TypeOK, ScheduleOK, CleanupOK, ErrorOK, FinalCallbackLast, Open, Running, CounterExact, FreedWhenReported
  <1>10. ErrorOK'
    BY DEF TypeOK, ScheduleOK, CleanupOK, ErrorOK, FinalCallbackLast, Open, Running
  <1>11. DeliveredOK'
    BY DEF TypeOK, ScheduleOK, DeliveredOK, ErrorOK, Open, Running
  <1>12. NoErrorLost'
    BY DEF TypeOK, NoErrorLost, ScheduleOK, CleanupOK, ErrorOK, DeliveredOK, FinalCallbackLast, Open, Running
  <1>13. CounterExact'
    BY <1>4, <1>6, <1>7, <1>8, <1>9, CounterFromSet
  <1> QED BY <1>6, <1>7, <1>8, <1>9, <1>10, <1>11, <1>12, <1>13

LEMMA MainCleanupStep ==
    ASSUME IInv, MainCleanup
    PROVE  IInv'
  <1> USE BlockFacts, BlockCountAssumption DEF IInv, MainCleanup, Cleanup
  <1>1. TypeOK'
    BY DEF TypeOK, CounterExact, Open, Running
  <1>2. FreedWhenReported'
    BY DEF FreedWhenReported, ScheduleOK, CleanupOK
  <1>3. ScheduleOK'
    BY DEF TypeOK, ScheduleOK, CleanupOK, ErrorOK, FinalCallbackLast, Open, Running
  <1>4. CleanupOK'
    BY DEF TypeOK, ScheduleOK, CleanupOK, ErrorOK, FinalCallbackLast, Open, Running, CounterExact, FreedWhenReported
  <1>5. ErrorOK'
    BY DEF TypeOK, ScheduleOK, CleanupOK, ErrorOK, FinalCallbackLast, Open, Running
  <1>6. DeliveredOK'
    BY DEF TypeOK, ScheduleOK, DeliveredOK, ErrorOK, Open, Running
  <1>7. NoErrorLost'
    <2>1. report' = "ok" => ~failed /\ BlockCount = 0
      BY DEF ErrorOK
    <2>2. BlockCount = 0 => Block = {}
      BY DEF Block
    <2> QED BY <2>1, <2>2 DEF NoErrorLost, TypeOK
  <1>8. OpenBlocks' = OpenBlocks
    BY DEF TypeOK, OpenBlocks, Open, Running
  <1>9. CounterExact'
    BY <1>1, <1>2, <1>3, <1>4, <1>8, CounterFromSet
    DEF CounterExact, OpenBlocks, FreedWhenReported, CleanupOK
  <1> QED BY <1>1, <1>2, <1>3, <1>4, <1>5, <1>6, <1>7, <1>9

LEMMA StartStep ==
    ASSUME NEW b \in Block, IInv, Start(b)
    PROVE  IInv'
  <1> USE BlockFacts, BlockCountAssumption DEF IInv, Start
  <1>1. TypeOK'
    BY DEF TypeOK, CounterExact, Open, Running
  <1>2. FreedWhenReported'
    BY DEF FreedWhenReported, ScheduleOK, CleanupOK
  <1>3. ScheduleOK'
    BY DEF TypeOK, ScheduleOK, CleanupOK, ErrorOK, FinalCallbackLast, Open, Running
  <1>4. CleanupOK'
    BY DEF TypeOK, ScheduleOK, CleanupOK, ErrorOK, FinalCallbackLast, Open, Running, CounterExact, FreedWhenReported
  <1>5. ErrorOK'
    BY DEF TypeOK, ScheduleOK, CleanupOK, ErrorOK, FinalCallbackLast, Open, Running
  <1>6. DeliveredOK'
    BY DEF TypeOK, ScheduleOK, DeliveredOK, ErrorOK, Open, Running
  <1>7. NoErrorLost'
    BY DEF TypeOK, NoErrorLost, ScheduleOK, CleanupOK, ErrorOK, DeliveredOK, FinalCallbackLast, Open, Running
  <1>8. OpenBlocks' = OpenBlocks
    BY DEF TypeOK, OpenBlocks, Open, Running
  <1>9. CounterExact'
    BY <1>1, <1>2, <1>3, <1>4, <1>8, CounterFromSet
    DEF CounterExact, OpenBlocks, FreedWhenReported, CleanupOK
  <1> QED BY <1>1, <1>2, <1>3, <1>4, <1>5, <1>6, <1>7, <1>9

LEMMA IterateStep ==
    ASSUME NEW b \in Block, NEW ok \in BOOLEAN, IInv, Iterate(b, ok)
    PROVE  IInv'
  <1> USE BlockFacts, BlockCountAssumption DEF IInv, Iterate
  <1>1. TypeOK'
    BY DEF TypeOK, CounterExact, Open, Running
  <1>2. FreedWhenReported'
    BY DEF FreedWhenReported, ScheduleOK, CleanupOK
  <1>3. ScheduleOK'
    BY DEF TypeOK, ScheduleOK, CleanupOK, ErrorOK, FinalCallbackLast, Open, Running
  <1>4. CleanupOK'
    BY DEF TypeOK, ScheduleOK, CleanupOK, ErrorOK, FinalCallbackLast, Open, Running, CounterExact, FreedWhenReported
  <1>5. ErrorOK'
    <2>1. task'[b] = IF ok THEN "deliver" ELSE "store"
      BY DEF TypeOK
    <2>2. \A c \in Block : task[c] = "store" => task'[c] = "store"
      BY DEF TypeOK
    <2>3. \A c \in Block : task'[c] = "store" => task[c] = "store" \/ (c = b /\ ~ok)
      BY <2>1 DEF TypeOK
    <2>4. failed' /\ report' = "none" => rv' \/ err' \/ \E c \in Block : task'[c] = "store"
      BY <2>1, <2>2 DEF ErrorOK
    <2>5. main \notin {"calloc", "open", "cleanup"}
      BY DEF ScheduleOK, TypeOK
    <2>6. \A c \in Block : task'[c] = "store" => failed'
      BY <2>3 DEF ErrorOK
    <2> QED BY <2>4, <2>5, <2>6 DEF ErrorOK, TypeOK
  <1>6. DeliveredOK'
    BY DEF TypeOK, ScheduleOK, DeliveredOK, ErrorOK, Open, Running
  <1>7. NoErrorLost'
    BY DEF TypeOK, NoErrorLost, ScheduleOK, CleanupOK, ErrorOK, DeliveredOK, FinalCallbackLast, Open, Running
  <1>8. OpenBlocks' = OpenBlocks
    BY DEF TypeOK, OpenBlocks, Open, Running
  <1>9. CounterExact'
    BY <1>1, <1>2, <1>3, <1>4, <1>8, CounterFromSet
    DEF CounterExact, OpenBlocks, FreedWhenReported, CleanupOK
  <1> QED BY <1>1, <1>2, <1>3, <1>4, <1>5, <1>6, <1>7, <1>9

LEMMA DeliverBlockStep ==
    ASSUME NEW b \in Block, NEW ok \in BOOLEAN, IInv, DeliverBlock(b, ok)
    PROVE  IInv'
  <1> USE BlockFacts, BlockCountAssumption DEF IInv, DeliverBlock
  <1>1. TypeOK'
    BY DEF TypeOK, CounterExact, Open, Running
  <1>2. FreedWhenReported'
    BY DEF FreedWhenReported, ScheduleOK, CleanupOK
  <1>3. ScheduleOK'
    BY DEF TypeOK, ScheduleOK, CleanupOK, ErrorOK, FinalCallbackLast, Open, Running
  <1>4. CleanupOK'
    BY DEF TypeOK, ScheduleOK, CleanupOK, ErrorOK, FinalCallbackLast, Open, Running, CounterExact, FreedWhenReported
  <1>5. ErrorOK'
    BY DEF TypeOK, ScheduleOK, CleanupOK, ErrorOK, FinalCallbackLast, Open, Running
  <1>6. DeliveredOK'
    BY DEF TypeOK, ScheduleOK, DeliveredOK, ErrorOK, Open, Running
  <1>7. NoErrorLost'
    BY DEF TypeOK, NoErrorLost, ScheduleOK, CleanupOK, ErrorOK, DeliveredOK, FinalCallbackLast, Open, Running
  <1>8. OpenBlocks' = OpenBlocks
    BY DEF TypeOK, OpenBlocks, Open, Running
  <1>9. CounterExact'
    BY <1>1, <1>2, <1>3, <1>4, <1>8, CounterFromSet
    DEF CounterExact, OpenBlocks, FreedWhenReported, CleanupOK
  <1> QED BY <1>1, <1>2, <1>3, <1>4, <1>5, <1>6, <1>7, <1>9

LEMMA StoreTaskErrorStep ==
    ASSUME NEW b \in Block, IInv, StoreTaskError(b)
    PROVE  IInv'
  <1> USE BlockFacts, BlockCountAssumption DEF IInv, StoreTaskError
  <1>1. TypeOK'
    BY DEF TypeOK, CounterExact, Open, Running
  <1>2. FreedWhenReported'
    BY DEF FreedWhenReported, ScheduleOK, CleanupOK
  <1>3. ScheduleOK'
    BY DEF TypeOK, ScheduleOK, CleanupOK, ErrorOK, FinalCallbackLast, Open, Running
  <1>4. CleanupOK'
    BY DEF TypeOK, ScheduleOK, CleanupOK, ErrorOK, FinalCallbackLast, Open, Running, CounterExact, FreedWhenReported
  <1>5. ErrorOK'
    BY DEF TypeOK, ScheduleOK, CleanupOK, ErrorOK, FinalCallbackLast, Open, Running
  <1>6. DeliveredOK'
    BY DEF TypeOK, ScheduleOK, DeliveredOK, ErrorOK, Open, Running
  <1>7. NoErrorLost'
    BY DEF TypeOK, NoErrorLost, ScheduleOK, CleanupOK, ErrorOK, DeliveredOK, FinalCallbackLast, Open, Running
  <1>8. OpenBlocks' = OpenBlocks
    BY DEF TypeOK, OpenBlocks, Open, Running
  <1>9. CounterExact'
    BY <1>1, <1>2, <1>3, <1>4, <1>8, CounterFromSet
    DEF CounterExact, OpenBlocks, FreedWhenReported, CleanupOK
  <1> QED BY <1>1, <1>2, <1>3, <1>4, <1>5, <1>6, <1>7, <1>9

LEMMA CountDownStep ==
    ASSUME NEW b \in Block, IInv, CountDown(b)
    PROVE  IInv'
  <1> USE BlockFacts, BlockCountAssumption DEF IInv, CountDown
  <1>1. OpenBlocks' = OpenBlocks \ {b} /\ b \in OpenBlocks
    BY DEF TypeOK, OpenBlocks, Open, Running
  <1>2. alive /\ main # "open" /\ report = "none"
    BY DEF TypeOK, FreedWhenReported, ScheduleOK, CleanupOK, FinalCallbackLast
  <1>3. /\ remaining = Cardinality(OpenBlocks)
        /\ remaining' = Cardinality(OpenBlocks')
        /\ remaining > 0
    <2>1. remaining = Cardinality(OpenBlocks)
      BY <1>2 DEF CounterExact, OpenBlocks
    <2>2. Cardinality(OpenBlocks') = Cardinality(OpenBlocks) - 1
      BY <1>1, OpenFinite, FS_RemoveElement
    <2> QED BY <1>1, <2>1, <2>2, OpenFinite
  <1>4. remaining = 1 => OpenBlocks' = {}
    BY <1>3, OpenFiniteNext DEF TypeOK
  <1>5. remaining = 1 => main \in {"schedule", "size", "returned"}
    <2>1. main \in {"error", "settle"} => next \in OpenBlocks /\ next # b
      BY DEF TypeOK, Block, ScheduleOK, OpenBlocks, Open, Running
    <2>2. main \notin {"calloc", "open", "blocks", "cleanup"}
      BY DEF TypeOK, ScheduleOK
    <2> QED BY <1>1, <1>4, <2>1, <2>2 DEF TypeOK
  <1>6. TypeOK'
    BY <1>3, OpenFiniteNext DEF TypeOK
  <1>7. FreedWhenReported'
    BY DEF FreedWhenReported, ScheduleOK, CleanupOK
  <1>8. ScheduleOK'
    BY DEF TypeOK, ScheduleOK, CleanupOK, ErrorOK, FinalCallbackLast, Open, Running
  <1>9. CleanupOK'
    <2>1. \A c \in Block : task[c] # "cleanup"
      BY <1>3 DEF CleanupOK
    <2>2. \A c \in Block : task'[c] = "cleanup" => c = b /\ remaining = 1
      BY <2>1 DEF TypeOK
    <2> QED BY <1>2, <1>5, <2>2 DEF CleanupOK, TypeOK
  <1>10. ErrorOK'
    BY DEF TypeOK, ScheduleOK, CleanupOK, ErrorOK, FinalCallbackLast, Open, Running
  <1>11. DeliveredOK'
    BY DEF TypeOK, ScheduleOK, DeliveredOK, ErrorOK, Open, Running
  <1>12. NoErrorLost'
    BY DEF TypeOK, NoErrorLost, ScheduleOK, CleanupOK, ErrorOK, DeliveredOK, FinalCallbackLast, Open, Running
  <1>13. CounterExact'
    BY <1>3, <1>6, <1>7, <1>8, <1>9, CounterFromSet
  <1> QED BY <1>6, <1>7, <1>8, <1>9, <1>10, <1>11, <1>12, <1>13

LEMMA TaskCleanupStep ==
    ASSUME NEW b \in Block, IInv, TaskCleanup(b)
    PROVE  IInv'
  <1> USE BlockFacts, BlockCountAssumption DEF IInv, TaskCleanup, Cleanup
  <1>1. remaining = 0 /\ report = "none" /\ main \in {"schedule", "size", "returned"}
    BY DEF CleanupOK
  <1>2. OpenBlocks = {}
    BY <1>1, OpenFinite DEF CounterExact, OpenBlocks, FreedWhenReported
  <1>3. \A c \in Block : task'[c] \in {"skipped", "done"} /\ task[c] # "store"
    BY <1>2 DEF TypeOK, CleanupOK, OpenBlocks, Open, Running
  <1>4. main \in {"schedule", "size"} => next = BlockCount
    BY <1>2 DEF TypeOK, Block, ScheduleOK, OpenBlocks, ErrorOK, Open
  <1>5. TypeOK'
    BY DEF TypeOK, CounterExact, Open, Running
  <1>6. FreedWhenReported'
    BY DEF FreedWhenReported, ScheduleOK, CleanupOK
  <1>7. ScheduleOK'
    BY DEF TypeOK, ScheduleOK, CleanupOK, ErrorOK, FinalCallbackLast, Open, Running
  <1>8. CleanupOK'
    BY <1>1, <1>3, <1>4 DEF CleanupOK, FinalCallbackLast
  <1>9. ErrorOK'
    BY DEF TypeOK, ScheduleOK, CleanupOK, ErrorOK, FinalCallbackLast, Open, Running
  <1>10. DeliveredOK'
    BY DEF TypeOK, ScheduleOK, DeliveredOK, ErrorOK, Open, Running
  <1>11. NoErrorLost'
    <2>1. report' = "ok" => ~failed
      BY <1>1, <1>3 DEF ErrorOK
    <2>2. ~failed => \A c \in Block : task[c] \in {"cleanup", "done"}
      BY <1>2 DEF TypeOK, ScheduleOK, ErrorOK, OpenBlocks
    <2> QED BY <2>1, <2>2 DEF NoErrorLost, DeliveredOK, TypeOK
  <1>12. OpenBlocks' = OpenBlocks
    BY DEF TypeOK, OpenBlocks, Open, Running
  <1>13. CounterExact'
    BY <1>5, <1>6, <1>7, <1>8, <1>12, CounterFromSet
    DEF CounterExact, OpenBlocks, FreedWhenReported, CleanupOK
  <1> QED BY <1>5, <1>6, <1>7, <1>8, <1>9, <1>10, <1>11, <1>13

-----------------------------------------------------------------------------
(* The theorems *)

LEMMA InitIInv == Init => IInv
  <1> SUFFICES ASSUME Init PROVE IInv
    OBVIOUS
  <1> USE BlockFacts, BlockCountAssumption DEF Init
  <1>1. TypeOK
    <2>1. task \in [Block -> Open \cup {"skipped", "cleanup", "done"}]
      BY DEF Open
    <2>2. next \in 0..BlockCount /\ remaining \in Nat /\ delivered \subseteq Block
      OBVIOUS
    <2> QED BY <2>1, <2>2 DEF TypeOK
  <1>2. FreedWhenReported /\ CounterExact /\ NoErrorLost
    BY DEF FreedWhenReported, CounterExact, NoErrorLost
  <1>3. ScheduleOK /\ CleanupOK
    BY DEF ScheduleOK, CleanupOK
  <1>4. ErrorOK /\ DeliveredOK
    BY DEF ErrorOK, DeliveredOK
  <1> QED BY <1>1, <1>2, <1>3, <1>4 DEF IInv

LEMMA NextIInv == IInv /\ [Next]_vars => IInv'
  <1> SUFFICES ASSUME IInv, [Next]_vars PROVE IInv'
    OBVIOUS
  <1>1. CASE Main
    BY <1>1, CallocStep, CallocFailsStep, OpenFileStep, AllocBlocksStep, ScheduleStep,
       ScheduleFailsStep, ReadBlockSizeStep, ScheduledAllStep, StoreErrorStep, SettleStep,
       MainCleanupStep DEF Main
  <1>2. CASE \E b \in Block : Task(b)
    BY <1>2, StartStep, IterateStep, DeliverBlockStep, StoreTaskErrorStep, CountDownStep,
       TaskCleanupStep DEF Task
  <1>3. CASE UNCHANGED vars
    BY <1>3 DEF vars, IInv, TypeOK, FreedWhenReported, CounterExact, ScheduleOK, CleanupOK,
       ErrorOK, DeliveredOK, NoErrorLost, FinalCallbackLast
  <1> QED BY <1>1, <1>2, <1>3 DEF Next

\* The invariant holds in every reachable state.
THEOREM Invariance == Spec => []IInv
  BY InitIInv, NextIInv, PTL DEF Spec

\* Every variable keeps its type; in particular the counter never goes below zero.
THEOREM TypeCorrect == Spec => []TypeOK
  <1>1. IInv => TypeOK
    BY DEF IInv
  <1> QED BY <1>1, Invariance, PTL

\* mt->remaining_blocks counts the blocks that nobody has accounted for, so that the
\* assertion of iterator_worker holds and exactly one thread sees it reach zero.
THEOREM CountsExact == Spec => []CounterExact
  <1>1. IInv => CounterExact
    BY DEF IInv
  <1> QED BY <1>1, Invariance, PTL

\* No task, and no cleanup or settlement of the caller, touches mt after it was freed.
THEOREM NoUseAfterFree == Spec => []TasksUseLiveMt
  <1>1. IInv => TasksUseLiveMt
    BY BlockFacts DEF IInv, TypeOK, TasksUseLiveMt, FreedWhenReported, ScheduleOK, CleanupOK,
       FinalCallbackLast, Running
  <1> QED BY <1>1, Invariance, PTL

\* When the final callback is made, no block is being worked on or will be.
THEOREM NothingAfterReport == Spec => []FinalCallbackLast
  <1>1. IInv => FinalCallbackLast
    BY DEF IInv, CleanupOK, FinalCallbackLast
  <1> QED BY <1>1, Invariance, PTL

\* "ok" is only reported when nothing failed and every block was delivered.
THEOREM ErrorsReported == Spec => []NoErrorLost
  <1>1. IInv => NoErrorLost
    BY DEF IInv
  <1> QED BY <1>1, Invariance, PTL

\* A step of the implementation is a step of the promise, or a stutter.
LEMMA StepSimulation ==
    ASSUME IInv, IInv', [Next]_vars
    PROVE  [Promise!Next]_(Promise!vars)
  <1> USE DEF Promise!Next, Promise!vars, Promise!Deliver, Promise!Succeed, Promise!Fail,
          Promise!Refuse, Promise!Block
  <1>1. ASSUME NEW b \in Block, NEW ok \in BOOLEAN, DeliverBlock(b, ok)
        PROVE  \E c \in Promise!Block : Promise!Deliver(c)
    <2>1. b \notin delivered
      BY <1>1 DEF IInv, DeliveredOK, DeliverBlock
    <2>2. report = "none"
      BY <1>1 DEF IInv, CleanupOK, FinalCallbackLast, DeliverBlock
    <2> QED BY <1>1, <2>1, <2>2 DEF DeliverBlock, Block
  <1>2. CASE CallocFails
    <2>1. report = "none" /\ delivered = {}
      BY <1>2, BlockFacts DEF IInv, TypeOK, CallocFails, ScheduleOK, DeliveredOK
    <2> QED BY <1>2, <2>1 DEF CallocFails
  <1>3. ASSUME report = "none", report' \in {"ok", "error"}, delivered' = delivered
        PROVE  Promise!Succeed \/ Promise!Fail
    BY <1>3 DEF IInv, NoErrorLost, Block
  <1>4. CASE MainCleanup
    <2>1. report = "none"
      BY <1>4 DEF IInv, CleanupOK, MainCleanup
    <2> QED BY <1>3, <1>4, <2>1 DEF MainCleanup, Cleanup
  <1>5. ASSUME NEW b \in Block, TaskCleanup(b)
        PROVE  Promise!Succeed \/ Promise!Fail
    <2>1. report = "none"
      BY <1>5 DEF IInv, CleanupOK, TaskCleanup
    <2> QED BY <1>3, <1>5, <2>1 DEF TaskCleanup, Cleanup
  <1>6. CASE \/ Calloc \/ \E ok \in BOOLEAN : OpenFile(ok) \/ AllocBlocks(ok)
             \/ Schedule \/ ScheduleFails \/ ReadBlockSize \/ ScheduledAll
             \/ StoreError \/ Settle
    BY <1>6 DEF Calloc, OpenFile, AllocBlocks, Schedule, ScheduleFails, ReadBlockSize,
       ScheduledAll, StoreError, Settle
  <1>7. CASE \E b \in Block : \/ Start(b) \/ \E ok \in BOOLEAN : Iterate(b, ok)
                              \/ StoreTaskError(b) \/ CountDown(b)
    BY <1>7 DEF Start, Iterate, StoreTaskError, CountDown
  <1>8. CASE UNCHANGED vars
    BY <1>8 DEF vars
  <1> QED BY <1>1, <1>2, <1>4, <1>5, <1>6, <1>7, <1>8 DEF Next, Main, Task

\* The safety part of PromiseKept, for every number of blocks and workers: the calls
\* implement FileJob.  (That the report is made eventually is left to TLC.)
THEOREM KeepsPromise == Spec => Promise!Init /\ [][Promise!Next]_(Promise!vars)
  <1>1. Init => Promise!Init
    BY DEF Init, Promise!Init
  <1>2. IInv /\ IInv' /\ [Next]_vars => [Promise!Next]_(Promise!vars)
    BY StepSimulation
  <1> QED BY <1>1, <1>2, Invariance, PTL DEF Spec
================================================================================
