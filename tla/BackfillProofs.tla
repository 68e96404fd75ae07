--------------------------- MODULE BackfillProofs ---------------------------
(***************************************************************************)
(* Proofs about Backfill, for every start block, window size, word size,   *)
(* chain and number of crashes.  The safety results need no assumption     *)
(* that the window arithmetic does not wrap: a wrapped window is refused   *)
(* by the node, so it costs progress, never a pool.                        *)
(***************************************************************************)
EXTENDS Backfill, TLAPS

(* The cursor and the completion flag that the storage encodes. *)
LEMMA CursorType ==
    ASSUME meta \in Metadata \cup {None}
    PROVE  Cursor \in Nat /\ Complete \in BOOLEAN
BY ConfigAssumption, NoneAssumption
   DEF Cursor, Complete, ParseMetadata, Metadata

(* A window that is not refused ends at or before the target (ToBlock). *)
LEMMA ToBlockBound ==
    ASSUME NEW from \in Nat, NEW target \in Block
    PROVE  ToBlock(from, target) \in Nat /\ ToBlock(from, target) <= target
<1>1. target \in Nat
  BY ConfigAssumption DEF Block
<1>2. (from + MaxBlockRangePerScan - 1) % Modulus \in Nat
  BY ConfigAssumption
<1>. QED
  BY <1>1, <1>2 DEF ToBlock, Minimum

(* Decoding a window that ends at the chain yields exactly its pools. *)
LEMMA DecodedIsPools ==
    ASSUME chain \in [Block -> LogKind], NEW from \in Nat, NEW to \in Block
    PROVE  Decoded(from, to) = Pools(from, to)
BY ConfigAssumption DEF Decoded, Pools, Block

LEMMA InitInv == Init => ScanInv
<1> SUFFICES ASSUME Init PROVE ScanInv
  OBVIOUS
<1>1. Cursor = StartBlock /\ Complete = FALSE
  BY NoneAssumption DEF Init, Cursor, Complete, ParseMetadata
<1>2. TypeOK
  BY ConfigAssumption DEF Init, TypeOK, NoReply, Reply
<1>3. CursorBehindStore
  BY <1>1, ConfigAssumption DEF CursorBehindStore, Pools, Block
<1>4. OnlyPoolsStored
  BY DEF Init, OnlyPoolsStored
<1>5. ReplyOK
  BY DEF Init, ReplyOK
<1>6. TargetOK
  BY <1>1, ConfigAssumption DEF Init, TargetOK
<1>. QED
  BY <1>2, <1>3, <1>4, <1>5, <1>6 DEF ScanInv

(* What does not depend on the reply, the phase or the target is kept by   *)
(* every outcome of a Backfill call.                                       *)
LEMMA ReturnKeeps ==
    ASSUME ScanInv, NEW r \in Reply, Return(r),
           targetHead' \in Block \cup {None}
    PROVE  /\ TypeOK' /\ CursorBehindStore' /\ OnlyPoolsStored'
           /\ Cursor' = Cursor /\ Complete' = Complete
<1>1. /\ chain' = chain /\ head' = head /\ meta' = meta /\ store' = store
      /\ crashes' = crashes /\ phase' = "replied" /\ reply' = r
  BY DEF Return
<1>2. Cursor' = Cursor /\ Complete' = Complete
  BY <1>1 DEF Cursor, Complete, ParseMetadata
<1>3. TypeOK'
  BY <1>1 DEF ScanInv, TypeOK
<1>4. CursorBehindStore' /\ OnlyPoolsStored'
  BY <1>1, <1>2 DEF ScanInv, CursorBehindStore, OnlyPoolsStored, Pools
<1>. QED
  BY <1>2, <1>3, <1>4

LEMMA NextInv == ScanInv /\ [Next]_vars => ScanInv'
<1> SUFFICES ASSUME ScanInv, [Next]_vars PROVE ScanInv'
  OBVIOUS
<1>a. TypeOK /\ CursorBehindStore /\ OnlyPoolsStored /\ ReplyOK /\ TargetOK
  BY DEF ScanInv
<1>b. Cursor \in Nat /\ Complete \in BOOLEAN /\ Block \subseteq Nat
  BY <1>a, CursorType, ConfigAssumption DEF TypeOK, Block
<1>c. Targets \subseteq Block /\ \A t \in Targets : t <= head
  BY <1>a, <1>b, ConfigAssumption DEF Targets, TypeOK, TargetOK, Block
<1>d. None \notin Block
  BY <1>b, NoneAssumption
<1>e. Failure \in Reply /\ Nothing \in Reply /\ NoReply \in Reply
  BY <1>a DEF TypeOK, Failure, Nothing, NoReply, Reply
<1>1. CASE BackfillAlreadyDone
  <2>1. Return(Nothing) /\ targetHead' = targetHead /\ Complete
    BY <1>1 DEF BackfillAlreadyDone
  <2>2. TypeOK' /\ CursorBehindStore' /\ OnlyPoolsStored'
        /\ Cursor' = Cursor /\ Complete' = Complete
    BY <2>1, <1>a, <1>e, ReturnKeeps DEF TypeOK
  <2>3. NothingLeft'
    BY <2>1, <2>2 DEF NothingLeft, Return, Nothing
  <2>4. ReplyOK'
    BY <2>1, <2>3 DEF ReplyOK, Return
  <2>5. TargetOK'
    BY <2>1, <2>2, <1>a DEF TargetOK, Return
  <2>. QED
    BY <2>2, <2>4, <2>5 DEF ScanInv
<1>2. CASE BackfillHeadError
  <2>1. Return(Failure) /\ targetHead' = targetHead
    BY <1>2 DEF BackfillHeadError
  <2>2. TypeOK' /\ CursorBehindStore' /\ OnlyPoolsStored'
        /\ Cursor' = Cursor /\ Complete' = Complete
    BY <2>1, <1>a, <1>e, ReturnKeeps DEF TypeOK
  <2>3. ReplyOK'
    BY <2>1 DEF ReplyOK, Return, Failure
  <2>4. TargetOK'
    BY <2>1, <2>2, <1>a DEF TargetOK, Return
  <2>. QED
    BY <2>2, <2>3, <2>4 DEF ScanInv
<1>3. CASE BackfillPastTarget
  <2>1. PICK target \in Targets : Cursor > target /\ targetHead' = target
    BY <1>3 DEF BackfillPastTarget
  <2>2. Return(Nothing) /\ ~Complete
    BY <1>3 DEF BackfillPastTarget
  <2>3. TypeOK' /\ CursorBehindStore' /\ OnlyPoolsStored'
        /\ Cursor' = Cursor /\ Complete' = Complete
    BY <2>1, <2>2, <1>c, <1>e, ReturnKeeps
  <2>4. targetHead' # None /\ targetHead' <= head' /\ Cursor' > targetHead'
    BY <2>1, <2>2, <2>3, <1>c, <1>d DEF Return
  <2>5. NothingLeft'
    BY <2>2, <2>3, <2>4 DEF NothingLeft, Return, Nothing
  <2>6. ReplyOK'
    BY <2>2, <2>5 DEF ReplyOK, Return
  <2>7. TargetOK'
    BY <2>3, <2>4, <1>a DEF TargetOK
  <2>. QED
    BY <2>3, <2>6, <2>7 DEF ScanInv
<1>4. CASE BackfillScanError
  <2>1. PICK target \in Targets : targetHead' = target
    BY <1>4 DEF BackfillScanError
  <2>2. Return(Failure) /\ ~Complete
    BY <1>4 DEF BackfillScanError
  <2>3. TypeOK' /\ CursorBehindStore' /\ OnlyPoolsStored'
        /\ Cursor' = Cursor /\ Complete' = Complete
    BY <2>1, <2>2, <1>c, <1>e, ReturnKeeps
  <2>4. ReplyOK'
    BY <2>2 DEF ReplyOK, Return, Failure
  <2>5. TargetOK'
    BY <2>1, <2>2, <2>3, <1>a, <1>c DEF TargetOK, Return
  <2>. QED
    BY <2>3, <2>4, <2>5 DEF ScanInv
<1>5. CASE BackfillScan
  <2>1. PICK target \in Targets :
           LET to == ToBlock(Cursor, target)
           IN  /\ Cursor <= to
               /\ targetHead' = target
               /\ Return([pools |-> Decoded(Cursor, to),
                          meta  |-> Advanced(to, target),
                          done  |-> to >= target,
                          ok    |-> TRUE])
    BY <1>5 DEF BackfillScan
  <2> DEFINE to == ToBlock(Cursor, target)
             r == [pools |-> Pools(Cursor, to),
                   meta  |-> [lastScannedBlock |-> to + 1, done |-> to = target],
                   done  |-> to = target,
                   ok    |-> TRUE]
  <2>2. target \in Block /\ target \in Nat /\ target <= head
    BY <1>b, <1>c
  <2>3. to \in Nat /\ to <= target
    BY <2>2, <1>b, ToBlockBound
  <2>4. to \in Block
    BY <2>2, <2>3, ConfigAssumption DEF Block
  <2>5. Decoded(Cursor, to) = Pools(Cursor, to)
    BY <2>4, <1>a, <1>b, DecodedIsPools DEF TypeOK
  <2> HIDE DEF to
  <2>6. Advanced(to, target) = [lastScannedBlock |-> to + 1, done |-> to = target]
        /\ (to >= target) = (to = target)
    <3>1. to + 1 \in Nat /\ to + 1 < Modulus /\ Modulus \in Nat \ {0}
      BY <2>3, <2>4, ConfigAssumption DEF Block
    <3>2. (to + 1) % Modulus = to + 1
      BY <3>1
    <3> QED
      BY <2>2, <2>3, <3>2 DEF Advanced
  <2>7. Return(r) /\ ~Complete /\ targetHead' = target /\ Cursor <= to
    BY <2>1, <2>5, <2>6, <1>5 DEF BackfillScan, to
  <2>8. r \in Reply
    <3>1. Pools(Cursor, to) \in SUBSET Nat
      BY <1>b DEF Pools
    <3>2. PICK last \in BOOLEAN : last = (to = target)
      OBVIOUS
    <3>3. [lastScannedBlock |-> to + 1, done |-> last] \in Metadata
      BY <2>3 DEF Metadata
    <3>. QED
      BY <3>1, <3>2, <3>3 DEF Reply
  <2>9. TypeOK' /\ CursorBehindStore' /\ OnlyPoolsStored'
        /\ Cursor' = Cursor /\ Complete' = Complete
    BY <2>2, <2>7, <2>8, ReturnKeeps
  <2>10. targetHead' # None /\ targetHead' <= head'
    BY <2>2, <2>7, <1>d DEF Return
  <2>11. reply' = r /\ phase' = "replied" /\ chain' = chain
    BY <2>7 DEF Return
  <2>12. NextWindow'
    BY <2>3, <2>4, <2>7, <2>9, <2>10, <2>11 DEF NextWindow, Pools
  <2>13. ReplyOK'
    BY <2>11, <2>12 DEF ReplyOK
  <2>14. TargetOK'
    BY <2>7, <2>9, <2>10, <2>11, <1>a DEF TargetOK
  <2>. QED
    BY <2>9, <2>13, <2>14 DEF ScanInv
<1>6. CASE CallerRetries
  <2>1. /\ chain' = chain /\ head' = head /\ targetHead' = targetHead
        /\ meta' = meta /\ store' = store /\ crashes' = crashes
        /\ phase' = "idle" /\ reply' = NoReply
    BY <1>6 DEF CallerRetries
  <2>2. Cursor' = Cursor /\ Complete' = Complete
    BY <2>1 DEF Cursor, Complete, ParseMetadata
  <2>3. TypeOK'
    BY <2>1, <1>a, <1>e DEF TypeOK
  <2>4. CursorBehindStore' /\ OnlyPoolsStored'
    BY <2>1, <2>2, <1>a DEF CursorBehindStore, OnlyPoolsStored, Pools
  <2>5. ReplyOK' /\ TargetOK'
    BY <2>1, <2>2, <1>a DEF ReplyOK, TargetOK
  <2>. QED
    BY <2>3, <2>4, <2>5 DEF ScanInv
<1>7. CASE CallerSavesPools
  <2>1. /\ chain' = chain /\ head' = head /\ targetHead' = targetHead
        /\ meta' = meta /\ reply' = reply /\ crashes' = crashes
        /\ phase' = "saved" /\ store' = store \cup reply.pools
        /\ phase = "replied" /\ reply.ok
    BY <1>7 DEF CallerSavesPools
  <2>2. Cursor' = Cursor /\ Complete' = Complete
    BY <2>1 DEF Cursor, Complete, ParseMetadata
  <2>3. NothingLeft \/ NextWindow
    BY <2>1, <1>a DEF ReplyOK
  <2>4. reply.pools \subseteq Pools(StartBlock, head)
    <3>1. CASE NothingLeft
      BY <3>1 DEF NothingLeft
    <3>2. CASE NextWindow
      BY <3>2, <1>a, <1>b, ConfigAssumption
         DEF NextWindow, TargetOK, TypeOK, Pools, Block
    <3>. QED
      BY <2>3, <3>1, <3>2
  <2>5. TypeOK'
    BY <2>1, <2>4, <1>a DEF TypeOK, Pools
  <2>6. CursorBehindStore' /\ OnlyPoolsStored'
    BY <2>1, <2>2, <2>4, <1>a DEF CursorBehindStore, OnlyPoolsStored, Pools
  <2>7. (NothingLeft \/ NextWindow)'
    BY <2>1, <2>2, <2>3 DEF NothingLeft, NextWindow, Pools
  <2>8. ReplyOK'
    BY <2>1, <2>7 DEF ReplyOK
  <2>9. TargetOK'
    BY <2>1, <2>2, <1>a DEF TargetOK
  <2>. QED
    BY <2>5, <2>6, <2>8, <2>9 DEF ScanInv
<1>8. CASE CallerSavesMetadata
  <2>1. /\ chain' = chain /\ head' = head /\ targetHead' = targetHead
        /\ meta' = reply.meta /\ reply' = NoReply /\ crashes' = crashes
        /\ store' = store /\ phase = "saved"
        /\ phase' = IF reply.done THEN "stopped" ELSE "idle"
    BY <1>8 DEF CallerSavesMetadata
  <2>2. (NothingLeft \/ NextWindow) /\ reply.pools \subseteq store
    BY <2>1, <1>a DEF ReplyOK
  <2>3. TypeOK'
    BY <2>1, <1>a, <1>e DEF TypeOK, Reply
  <2>4. OnlyPoolsStored' /\ ReplyOK'
    BY <2>1, <1>a DEF OnlyPoolsStored, Pools, ReplyOK
  <2>5. CASE NothingLeft
    <3>1. Cursor' = Cursor /\ Complete' = Complete
      BY <2>1, <2>5 DEF NothingLeft, Cursor, Complete, ParseMetadata
    <3>2. CursorBehindStore'
      BY <2>1, <3>1, <1>a DEF CursorBehindStore, Pools
    <3>3. TargetOK'
      BY <2>1, <2>5, <3>1, <1>a DEF NothingLeft, TargetOK
    <3>. QED
      BY <2>3, <2>4, <3>2, <3>3 DEF ScanInv
  <2>6. CASE NextWindow
    <3>1. PICK to \in Block :
             /\ Cursor <= to /\ to <= targetHead
             /\ reply.pools = Pools(Cursor, to)
             /\ reply.meta = [lastScannedBlock |-> to + 1, done |-> to = targetHead]
             /\ reply.done = (to = targetHead)
      BY <2>6 DEF NextWindow
    <3>2. Cursor' = to + 1 /\ Complete' = (to = targetHead)
      <4>1. PICK last \in BOOLEAN : last = (to = targetHead)
        OBVIOUS
      <4>2. meta' = [lastScannedBlock |-> to + 1, done |-> last]
        BY <2>1, <3>1, <4>1
      <4>3. meta' # None
        BY <4>2, <1>b, NoneAssumption DEF Metadata
      <4>. QED
        BY <4>1, <4>2, <4>3 DEF Cursor, Complete, ParseMetadata
    <3>3. CursorBehindStore'
      <4>1. Pools(StartBlock, to) \subseteq
               Pools(StartBlock, Cursor - 1) \cup Pools(Cursor, to)
        <5> SUFFICES ASSUME NEW b \in Pools(StartBlock, to)
                     PROVE  b \in Pools(StartBlock, Cursor - 1)
                            \/ b \in Pools(Cursor, to)
          OBVIOUS
        <5>1. b \in Block /\ b \in Nat /\ StartBlock <= b /\ b <= to
              /\ chain[b] = "pool"
          BY <1>b DEF Pools
        <5>2. b <= Cursor - 1 \/ Cursor <= b
          BY <5>1, <1>b
        <5>. QED
          BY <5>1, <5>2 DEF Pools
      <4>2. Pools(StartBlock, to) \subseteq store
        BY <4>1, <2>2, <3>1, <1>a DEF CursorBehindStore
      <4>3. Cursor' - 1 = to
        BY <3>2, <1>b
      <4>. QED
        BY <4>2, <4>3, <2>1 DEF CursorBehindStore, Pools
    <3>4. TargetOK'
      BY <2>1, <3>1, <3>2, <1>a, <1>b, ConfigAssumption
         DEF TargetOK, TypeOK
    <3>. QED
      BY <2>3, <2>4, <3>3, <3>4 DEF ScanInv
  <2>. QED
    BY <2>2, <2>5, <2>6
<1>9. CASE Crash
  <2>1. /\ chain' = chain /\ head' = head /\ targetHead' = None
        /\ meta' = meta /\ store' = store /\ crashes' = crashes + 1
        /\ phase' = "idle" /\ reply' = NoReply
    BY <1>9 DEF Crash
  <2>2. Cursor' = Cursor /\ Complete' = Complete
    BY <2>1 DEF Cursor, Complete, ParseMetadata
  <2>3. TypeOK'
    BY <2>1, <1>a, <1>e DEF TypeOK
  <2>4. CursorBehindStore' /\ OnlyPoolsStored'
    BY <2>1, <2>2, <1>a DEF CursorBehindStore, OnlyPoolsStored, Pools
  <2>5. ReplyOK' /\ TargetOK'
    BY <2>1, <2>2, <1>a DEF ReplyOK, TargetOK
  <2>. QED
    BY <2>3, <2>4, <2>5 DEF ScanInv
<1>10. CASE Mine
  <2>1. /\ chain' = chain /\ head' = head + 1 /\ targetHead' = targetHead
        /\ meta' = meta /\ store' = store /\ crashes' = crashes
        /\ phase' = phase /\ reply' = reply /\ head < MaxBlock
    BY <1>10 DEF Mine
  <2>2. Cursor' = Cursor /\ Complete' = Complete
    BY <2>1 DEF Cursor, Complete, ParseMetadata
  <2>3. TypeOK' /\ head <= head'
    BY <2>1, <1>a, <1>b, ConfigAssumption DEF TypeOK, Block
  <2>4. CursorBehindStore'
    BY <2>1, <2>2, <1>a DEF CursorBehindStore, Pools
  <2>5. OnlyPoolsStored'
    BY <2>1, <2>3, <1>a, <1>b DEF OnlyPoolsStored, Pools, TypeOK
  <2>6. ReplyOK'
    BY <2>1, <2>2, <1>a DEF ReplyOK, NothingLeft, NextWindow, Pools
  <2>7. TargetOK'
    BY <2>1, <2>2, <2>3, <1>a, <1>b DEF TargetOK, TypeOK
  <2>. QED
    BY <2>3, <2>4, <2>5, <2>6, <2>7 DEF ScanInv
<1>11. CASE UNCHANGED vars
  <2>1. Cursor' = Cursor /\ Complete' = Complete
    BY <1>11 DEF vars, Cursor, Complete, ParseMetadata
  <2>. QED
    BY <1>11, <1>a, <2>1
       DEF vars, ScanInv, TypeOK, CursorBehindStore, OnlyPoolsStored, ReplyOK,
           NothingLeft, NextWindow, TargetOK, Pools
<1>. QED
  BY <1>1, <1>2, <1>3, <1>4, <1>5, <1>6, <1>7, <1>8, <1>9, <1>10, <1>11 DEF Next

(* The inductive invariant holds of every behaviour. *)
THEOREM ScanInvariant == Spec => []ScanInv
BY InitInv, NextInv, PTL DEF Spec

(* Every variable keeps its type. *)
THEOREM TypeCorrect == Spec => []TypeOK
<1>1. ScanInv => TypeOK
  BY DEF ScanInv
<1>. QED
  BY <1>1, ScanInvariant, PTL

(* No crash, error or retry loses a pool: everything below the persisted   *)
(* cursor is stored (the error returns of Backfill leave the cursor).      *)
THEOREM CrashSafe == Spec => []CursorBehindStore
<1>1. ScanInv => CursorBehindStore
  BY DEF ScanInv
<1>. QED
  BY <1>1, ScanInvariant, PTL

(* Only pools of mined blocks from the start block on are stored. *)
THEOREM Sound == Spec => []OnlyPoolsStored
<1>1. ScanInv => OnlyPoolsStored
  BY DEF ScanInv
<1>. QED
  BY <1>1, ScanInvariant, PTL

(* A caller told to stop holds every pool up to the target of the process. *)
THEOREM CaughtUp == Spec => []DoneIsCaughtUp
<1>1. ScanInv => DoneIsCaughtUp
  <2> SUFFICES ASSUME ScanInv, phase = "stopped", targetHead # None
               PROVE  Pools(StartBlock, targetHead) \subseteq store
    BY DEF DoneIsCaughtUp
  <2>1. Cursor \in Nat /\ targetHead \in Nat /\ Cursor > targetHead
    BY CursorType, ConfigAssumption DEF ScanInv, TypeOK, TargetOK, Block
  <2>. QED
    BY <2>1, ConfigAssumption DEF ScanInv, CursorBehindStore, Pools, Block
<1>. QED
  BY <1>1, ScanInvariant, PTL

(* A step that changes the stored metadata moves the cursor forward and    *)
(* never reopens a finished scan.                                          *)
LEMMA StepForward ==
    ASSUME ScanInv, [Next]_vars
    PROVE  Cursor' >= Cursor /\ (Complete => Complete')
<1>a. Cursor \in Nat /\ Complete \in BOOLEAN /\ Block \subseteq Nat
  BY CursorType, ConfigAssumption DEF ScanInv, TypeOK, Block
<1>1. CASE meta' = meta
  <2>1. Cursor' = Cursor /\ Complete' = Complete
    BY <1>1 DEF Cursor, Complete, ParseMetadata
  <2>. QED
    BY <2>1, <1>a
<1>2. CASE CallerSavesMetadata
  <2>1. meta' = reply.meta /\ (NothingLeft \/ NextWindow)
    BY <1>2 DEF CallerSavesMetadata, ScanInv, ReplyOK
  <2>2. CASE NothingLeft
    BY <2>1, <2>2, <1>1 DEF NothingLeft
  <2>3. CASE NextWindow
    <3>1. PICK to \in Block :
             /\ Cursor <= to
             /\ reply.meta = [lastScannedBlock |-> to + 1, done |-> to = targetHead]
      BY <2>3 DEF NextWindow
    <3>2. PICK last \in BOOLEAN : last = (to = targetHead)
      OBVIOUS
    <3>3. meta' = [lastScannedBlock |-> to + 1, done |-> last]
      BY <2>1, <3>1, <3>2
    <3>4. meta' # None
      BY <3>3, <1>a, NoneAssumption DEF Metadata
    <3>5. Cursor' = to + 1
      BY <3>3, <3>4 DEF Cursor, ParseMetadata
    <3>6. ~Complete
      BY <2>3 DEF NextWindow
    <3>. QED
      BY <3>1, <3>5, <3>6, <1>a
  <2>. QED
    BY <2>1, <2>2, <2>3
<1>3. CallerSavesMetadata \/ meta' = meta
  BY DEF Next, vars, BackfillAlreadyDone, BackfillHeadError, BackfillPastTarget,
         BackfillScanError, BackfillScan, Return, CallerRetries,
         CallerSavesPools, Crash, Mine
<1>. QED
  BY <1>1, <1>2, <1>3

(* The persisted cursor is monotone, and a finished scan stays finished,   *)
(* across retries, crashes and lagging nodes.                              *)
THEOREM Forward == Spec => CursorNeverRewinds
<1>1. ScanInv /\ [Next]_vars
        => [Cursor' >= Cursor /\ (Complete => Complete')]_vars
  BY StepForward
<1>. QED
  BY <1>1, ScanInvariant, PTL DEF Spec, CursorNeverRewinds

-----------------------------------------------------------------------------
(* Refinement: the scan implements PoolDiscovery. *)

LEMMA InitRefines == Init => Discovery!DInit
BY NoneAssumption
   DEF Init, Discovery!DInit, Discovery!Blocks, Cursor, Complete, ParseMetadata,
       Block

(* The pools of a window, in the vocabulary of the contract. *)
LEMMA BetweenIsPools ==
    ASSUME NEW from \in Nat, NEW to \in Nat
    PROVE  Discovery!Between(from, to + 1) = Pools(from, to)
BY ConfigAssumption DEF Discovery!Between, Pools, Block

LEMMA NextRefines ==
    ASSUME ScanInv, [Next]_vars
    PROVE  [Discovery!DNext]_(Discovery!dvars)
<1>a. Cursor \in Nat /\ Complete \in BOOLEAN /\ Block \subseteq Nat
  BY CursorType, ConfigAssumption DEF ScanInv, TypeOK, Block
<1>b. None \notin Block
  BY <1>a, NoneAssumption
<1>c. chain' = chain
  BY DEF Next, vars, BackfillAlreadyDone, BackfillHeadError, BackfillPastTarget,
         BackfillScanError, BackfillScan, Return, CallerRetries,
         CallerSavesPools, CallerSavesMetadata, Crash, Mine
<1>d. meta' = meta => Cursor' = Cursor /\ Complete' = Complete
  BY DEF Cursor, Complete, ParseMetadata
<1>1. ASSUME targetHead' = targetHead, meta' = meta, store' = store,
             (phase' = "stopped") = (phase = "stopped")
      PROVE  UNCHANGED Discovery!dvars
  BY <1>1, <1>c, <1>d DEF Discovery!dvars
<1>2. ASSUME NEW t \in Targets, targetHead' = t, meta' = meta, store' = store,
             phase = "idle", phase' = "replied"
      PROVE  [Discovery!DNext]_(Discovery!dvars)
  <2>1. CASE targetHead = None
    <3>1. t \in Discovery!Blocks
      BY ConfigAssumption DEF ScanInv, TypeOK, Targets, Block, Discovery!Blocks
    <3>2. Discovery!FixGoal
      BY <1>2, <1>c, <1>d, <2>1, <3>1 DEF Discovery!FixGoal
    <3>. QED
      BY <3>2 DEF Discovery!DNext
  <2>2. CASE targetHead # None
    BY <1>1, <1>2, <2>2 DEF Targets
  <2>. QED
    BY <2>1, <2>2
<1>3. CASE BackfillAlreadyDone \/ BackfillHeadError \/ CallerRetries \/ Mine
           \/ UNCHANGED vars
  BY <1>1, <1>3
     DEF BackfillAlreadyDone, BackfillHeadError, CallerRetries, Mine, Return,
         Idle, vars
<1>4. CASE BackfillPastTarget \/ BackfillScanError \/ BackfillScan
  <2>1. /\ \E t \in Targets : targetHead' = t
        /\ meta' = meta /\ store' = store /\ phase = "idle" /\ phase' = "replied"
    BY <1>4 DEF BackfillPastTarget, BackfillScanError, BackfillScan, Return, Idle
  <2>. QED
    BY <1>2, <2>1
<1>5. CASE CallerSavesPools
  <2>1. /\ targetHead' = targetHead /\ meta' = meta
        /\ phase = "replied" /\ phase' = "saved"
        /\ store' = store \cup reply.pools /\ reply.ok
    BY <1>5 DEF CallerSavesPools
  <2>2. CASE NothingLeft
    BY <1>1, <2>1, <2>2 DEF NothingLeft
  <2>3. CASE NextWindow
    <3>1. PICK to \in Block : /\ Cursor <= to /\ to <= targetHead
                              /\ reply.pools = Pools(Cursor, to)
      BY <2>3 DEF NextWindow
    <3>2. targetHead # None /\ targetHead \in Nat
      BY <2>3, <1>a DEF NextWindow, ScanInv, TypeOK
    <3>3. to \in Cursor..targetHead
      BY <3>1, <3>2, <1>a
    <3>4. store' = store \cup Discovery!Between(Cursor, to + 1)
      BY <2>1, <3>1, <1>a, BetweenIsPools
    <3>5. Discovery!Deliver
      BY <2>1, <3>2, <3>3, <3>4, <1>c, <1>d DEF Discovery!Deliver
    <3>. QED
      BY <3>5 DEF Discovery!DNext
  <2>. QED
    BY <2>1, <2>2, <2>3 DEF ScanInv, ReplyOK
<1>6. CASE CallerSavesMetadata
  <2>1. /\ targetHead' = targetHead /\ store' = store /\ meta' = reply.meta
        /\ phase = "saved"
        /\ phase' = IF reply.done THEN "stopped" ELSE "idle"
    BY <1>6 DEF CallerSavesMetadata
  <2>2. (NothingLeft \/ NextWindow) /\ reply.pools \subseteq store
    BY <2>1 DEF ScanInv, ReplyOK
  <2>3. CASE NothingLeft
    <3>1. Discovery!Finish
      BY <2>1, <2>3, <1>c, <1>d DEF NothingLeft, Discovery!Finish
    <3>. QED
      BY <3>1 DEF Discovery!DNext
  <2>4. CASE NextWindow
    <3>1. PICK to \in Block :
             /\ Cursor <= to /\ to <= targetHead
             /\ reply.pools = Pools(Cursor, to)
             /\ reply.meta = [lastScannedBlock |-> to + 1, done |-> to = targetHead]
             /\ reply.done = (to = targetHead)
      BY <2>4 DEF NextWindow
    <3>2. targetHead # None /\ targetHead \in Nat
      BY <2>4, <1>a DEF NextWindow, ScanInv, TypeOK
    <3>3. to \in Cursor..targetHead
      BY <3>1, <3>2, <1>a
    <3>4. Discovery!Between(Cursor, to + 1) \subseteq store
      BY <2>2, <3>1, <1>a, BetweenIsPools
    <3>5. PICK last \in BOOLEAN : last = (to = targetHead)
      OBVIOUS
    <3>6. meta' = [lastScannedBlock |-> to + 1, done |-> last]
      BY <2>1, <3>1, <3>5
    <3>7. meta' # None
      BY <3>6, <1>a, NoneAssumption DEF Metadata
    <3>8. Cursor' = to + 1 /\ Complete' = (to = targetHead)
      BY <3>5, <3>6, <3>7 DEF Cursor, Complete, ParseMetadata
    <3>9. (phase' = "stopped") = (to = targetHead)
      BY <2>1, <3>1
    <3>10. Discovery!Advance
      BY <2>1, <3>2, <3>3, <3>4, <3>8, <3>9, <1>c DEF Discovery!Advance
    <3>. QED
      BY <3>10 DEF Discovery!DNext
  <2>. QED
    BY <2>2, <2>3, <2>4
<1>7. CASE Crash
  <2>1. Discovery!Restart
    BY <1>7, <1>c, <1>d DEF Crash, Discovery!Restart
  <2>. QED
    BY <2>1 DEF Discovery!DNext
<1>. QED
  BY <1>3, <1>4, <1>5, <1>6, <1>7 DEF Next

(* The window scan keeps the contract of PoolDiscovery: whole windows in   *)
(* block order, a frontier that moves only over delivered pools, and done  *)
(* only past the goal.                                                     *)
THEOREM Refines == Spec => ImplementsDiscovery
<1>1. ScanInv /\ [Next]_vars => [Discovery!DNext]_(Discovery!dvars)
  BY NextRefines
<1>. QED
  BY <1>1, InitRefines, ScanInvariant, PTL
     DEF Spec, ImplementsDiscovery, Discovery!DSpec
=============================================================================
