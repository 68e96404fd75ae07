------------------------------ MODULE Backfill ------------------------------
(***************************************************************************)
(* The historical pool scan of pkg/source/pool/poolfactory/backfill.go:    *)
(* FilterLogsBackfiller drives a pool-factory decoder over eth_getLogs     *)
(* windows, from a cursor the caller persists up to a head fixed by the    *)
(* first call of the process.                                              *)
(*                                                                         *)
(* One action is one outcome of a whole Backfill call.  The caller, which  *)
(* stores pools and metadata and schedules the next call, is not in the    *)
(* repository: it is modelled from the contract of IPoolsBackfiller, with  *)
(* a process crash allowed between any two of its steps.                   *)
(***************************************************************************)
EXTENDS Integers

CONSTANTS
    StartBlock,             \* BackfillConfig.StartBlock
    MaxBlockRangePerScan,   \* BackfillConfig.MaxBlockRangePerScan
    Modulus,                \* 2^64 in the code: block numbers are uint64
    MaxBlock,               \* bound: the last block the chain reaches
    MaxCrashes,             \* bound: how many times the process restarts
    None                    \* a nil pointer, and empty metadataBytes

Block == 0..MaxBlock

(* What the factory address logs in a block.  "foreign" stands for a log   *)
(* the decoder does not support, or decodes to no pool.                    *)
LogKind == {"empty", "pool", "foreign"}

Metadata == [lastScannedBlock : Nat, done : BOOLEAN]

(* Chains are short of the last uint64. *)
ASSUME ConfigAssumption ==
    /\ MaxBlock \in Nat
    /\ MaxCrashes \in Nat
    /\ Modulus \in Nat /\ MaxBlock + 1 < Modulus
    /\ StartBlock \in Nat
    /\ MaxBlockRangePerScan \in Nat \ {0}

ASSUME NoneAssumption == None \notin Nat /\ None \notin Metadata

VARIABLES
    chain,      \* the log of every block, those to come included
    head,       \* the last block mined
    targetHead, \* FilterLogsBackfiller.targetHead
    meta,       \* the metadata bytes in the caller's storage
    store,      \* the blocks whose pool is in the caller's storage
    phase,      \* where the caller is in its loop
    reply,      \* what the last Backfill call returned
    crashes

vars == <<chain, head, targetHead, meta, store, phase, reply, crashes>>

Reply == [pools : SUBSET Nat, meta : Metadata \cup {None},
          done : BOOLEAN, ok : BOOLEAN]

NoReply == [pools |-> {}, meta |-> None, done |-> FALSE, ok |-> FALSE]

(* The blocks of a window whose log is decoded into a pool: a log that is  *)
(* not supported is skipped, and so is one that decodes to nil.            *)
Decoded_Unfiltered(from, to) == {b \in from..to : chain[b] # "empty"}

Decoded(from, to) == {b \in from..to : chain[b] = "pool"}

(* parseMetadata: empty bytes are a cold start. *)
ParseMetadata_AlwaysCold(bytes) ==
    [lastScannedBlock |-> StartBlock, done |-> FALSE]

ParseMetadata(bytes) ==
    IF bytes = None THEN [lastScannedBlock |-> StartBlock, done |-> FALSE]
                    ELSE bytes

(* The first block not yet scanned, and whether the scan is over. *)
Cursor == ParseMetadata(meta).lastScannedBlock

Complete == ParseMetadata(meta).done

Minimum(a, b) == IF a < b THEN a ELSE b

(* The end of the window: uint64 arithmetic, clamped to the target. *)
ToBlock(from, target) ==
    Minimum((from + MaxBlockRangePerScan - 1) % Modulus, target)

(* The head the process scans to: read from the node by the first call     *)
(* that needs it, which may lag behind the chain, and kept afterwards.     *)
Targets_Ahead == IF targetHead = None THEN 0..head + 1 ELSE {targetHead}

Targets == IF targetHead = None THEN 0..head ELSE {targetHead}

(* Metadata of a window that succeeded. *)
Advanced_SkipsOne(to, target) ==
    [lastScannedBlock |-> (to + 2) % Modulus, done |-> to >= target]

Advanced(to, target) ==
    [lastScannedBlock |-> (to + 1) % Modulus, done |-> to >= target]

-----------------------------------------------------------------------------
(* The outcomes of one Backfill call. *)

Idle == phase = "idle"

Return(r) ==
    /\ phase' = "replied"
    /\ reply' = r
    /\ UNCHANGED <<chain, head, meta, store, crashes>>

Failure == [pools |-> {}, meta |-> meta, done |-> FALSE, ok |-> FALSE]

Nothing_NilMetadata == [pools |-> {}, meta |-> None, done |-> TRUE, ok |-> TRUE]

Nothing == [pools |-> {}, meta |-> meta, done |-> TRUE, ok |-> TRUE]

(* The stored metadata says done: no RPC is made. *)
BackfillAlreadyDone ==
    /\ Idle
    /\ Complete
    /\ Return(Nothing)
    /\ UNCHANGED targetHead

(* GetBlockNumber fails. *)
BackfillHeadError ==
    /\ Idle
    /\ ~Complete
    /\ targetHead = None
    /\ Return(Failure)
    /\ UNCHANGED targetHead

(* The cursor is past the target: done, and nothing to persist. *)
BackfillPastTarget ==
    /\ Idle
    /\ ~Complete
    /\ \E target \in Targets :
          /\ Cursor > target
          /\ targetHead' = target
    /\ Return(Nothing)

(* FilterLogs fails, or a supported log of the window cannot be decoded:   *)
(* the metadata is returned as it came.  The target, if this call was the  *)
(* first to read it, stays.                                                *)
BackfillScanError ==
    /\ Idle
    /\ ~Complete
    /\ \E target \in Targets :
          /\ Cursor <= target
          /\ targetHead' = target
    /\ Return(Failure)

(* A window is fetched and decoded.  A node refuses a window whose end is  *)
(* before its start.                                                       *)
BackfillScan ==
    /\ Idle
    /\ ~Complete
    /\ \E target \in Targets :
          LET from == Cursor
              to   == ToBlock(from, target)
          IN  /\ from <= target
              /\ from <= to
              /\ targetHead' = target
              /\ Return([pools |-> Decoded(from, to),
                         meta  |-> Advanced(to, target),
                         done  |-> to >= target,
                         ok    |-> TRUE])

-----------------------------------------------------------------------------
(* The caller and the world around it. *)

(* An error: the same window is tried again. *)
CallerRetries ==
    /\ phase = "replied"
    /\ ~reply.ok
    /\ phase' = "idle"
    /\ reply' = NoReply
    /\ UNCHANGED <<chain, head, targetHead, meta, store, crashes>>

(* Pools already known are deduplicated by the store. *)
CallerSavesPools ==
    /\ phase = "replied"
    /\ reply.ok
    /\ store' = store \cup reply.pools
    /\ phase' = "saved"
    /\ UNCHANGED <<chain, head, targetHead, meta, reply, crashes>>

(* Done: the caller schedules no further call in this process. *)
CallerSavesMetadata ==
    /\ phase = "saved"
    /\ meta' = reply.meta
    /\ phase' = IF reply.done THEN "stopped" ELSE "idle"
    /\ reply' = NoReply
    /\ UNCHANGED <<chain, head, targetHead, store, crashes>>

(* The process dies and a new one starts: only the storage survives. *)
Crash ==
    /\ crashes < MaxCrashes
    /\ crashes' = crashes + 1
    /\ targetHead' = None
    /\ reply' = NoReply
    /\ phase' = "idle"
    /\ UNCHANGED <<chain, head, meta, store>>

Mine ==
    /\ head < MaxBlock
    /\ head' = head + 1
    /\ UNCHANGED <<chain, targetHead, meta, store, phase, reply, crashes>>

Init ==
    /\ chain \in [Block -> LogKind]
    /\ head \in Block
    /\ targetHead = None
    /\ meta = None
    /\ store = {}
    /\ phase = "idle"
    /\ reply = NoReply
    /\ crashes = 0

Next ==
    \/ BackfillAlreadyDone
    \/ BackfillHeadError
    \/ BackfillPastTarget
    \/ BackfillScanError
    \/ BackfillScan
    \/ CallerRetries
    \/ CallerSavesPools
    \/ CallerSavesMetadata
    \/ Crash
    \/ Mine

(* The caller keeps calling, and a call it repeats for ever is not         *)
(* answered by an error for ever.  Nothing is assumed of crashes or mining.*)
Fairness ==
    /\ WF_vars(BackfillAlreadyDone)
    /\ SF_vars(BackfillPastTarget)
    /\ SF_vars(BackfillScan)
    /\ WF_vars(CallerRetries)
    /\ WF_vars(CallerSavesPools)
    /\ WF_vars(CallerSavesMetadata)

Spec == Init /\ [][Next]_vars

FairSpec == Spec /\ Fairness

-----------------------------------------------------------------------------
(* Properties *)

TypeOK ==
    /\ chain \in [Block -> LogKind]
    /\ head \in Block
    /\ targetHead \in Block \cup {None}
    /\ meta \in Metadata \cup {None}
    /\ store \subseteq Block
    /\ phase \in {"idle", "replied", "saved", "stopped"}
    /\ reply \in Reply
    /\ crashes \in Nat

Pools(from, to) == {b \in Block : from <= b /\ b <= to /\ chain[b] = "pool"}

(* The persisted cursor never runs ahead of the stored pools: whatever the *)
(* moment the process dies, every pool created below the cursor has been   *)
(* delivered (backfill.go:117-141, the cursor stays put on every error).   *)
CursorBehindStore ==
    Pools(StartBlock, Cursor - 1) \subseteq store

(* When the caller is told to stop, every pool created from the start      *)
(* block up to the head this process fixed is stored ("true once the scan  *)
(* has caught up to its target", pool/iface.go IPoolsBackfiller).          *)
DoneIsCaughtUp ==
    phase = "stopped" /\ targetHead # None
        => Pools(StartBlock, targetHead) \subseteq store

(* Nothing but a pool of a mined block from the start block on is ever     *)
(* stored, whatever is rescanned, retried or interrupted.                  *)
OnlyPoolsStored == store \subseteq Pools(StartBlock, head)

(* What a successful reply says of the scan, until the caller has stored   *)
(* it: either there was nothing left to scan, or it is the next window.    *)
NothingLeft ==
    /\ reply.pools = {}
    /\ reply.meta = meta
    /\ reply.done
    /\ Complete \/ (targetHead # None /\ Cursor > targetHead)

NextWindow ==
    /\ ~Complete
    /\ targetHead # None
    /\ \E to \in Block :
          /\ Cursor <= to /\ to <= targetHead
          /\ reply.pools = Pools(Cursor, to)
          /\ reply.meta = [lastScannedBlock |-> to + 1, done |-> to = targetHead]
          /\ reply.done = (to = targetHead)

ReplyOK ==
    /\ phase \in {"replied", "saved"} /\ reply.ok => NothingLeft \/ NextWindow
    /\ phase = "saved" => reply.ok /\ reply.pools \subseteq store

(* The process' own knowledge: a target it read is a mined block, and it   *)
(* is passed when the scan is complete or the caller has stopped.          *)
TargetOK ==
    /\ Cursor >= StartBlock
    /\ targetHead # None =>
          /\ targetHead <= head
          /\ Complete \/ phase = "stopped" => Cursor > targetHead

(* The inductive invariant behind the safety properties. *)
ScanInv ==
    TypeOK /\ CursorBehindStore /\ OnlyPoolsStored /\ ReplyOK /\ TargetOK

(* Across retries, crashes and lagging nodes the persisted cursor only     *)
(* moves forward and a finished scan stays finished.                       *)
CursorNeverRewinds ==
    [][/\ Cursor' >= Cursor
       /\ Complete => Complete']_vars

(* The scan implements the contract its caller relies on: pools arrive in  *)
(* whole windows, in block order, and the frontier a restart resumes from  *)
(* moves only over delivered pools.                                        *)
Discovery == INSTANCE PoolDiscovery WITH
    First     <- StartBlock,
    LastBlock <- MaxBlock,
    NoGoal    <- None,
    pools     <- {b \in Block : chain[b] = "pool"},
    delivered <- store,
    goal      <- targetHead,
    frontier  <- Cursor,
    complete  <- Complete,
    finished  <- phase = "stopped"

ImplementsDiscovery == Discovery!DSpec

(* The scan ends: it catches up with its target, reports done, and the     *)
(* caller stops for good once the process no longer crashes.               *)
EventuallyStops == <>[](phase = "stopped")
=============================================================================
