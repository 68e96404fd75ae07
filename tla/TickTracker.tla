---------------------------- MODULE TickTracker -----------------------------
(***************************************************************************)
(* The tick tracker of liquidity-source/uniswap/v3: the initialised ticks  *)
(* of a pool, kept up to date from the Mint and Burn logs a log source     *)
(* delivers, with refetches over RPC after reorganisations and when the    *)
(* accumulated ticks cannot be right.                                      *)
(*                                                                         *)
(* The chain, and the source that turns it into batches of logs, are       *)
(* external.  The source remembers the chain up to which it has delivered; *)
(* a batch holds the logs of the blocks that were replaced since, as       *)
(* removed, and those of the new blocks up to some height, and is          *)
(* delivered again when the update fails.  A batch with removed logs may   *)
(* have few new ones or none, and end below the blocks it replaces.        *)
(***************************************************************************)
EXTENDS Integers, Sequences, FiniteSets, FiniteSetsExt

CONSTANTS
    Ticks,
    Ranges,     \* pairs of a lower and an upper tick
    Event,      \* the logs the pool can emit: liquidity added to a range or
                \* taken from it; a log with delta 0 touches no tick
    MaxHeight,  \* bound: the length of a chain
    None        \* a block without a log of this pool

ASSUME TickAssumption ==
    /\ Ranges \subseteq Ticks \X Ticks
    /\ \A r \in Ranges : r[1] # r[2]
    /\ Event \subseteq [range : Ranges, delta : Int]
    /\ MaxHeight \in Nat
    /\ None \notin Event

VARIABLES
    chain,      \* the node's canonical chain: what each block logs, and the
                \* ticks after it
    sent,       \* the chain up to which the source has delivered
    entity,     \* the entity.Pool: its ticks and its BlockNumber
    pc,         \* where the call of GetNewPoolState is
    goal,       \* the chain the batch leads to
    base,       \* the height up to which goal and sent agree
    at,         \* the block whose log the loop has come to
    first, last,    \* the block numbers of the batch's first and last logs
    work,       \* TicksBasedPool.Ticks
    touched,    \* affectedTickSet
    reverted,   \* HasRevertedLog
    invalid,    \* invalidTickSet is not empty
    steady,     \* history: every read of this call was of the batch's chain
    clean       \* history: so were all reads whose result is in the entity

call == <<pc, goal, base, at, first, last, work, touched, reverted, invalid, steady>>

vars == <<chain, sent, entity, call, clean>>

Untouched == [gross |-> 0, net |-> 0]

NoTicks == [t \in Ticks |-> Untouched]

(* The ticks a contract has at a height. *)
StateAt(ch, n) == IF n = 0 THEN NoTicks ELSE ch[n].ticks

EndState(ch) == StateAt(ch, Len(ch))

Prefix(s, t) == Len(s) <= Len(t) /\ \A i \in 1..Len(s) : s[i] = t[i]

-----------------------------------------------------------------------------
(* The chain *)

(* What Mint and Burn do in the contract. *)
After(ticks, e) ==
    IF e = None THEN ticks
    ELSE [t \in Ticks |->
            CASE t = e.range[1] -> [gross |-> ticks[t].gross + e.delta,
                                    net |-> ticks[t].net + e.delta]
              [] t = e.range[2] -> [gross |-> ticks[t].gross + e.delta,
                                    net |-> ticks[t].net - e.delta]
              [] OTHER -> ticks[t]]

(* No more is burnt than is there, and a tick that no position uses any    *)
(* more has no net liquidity either.                                       *)
Possible(ticks, e) ==
    \A t \in Ticks :
        LET a == After(ticks, e)[t]
        IN  a.gross >= 0 /\ (a.gross = 0 => a.net = 0)

(* Steps of a call that read nothing but the call's own state happen at    *)
(* once, as far as the chain is concerned.                                 *)
ChainMayMove == pc \in {"idle", "affected", "all"}

Mine ==
    \E e \in Event \cup {None} :
        /\ ChainMayMove
        /\ Len(chain) < MaxHeight
        /\ Possible(EndState(chain), e)
        /\ chain' = Append(chain, [event |-> e, ticks |-> After(EndState(chain), e)])
        /\ UNCHANGED <<sent, entity, call, clean>>

(* The node leaves a branch; the blocks of the other one follow. *)
Rewind ==
    \E n \in 0..Len(chain) - 1 :
        /\ ChainMayMove
        /\ chain' = SubSeq(chain, 1, n)
        /\ UNCHANGED <<sent, entity, call, clean>>

-----------------------------------------------------------------------------
(* GetNewPoolState *)

(* applyLiquidityChange: false, and the tick as it was, if its liquidity   *)
(* would become negative.                                                  *)
Accepts_Always(ticks, t, delta) == TRUE

Accepts(ticks, t, delta) == ticks[t].gross + delta >= 0

Changed(ticks, t, delta, net) ==
    IF Accepts(ticks, t, delta)
    THEN [ticks EXCEPT ![t] = [gross |-> @.gross + delta, net |-> @.net + net]]
    ELSE ticks

Applied(ticks, e) ==
    Changed(Changed(ticks, e.range[1], e.delta, e.delta), e.range[2], e.delta, -e.delta)

Rejected(ticks, e) ==
    \/ ~Accepts(ticks, e.range[1], e.delta)
    \/ ~Accepts(Changed(ticks, e.range[1], e.delta, e.delta), e.range[2], e.delta)

TouchedBy(e) == IF e.delta = 0 THEN {} ELSE {e.range[1], e.range[2]}

Agree(s, t, n) ==
    /\ n <= Len(s) /\ n <= Len(t)
    /\ \A i \in 1..n : s[i] = t[i]
    /\ n < Len(s) /\ n < Len(t) => s[n + 1] # t[n + 1]

(* The source has a batch. *)
Deliver(n, m) ==
    /\ pc = "idle"
    /\ sent # chain
    /\ Agree(sent, chain, n)
    /\ m \in n..Len(chain)
    /\ n = Len(sent) => m > n
    /\ goal' = SubSeq(chain, 1, m)
    /\ base' = n
    /\ at' = Len(sent)
    /\ pc' = "removed"
    /\ work' = entity.ticks
    /\ UNCHANGED <<chain, sent, entity, first, last, touched, reverted, invalid, steady,
                   clean>>

(* One removed log.  Any of them may be the batch's first, or its last. *)
Removed_Ignored(f, l) ==
    /\ pc = "removed" /\ at > base
    /\ at' = at - 1
    /\ IF sent[at].event = None THEN UNCHANGED <<first, last>>
       ELSE first' = f /\ last' = l
    /\ UNCHANGED <<chain, sent, entity, pc, goal, base, work, touched, reverted, invalid,
                   steady, clean>>

Removed(f, l) ==
    LET e == sent[at].event
    IN  /\ pc = "removed" /\ at > base
        /\ f \in {first, at} \ {0} /\ l \in {last, at} \ {0}
        /\ at' = at - 1
        /\ IF e = None THEN UNCHANGED <<first, last, touched, reverted>>
           ELSE /\ first' = f /\ last' = l
                /\ touched' = touched \cup TouchedBy(e)
                /\ reverted' = TRUE
        /\ UNCHANGED <<chain, sent, entity, pc, goal, base, work, invalid, steady, clean>>

RemovedDone ==
    /\ pc = "removed" /\ at = base
    /\ pc' = "new"
    /\ UNCHANGED <<chain, sent, entity, goal, base, at, first, last, work, touched,
                   reverted, invalid, steady, clean>>

(* One new log.  After a reorganisation only the ticks it names matter. *)
New ==
    LET e == goal[at + 1].event
    IN  /\ pc = "new" /\ at < Len(goal)
        /\ at' = at + 1
        /\ IF e = None THEN UNCHANGED <<first, last, touched, work, invalid>>
           ELSE /\ first' = IF first = 0 THEN at + 1 ELSE first
                /\ last' = at + 1
                /\ touched' = touched \cup TouchedBy(e)
                /\ work' = IF reverted THEN work ELSE Applied(work, e)
                /\ invalid' = (invalid \/ (~reverted /\ Rejected(work, e)))
        /\ UNCHANGED <<chain, sent, entity, pc, goal, base, reverted, steady, clean>>

HasValidTicks(ticks) == MapThenSumSet(LAMBDA t : ticks[t].net, Ticks) = 0

(* Nothing was delivered for this pool, no tick is touched, or what was    *)
(* accumulated may be right; otherwise the touched ticks are read again.   *)
NewDone ==
    /\ pc = "new" /\ at = Len(goal)
    /\ first # 0
    /\ pc' = IF touched = {} \/ (~reverted /\ ~invalid /\ HasValidTicks(work))
             THEN "state" ELSE "affected"
    /\ UNCHANGED <<chain, sent, entity, goal, base, at, first, last, work, touched,
                   reverted, invalid, steady, clean>>

Idle ==
    /\ pc' = "idle"
    /\ goal' = <<>>
    /\ base' = 0 /\ at' = 0 /\ first' = 0 /\ last' = 0
    /\ work' = NoTicks
    /\ touched' = {}
    /\ reverted' = FALSE /\ invalid' = FALSE
    /\ steady' = TRUE

(* GetNewPoolState without logs. *)
NoLogs ==
    /\ pc = "new" /\ at = Len(goal)
    /\ first = 0
    /\ Idle
    /\ sent' = goal
    /\ UNCHANGED <<chain, entity, clean>>

(* GetBlockNumberFromLogs *)
BatchBlock_First == first

BatchBlock == IF first < last THEN last ELSE first

(* queryTicksFromRPC: at the block, or at the latest one if that is pruned *)
(* or 0.                                                                   *)
Answer(number, pruned) ==
    IF number = 0 \/ pruned THEN EndState(chain) ELSE StateAt(chain, number)

Refetched(ticks, asked, number, pruned) ==
    [t \in Ticks |-> IF t \in asked THEN Answer(number, pruned)[t] ELSE ticks[t]]

Sound(ch, number, pruned) == number # 0 /\ ~pruned /\ Prefix(ch, chain)

(* The block asked for is beyond the batch: a removed log was higher than  *)
(* all the new ones.                                                       *)
Overreaches == BatchBlock > Len(goal)

Query(asked, pruned) ==
    /\ BatchBlock <= Len(chain)
    /\ work' = Refetched(work, asked, BatchBlock, pruned)
    /\ steady' = (steady /\ Sound(goal, BatchBlock, pruned))
    /\ UNCHANGED <<chain, sent, entity, goal, base, at, first, last, touched, reverted,
                   invalid, clean>>

QueryAffected(pruned) ==
    /\ pc = "affected"
    /\ Query(touched, pruned)
    /\ pc' = IF HasValidTicks(work)' THEN "state" ELSE "all"

(* The keys of the map: ticks with liquidity, and those just read. *)
Known(ticks) == {t \in Ticks : ticks[t].gross # 0}

(* Ticks that are still not valid are handed on all the same. *)
QueryAll(pruned) ==
    /\ pc = "all"
    /\ Query(touched \cup Known(entity.ticks), pruned)
    /\ pc' = "state"

(* toTicks *)
Initialised(ticks) == [t \in Ticks |-> IF ticks[t].gross = 0 THEN Untouched ELSE ticks[t]]

Larger(m, n) == IF m < n THEN n ELSE m

UpdateState_FirstLog ==
    /\ pc = "state"
    /\ entity' = [ticks |-> Initialised(work), number |-> Larger(entity.number, first)]
    /\ sent' = goal
    /\ clean' = (clean /\ steady /\ (touched = {} \/ ~Overreaches))
    /\ Idle
    /\ UNCHANGED chain

UpdateState ==
    /\ pc = "state"
    /\ entity' = [ticks |-> Initialised(work), number |-> Larger(entity.number, last)]
    /\ sent' = goal
    /\ clean' = (clean /\ steady /\ (touched = {} \/ ~Overreaches))
    /\ Idle
    /\ UNCHANGED chain

(* The RPC fails: the entity is returned as it was. *)
Fail ==
    /\ pc \in {"affected", "all", "state"}
    /\ Idle
    /\ UNCHANGED <<chain, sent, entity, clean>>

-----------------------------------------------------------------------------
(* The other updates of the entity, between two batches *)

FetchPoolTicks(pruned) ==
    /\ pc = "idle"
    /\ Known(entity.ticks) # {}
    /\ entity.number <= Len(chain)
    /\ entity' = [entity EXCEPT !.ticks =
          Initialised(Refetched(NoTicks, Known(entity.ticks), entity.number, pruned))]
    /\ clean' = (clean /\ Sound(sent, entity.number, pruned) /\ entity.number <= Len(sent))
    /\ UNCHANGED <<chain, sent, call>>

(* The subgraph or the tick lens answers as of a block of its own; the     *)
(* caller's logs end at another.                                           *)
BootstrapPoolState(n, logged) ==
    /\ pc = "idle"
    /\ n \in 0..Len(chain) /\ logged \in 0..Len(sent)
    /\ entity' = [ticks |-> StateAt(chain, n), number |-> Larger(entity.number, logged)]
    /\ clean' = (n = Len(sent) /\ logged = Len(sent) /\ Prefix(sent, chain))
    /\ UNCHANGED <<chain, sent, call>>

Init ==
    /\ chain = <<>>
    /\ sent = <<>>
    /\ entity = [ticks |-> NoTicks, number |-> 0]
    /\ pc = "idle"
    /\ goal = <<>>
    /\ base = 0 /\ at = 0 /\ first = 0 /\ last = 0
    /\ work = NoTicks
    /\ touched = {}
    /\ reverted = FALSE /\ invalid = FALSE
    /\ steady = TRUE
    /\ clean = TRUE

Next ==
    \/ Mine
    \/ Rewind
    \/ \E n, m \in 0..MaxHeight : Deliver(n, m)
    \/ \E f, l \in 1..MaxHeight : Removed(f, l)
    \/ RemovedDone
    \/ New
    \/ NewDone
    \/ NoLogs
    \/ \E pruned \in BOOLEAN : QueryAffected(pruned)
    \/ \E pruned \in BOOLEAN : QueryAll(pruned)
    \/ UpdateState
    \/ Fail
    \/ \E pruned \in BOOLEAN : FetchPoolTicks(pruned)
    \/ \E n, logged \in 0..MaxHeight : BootstrapPoolState(n, logged)

Spec == Init /\ [][Next]_vars

-----------------------------------------------------------------------------
(* Properties *)

Tick == [gross : Nat, net : Int]

Chain == Seq([event : Event \cup {None}, ticks : [Ticks -> Tick]])

(* Types.  In particular no tick ever has negative liquidity, not even     *)
(* when the ticks the logs are applied to are out of date.                 *)
TypeOK ==
    /\ chain \in Chain /\ sent \in Chain /\ goal \in Chain
    /\ entity \in [ticks : [Ticks -> Tick], number : 0..MaxHeight]
    /\ pc \in {"idle", "removed", "new", "affected", "all", "state"}
    /\ base \in 0..MaxHeight /\ at \in 0..MaxHeight
    /\ first \in 0..MaxHeight /\ last \in 0..MaxHeight
    /\ work \in [Ticks -> Tick]
    /\ touched \subseteq Ticks
    /\ reverted \in BOOLEAN /\ invalid \in BOOLEAN
    /\ steady \in BOOLEAN /\ clean \in BOOLEAN

(* Between two batches the pool has exactly the ticks of the chain that    *)
(* was delivered, through reorganisations, failed and repeated updates and *)
(* refetches, provided it was bootstrapped at the block its logs start     *)
(* from and every refetch was of a block of that chain (not of a pruned    *)
(* node's head, a branch that changed in the meantime, or a block beyond   *)
(* the logs delivered).                                                    *)
TicksExact == pc = "idle" /\ clean => entity.ticks = EndState(sent)

(* "If reorg happens, only extract affected tick ids from logs and fetch   *)
(* their state from RPC" (pool_tracker.go:243): whatever was wrong with    *)
(* the pool, the ticks that removed and new logs name come out as they are *)
(* at the end of the batch, if the block that GetBlockNumberFromLogs picks *)
(* from either end of the logs is not beyond it.  It is, where the batch   *)
(* ends below a block it removes, since removed logs are looked at too     *)
(* (log.go:17): the logs still to come are then in the ticks already.      *)
RevertHeals ==
    pc = "state" /\ reverted /\ steady /\ ~Overreaches =>
        \A t \in touched : work[t] = EndState(goal)[t]

(* The entity's BlockNumber, at which FetchPoolTicks reads, has never been *)
(* left behind by a log that was applied, although reorganisations replace *)
(* the blocks it was taken from.                                           *)
BlockNumberCurrent ==
    pc = "idle" => \A i \in entity.number + 1..Len(sent) : sent[i].event = None
=============================================================================
