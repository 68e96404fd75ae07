--------------------------- MODULE PoolDiscovery ----------------------------
(***************************************************************************)
(* What a historical scan promises its caller, whatever its mechanism      *)
(* (the contract of IPoolsBackfiller in pkg/source/pool/iface.go): it      *)
(* fixes a goal, delivers the pools up to it in block order, moves its     *)
(* frontier only over delivered pools, and says "finished" only once the   *)
(* frontier is past the goal.  A restart may forget the goal, never a pool *)
(* below the frontier nor that the scan was complete.                      *)
(***************************************************************************)
EXTENDS Integers

CONSTANTS First, LastBlock, NoGoal

VARIABLES
    pools,      \* the blocks in which a pool was created
    delivered,  \* the blocks whose pool the caller holds
    goal,       \* the block to catch up to
    frontier,   \* everything below is delivered
    complete,   \* the frontier passed a goal, and this is on record
    finished    \* the caller was told to stop

dvars == <<pools, delivered, goal, frontier, complete, finished>>

Blocks == 0..LastBlock

Between(from, to) == {b \in pools : from <= b /\ b < to}

DInit ==
    /\ pools \subseteq Blocks
    /\ delivered = {}
    /\ goal = NoGoal
    /\ frontier = First
    /\ complete = FALSE
    /\ finished = FALSE

FixGoal ==
    /\ goal = NoGoal
    /\ goal' \in Blocks
    /\ UNCHANGED <<pools, delivered, frontier, complete, finished>>

(* The pools of the next blocks, all of them, reach the caller. *)
Deliver ==
    /\ ~finished
    /\ goal # NoGoal
    /\ \E n \in frontier..goal :
          delivered' = delivered \cup Between(frontier, n + 1)
    /\ UNCHANGED <<pools, goal, frontier, complete, finished>>

(* The frontier moves over delivered pools; past the goal, the scan ends. *)
Advance ==
    /\ ~finished
    /\ goal # NoGoal
    /\ \E n \in frontier..goal :
          /\ Between(frontier, n + 1) \subseteq delivered
          /\ frontier' = n + 1
          /\ complete' = (n = goal)
          /\ finished' = (n = goal)
    /\ UNCHANGED <<pools, delivered, goal>>

Finish ==
    /\ ~finished
    /\ complete \/ (goal # NoGoal /\ frontier > goal)
    /\ finished' = TRUE
    /\ UNCHANGED <<pools, delivered, goal, frontier, complete>>

Restart ==
    /\ goal' = NoGoal
    /\ finished' = FALSE
    /\ UNCHANGED <<pools, delivered, frontier, complete>>

DNext == FixGoal \/ Deliver \/ Advance \/ Finish \/ Restart

DSpec == DInit /\ [][DNext]_dvars
=============================================================================
