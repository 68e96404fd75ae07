--------------------------- MODULE LunarSnapshot ----------------------------
(***************************************************************************)
(* Pool refreshes of liquidity-source/lunarbase: complete states read over *)
(* RPC while the node's chain grows and reorganises, and a bounded cache   *)
(* of them shared by every refresh of the tracker.                         *)
(*                                                                         *)
(*   "cached"    GetNewPoolState: header, cache, read by hash, verify;     *)
(*   "override"  GetNewPoolStateWithOverrides: header, read by NUMBER,     *)
(*               verify;                                                   *)
(*   "single"    GetNewPoolState with SingleCallSnapshot: one read, no     *)
(*               hash.                                                     *)
(*                                                                         *)
(* Each caller keeps its own copy of a pool entity and refreshes it call   *)
(* after call.  What a read returned is abstracted to the block it was     *)
(* executed on; malformed, inconsistent or cancelled answers are Fail.     *)
(***************************************************************************)
EXTENDS Integers, Sequences, FiniteSets, FiniteSetsExt

CONSTANTS
    Callers,
    Pools,
    Forks,      \* tells the blocks of one height apart
    Owners,     \* who refreshes which pool: functions from Callers to Pools
    Chains,     \* the canonical chains the node may report: chain[n] is the
                \* fork of block n
    Calls,      \* the calls that are made: by whom, for which pool, how, with
                \* which logs and block headers
    MaxHeight,  \* bound: the length of a chain
    Capacity,   \* snapshotCacheCapacity
    None        \* no hash, no state

Block == [number : 1..MaxHeight, fork : Forks]

Key == [pool : Pools, block : Block]

Mode == {"cached", "override", "single"}

Log == [number : 1..MaxHeight, pool : Pools, removed : BOOLEAN]

ASSUME SnapshotAssumption ==
    /\ MaxHeight \in Nat \ {0}
    /\ Capacity \in Nat \ {0}
    /\ Chains \subseteq UNION {[1..n -> Forks] : n \in 1..MaxHeight}
    /\ Owners \subseteq [Callers -> Pools]
    /\ Calls \subseteq [caller : Callers, pool : Pools, mode : Mode,
                        logs : SUBSET Log, headers : SUBSET (1..MaxHeight)]
    /\ None \notin Forks /\ None \notin Block /\ None \notin Key /\ None \notin Mode

VARIABLES
    chain,      \* the canonical chain of the node
    entries,    \* snapshotCache.entries: the pool and block a state was read of
    order,      \* snapshotCache.order
    pool,       \* the pool each caller refreshes
    entity,     \* the entity.Pool it holds
    pc, mode, minimum, prior, ref, content,     \* its call in progress
    confirmed   \* history: ref was canonical since the call last read

cache == <<entries, order>>

vars == <<chain, entries, order, pool, entity, pc, mode, minimum, prior, ref,
          content, confirmed>>

At(ch, n) == [number |-> n, fork |-> ch[n]]

Tip == At(chain, Len(chain))

Canonical(ch, b) == b # None /\ b.number <= Len(ch) /\ ch[b.number] = b.fork

NoPrior == [b \in Block |-> None]

(* The entity after a refresh.  A single call knows no hash. *)
Entity == [number : 0..MaxHeight, fork : Forks \cup {None}, content : Key \cup {None}]

-----------------------------------------------------------------------------
(* Removed logs and other pools' logs are ignored; the rest only says how  *)
(* recent the state must be.                                               *)
Minimum_IgnoresEntity(c, call) ==
    Max({0} \cup call.headers
          \cup {l.number : l \in {x \in call.logs : x.pool = pool[c] /\ ~x.removed}})

Minimum_OffByOne(c, call) ==
    1 + Max({entity[c].number} \cup call.headers
              \cup {l.number : l \in {x \in call.logs : x.pool = pool[c] /\ ~x.removed}})

Minimum(c, call) ==
    Max({entity[c].number} \cup call.headers
          \cup {l.number : l \in {x \in call.logs : x.pool = pool[c] /\ ~x.removed}})

Move(c, from, to) == pc[c] = from /\ pc' = [pc EXCEPT ![c] = to]

(* The first thing a call touches that others share is the cache: every    *)
(* state of this pool is copied, under the lock.                           *)
Captured(c, m) ==
    [b \in Block |-> IF m = "cached" THEN entries[[pool |-> pool[c], block |-> b]]
                     ELSE None]

(* GetNewPoolStateWithOverrides is given logs but no headers. *)
Start(c, call) ==
    /\ call.caller = c /\ call.pool = pool[c]
    /\ call.mode = "override" => call.headers = {}
    /\ Move(c, "idle", IF call.mode = "single" THEN "read" ELSE "header")
    /\ mode' = [mode EXCEPT ![c] = call.mode]
    /\ minimum' = [minimum EXCEPT ![c] = Minimum(c, call)]
    /\ prior' = [prior EXCEPT ![c] = Captured(c, call.mode)]
    /\ UNCHANGED <<chain, cache, pool, entity, ref, content, confirmed>>

(* The latest header, then the look-up among the states captured before    *)
(* it, which needs nothing but them.                                       *)
Found(c, b) ==
    /\ Move(c, "header", IF prior[c][b] # None THEN "apply" ELSE "read")
    /\ ref' = [ref EXCEPT ![c] = b]
    /\ content' = [content EXCEPT ![c] = prior[c][b]]
    /\ prior' = [prior EXCEPT ![c] = NoPrior]
    /\ confirmed' = [confirmed EXCEPT ![c] = Canonical(chain, b)]
    /\ UNCHANGED <<chain, cache, pool, entity, mode, minimum>>

(* A refresh that took a header of the past for the latest one. *)
Header_Historical(c) == \E b \in Block : (b = Tip \/ prior[c][b] # None) /\ Found(c, b)

Header(c) == Found(c, Tip)

(* The block the aggregate runs on.  By hash it is the one asked for,      *)
(* canonical or not; by number it is whatever is canonical now.            *)
Selected_ByNumber(c) ==
    IF mode[c] # "single" /\ ref[c].number <= Len(chain)
    THEN At(chain, ref[c].number) ELSE Tip

Selected(c) ==
    CASE mode[c] = "cached" -> ref[c]
      [] mode[c] = "override" -> At(chain, ref[c].number)
      [] mode[c] = "single" -> Tip

Read(c) ==
    /\ Move(c, "read", IF mode[c] = "single" THEN "apply" ELSE "verify")
    /\ mode[c] = "override" => ref[c].number <= Len(chain)
    /\ content' = [content EXCEPT ![c] = [pool |-> pool[c], block |-> Selected(c)]]
    /\ confirmed' = [confirmed EXCEPT ![c] = Canonical(chain, ref[c])]
    /\ UNCHANGED <<chain, cache, pool, entity, mode, minimum, prior, ref>>

(* A different block at that height, or none, is an error: Reorganised. *)
Verify(c) ==
    /\ Move(c, "verify", IF mode[c] = "cached" THEN "put" ELSE "apply")
    /\ Canonical(chain, ref[c])
    /\ UNCHANGED <<chain, cache, pool, entity, mode, minimum, prior, ref, content,
                   confirmed>>

(* The oldest key makes room, and only for a key that is not there yet. *)
Put_KeepsEvicted(c) ==
    LET key == [pool |-> pool[c], block |-> ref[c]]
    IN  /\ Move(c, "put", "apply")
        /\ entries' = [entries EXCEPT ![key] = content[c]]
        /\ order' = IF entries[key] # None THEN order
                    ELSE IF Len(order) = Capacity THEN Append(Tail(order), key)
                    ELSE Append(order, key)
        /\ UNCHANGED <<chain, pool, entity, mode, minimum, prior, ref, content, confirmed>>

Put(c) ==
    LET key == [pool |-> pool[c], block |-> ref[c]]
        full == entries[key] = None /\ Len(order) = Capacity
    IN  /\ Move(c, "put", "apply")
        /\ entries' = [k \in Key |-> CASE k = key -> content[c]
                                      [] k # key /\ full /\ k = order[1] -> None
                                      [] OTHER -> entries[k]]
        /\ order' = CASE entries[key] # None -> order
                      [] full -> Append(Tail(order), key)
                      [] OTHER -> Append(order, key)
        /\ UNCHANGED <<chain, pool, entity, mode, minimum, prior, ref, content, confirmed>>

Return(c, from) ==
    /\ pc[c] \in from
    /\ pc' = [pc EXCEPT ![c] = "idle"]
    /\ mode' = [mode EXCEPT ![c] = None]
    /\ minimum' = [minimum EXCEPT ![c] = 0]
    /\ prior' = [prior EXCEPT ![c] = NoPrior]
    /\ ref' = [ref EXCEPT ![c] = None]
    /\ content' = [content EXCEPT ![c] = None]
    /\ confirmed' = [confirmed EXCEPT ![c] = FALSE]
    /\ UNCHANGED <<chain, cache, pool>>

Snapshot(c) ==
    [number |-> content[c].block.number,
     fork |-> IF mode[c] = "single" THEN None ELSE ref[c].fork,
     content |-> content[c]]

Fresh_StrictlyNewer(c) == content[c].block.number > minimum[c]

Fresh(c) == content[c].block.number >= minimum[c]

Apply(c) ==
    /\ Return(c, {"apply"})
    /\ Fresh(c)
    /\ entity' = [entity EXCEPT ![c] = Snapshot(c)]

(* ErrSnapshotBehind returns the entity as it was. *)
Behind(c) ==
    /\ Return(c, {"apply"})
    /\ ~Fresh(c)
    /\ UNCHANGED entity

(* So do a read of a height that is gone, and a header that has changed. *)
Reorganised(c) ==
    /\ Return(c, {"read", "verify"})
    /\ pc[c] = "read" => mode[c] = "override" /\ ref[c].number > Len(chain)
    /\ pc[c] = "verify" => ~Canonical(chain, ref[c])
    /\ UNCHANGED entity

(* And every other error: a cancelled context, a failed RPC, an answer     *)
(* that does not validate, tokens that differ from the entity's.           *)
Fail(c) ==
    /\ Return(c, {"header", "read", "verify", "apply"})
    /\ UNCHANGED entity

(* A new block, a reorganisation, or a node that answers from another view. *)
ChainMoves ==
    \E ch \in Chains \ {chain} :
        /\ chain' = ch
        /\ confirmed' = [c \in Callers |-> confirmed[c] \/ Canonical(ch, ref[c])]
        /\ UNCHANGED <<cache, pool, entity, pc, mode, minimum, prior, ref, content>>

Init ==
    /\ chain \in Chains
    /\ entries = [k \in Key |-> None]
    /\ order = <<>>
    /\ pool \in Owners
    /\ entity = [c \in Callers |->
                   [number |-> 0, fork |-> None, content |-> None]]
    /\ pc = [c \in Callers |-> "idle"]
    /\ mode = [c \in Callers |-> None]
    /\ minimum = [c \in Callers |-> 0]
    /\ prior = [c \in Callers |-> NoPrior]
    /\ ref = [c \in Callers |-> None]
    /\ content = [c \in Callers |-> None]
    /\ confirmed = [c \in Callers |-> FALSE]

Refresh(c) ==
    \/ Header(c) \/ Read(c) \/ Verify(c) \/ Put(c)
    \/ Apply(c) \/ Behind(c) \/ Reorganised(c)

Next ==
    \/ ChainMoves
    \/ \E c \in Callers, call \in Calls : Start(c, call)
    \/ \E c \in Callers : Refresh(c)
    \/ \E c \in Callers : Fail(c)

(* A call runs on, and every pool is polled again and again without logs.  *)
Fairness ==
    \A c \in Callers :
        /\ WF_vars(Refresh(c))
        /\ SF_vars(\E call \in Calls : call.logs = {} /\ call.headers = {}
                                       /\ Start(c, call))

Spec == Init /\ [][Next]_vars

FairSpec == Spec /\ Fairness

-----------------------------------------------------------------------------
(* Properties *)

TypeOK ==
    /\ chain \in Chains
    /\ entries \in [Key -> Key \cup {None}]
    /\ order \in Seq(Key)
    /\ pool \in [Callers -> Pools]
    /\ entity \in [Callers -> Entity]
    /\ pc \in [Callers -> {"idle", "header", "read", "verify",
                           "put", "apply"}]
    /\ mode \in [Callers -> Mode \cup {None}]
    /\ minimum \in [Callers -> 0..MaxHeight]
    /\ prior \in [Callers -> [Block -> Key \cup {None}]]
    /\ ref \in [Callers -> Block \cup {None}]
    /\ content \in [Callers -> Key \cup {None}]
    /\ confirmed \in [Callers -> BOOLEAN]

(* A state about to be published is that of this pool, and of the very     *)
(* block whose hash goes with it, whatever the chain did between header,   *)
(* read and verification and whichever call put it in the cache ("Only     *)
(* complete, verified states enter", snapshot_cache.go:26).  Overrides     *)
(* are read by number and promise no more than the height.                 *)
SnapshotIsPure ==
    \A c \in Callers : pc[c] = "apply" =>
        /\ content[c].pool = pool[c]
        /\ mode[c] = "override" => content[c].block.number = ref[c].number
        /\ mode[c] = "cached" => content[c].block = ref[c]

(* "Every reuse must follow a new canonical header read"                   *)
(* (snapshot_cache.go:28): a state about to be published with a hash, read *)
(* or reused, was canonical at some moment of this very call, and after    *)
(* the read if there was one.  An orphaned snapshot does not come back     *)
(* from the cache.                                                         *)
ReuseIsRevalidated ==
    \A c \in Callers : pc[c] \in {"put", "apply"} /\ mode[c] # "single" => confirmed[c]

(* The cache and its eviction order name the same keys, each once: an      *)
(* entry that order does not know would never be evicted.                  *)
CacheBounded ==
    /\ Len(order) <= Capacity
    /\ \A i, j \in 1..Len(order) : order[i] = order[j] => i = j
    /\ {k \in Key : entries[k] # None} = {order[i] : i \in 1..Len(order)}

(* "Duplicates, ordering, and removed logs cannot corrupt it"              *)
(* (pool_tracker.go:39): no sequence of calls, successful or not, takes an *)
(* entity back to an older block.                                          *)
NeverBackwards ==
    [][\A c \in Callers : entity'[c].number >= entity[c].number]_vars

(* A step of the node's or the caller's doing, not of the refresh. *)
Disturbance ==
    \/ ChainMoves
    \/ \E c \in Callers : Fail(c) /\ ~Behind(c) /\ ~Reorganised(c)

(* Once the chain rests and calls stop failing, every pool comes to show   *)
(* the latest block, unless its entity is from a block higher than that:   *)
(* no cached state, no refused refresh and no removed log holds it back.   *)
CatchesUp ==
    (<>[][~Disturbance]_vars) =>
        \A c \in Callers : <>[](\/ entity[c].content = [pool |-> pool[c], block |-> Tip]
                               \/ entity[c].number > Tip.number)
=============================================================================
