----------------------------- MODULE SwapLimit ------------------------------
(***************************************************************************)
(* The inventory-based swap limits of pkg/swaplimit: balances shared by    *)
(* every pool of a market maker, updated by the simulation of each swap,   *)
(* and cloned for every candidate route.                                   *)
(*                                                                         *)
(*   "inventory"  Inventory: UpdateLimit under the object's RWMutex;       *)
(*   "swapped"    SwappedInventory: also counts what was swapped in;       *)
(*   "allowed"    InventoryWithAllowedSenders: UpdateLimit takes no lock.  *)
(*                                                                         *)
(* Maps hold *big.Int, and a clone copies the map, not the numbers: the    *)
(* heap of numbers is part of the state, so that sharing a cell and        *)
(* replacing it can be told apart.  Threads interleave at the accesses of  *)
(* UpdateLimit to the map and to a number it changes in place, which is    *)
(* read and written in two steps: a count that an original shares with its *)
(* clone is under two different locks.  Clone takes no lock in the code,   *)
(* and takes none here.                                                    *)
(***************************************************************************)
EXTENDS Integers, Sequences

CONSTANTS
    Objects,    \* the limit objects that can come to exist
    Original,   \* the one that exists from the start
    Keys,       \* tokens, or any other key of a limit
    Threads,
    Calls,      \* the trades that are made
    Amounts,    \* the balances a market maker starts with
    Kinds,      \* which of the three types the objects have
    StartCells, \* how many numbers hold those balances
    MaxTrades,  \* bound: how many UpdateLimit calls are made
    None        \* an absent map entry, a free lock, a thread without a call

Copy == [from : Objects, to : Objects]

Trade == [obj : Objects, dec : Keys, inc : Keys, out : Nat, in : Nat]

ASSUME LimitAssumption ==
    /\ Original \in Objects
    /\ Calls \subseteq Trade
    /\ Amounts \subseteq Nat
    /\ Kinds \subseteq {"inventory", "swapped", "allowed"}
    /\ StartCells \in Nat
    /\ MaxTrades \in Nat

ASSUME AbsentAssumption ==
    None \notin Nat /\ None \notin Threads /\ None \notin Trade /\ None \notin Copy

VARIABLES
    kind,       \* the type of all objects
    live,       \* the objects that exist
    heap,       \* the numbers allocated so far; a cell is its position
    balance,    \* Inventory.balance
    swapped,    \* SwappedInventory.swapped
    lock,       \* Inventory.lock: the thread that holds it for writing
    pc,         \* where each thread is in UpdateLimit
    trade,      \* the arguments of the call it is in
    new,        \* the balance it has computed and not yet stored
    copy,       \* the clone it is making: of which object, and which one
    begun,      \* how many calls were made
    fatal,      \* the Go runtime found a concurrent map access and died
    ledger,     \* history: what each balance should be after the trades
                \* that succeeded
    tradedIn,   \* history: what those trades swapped in
    torn        \* history: the numbers that two threads were adding to at once

store == <<heap, balance, swapped>>

vars == <<kind, live, heap, balance, swapped, lock, pc, trade, new, copy, begun,
          fatal, ledger, tradedIn, torn>>

Step == {"idle", "lock", "swap", "writeSwapped", "decrease", "writeDecrease",
         "increase", "writeIncrease", "unlock", "clone"}

(* The number behind a map entry; an absent one counts as nothing. *)
Number(cells, cell) == IF cell = None THEN 0 ELSE cells[cell]

Balance(o, k) == Number(heap, balance[o][k])

Swapped(o, k) == Number(heap, swapped[o][k])

(* new(big.Int) stored in a map: a cell of its own. *)
Allocated(number) == Append(heap, number)

(* The map entry is replaced; the old number stays what it was. *)
Stored_Unallocated(o, k, number) ==
    /\ balance' = [balance EXCEPT ![o][k] = Len(heap) + 1]
    /\ UNCHANGED heap

Stored_InPlace(o, k, number) ==
    IF balance[o][k] = None
    THEN /\ heap' = Allocated(number)
         /\ balance' = [balance EXCEPT ![o][k] = Len(heap) + 1]
    ELSE /\ heap' = [heap EXCEPT ![balance[o][k]] = number]
         /\ UNCHANGED balance

Stored(o, k, number) ==
    /\ heap' = Allocated(number)
    /\ balance' = [balance EXCEPT ![o][k] = Len(heap) + 1]

(* A thread's step.  Nothing moves any more once the process is dead. *)
Move(t, from, to) ==
    /\ ~fatal
    /\ pc[t] = from
    /\ pc' = [pc EXCEPT ![t] = to]

-----------------------------------------------------------------------------
(* UpdateLimit *)

Begin(t, call) ==
    /\ begun < MaxTrades
    /\ call.obj \in live
    /\ Move(t, "idle", IF kind = "allowed" THEN "decrease" ELSE "lock")
    /\ trade' = [trade EXCEPT ![t] = call]
    /\ begun' = begun + 1
    /\ UNCHANGED <<kind, live, store, lock, new, copy, fatal, ledger, tradedIn,
                   torn>>

Acquire_Unchecked(t) ==
    /\ Move(t, "lock", IF kind = "swapped" THEN "swap" ELSE "decrease")
    /\ lock' = [lock EXCEPT ![trade[t].obj] = t]
    /\ UNCHANGED <<kind, live, store, trade, new, copy, begun, fatal, ledger,
                   tradedIn, torn>>

Acquire(t) ==
    /\ Move(t, "lock", IF kind = "swapped" THEN "swap" ELSE "decrease")
    /\ lock[trade[t].obj] = None
    /\ lock' = [lock EXCEPT ![trade[t].obj] = t]
    /\ UNCHANGED <<kind, live, store, trade, new, copy, begun, fatal, ledger,
                   tradedIn, torn>>

(* The count that a trade adds to. *)
Count(t) == swapped[trade[t].obj][trade[t].inc]

AddingTo(cell) ==
    {u \in Threads : pc[u] = "writeSwapped" /\ cell # None /\ Count(u) = cell}

(* SwappedInventory adds to the number in place if there is one, before it *)
(* is known whether the trade succeeds: big.Int.Add reads it, or the new   *)
(* number is zero,                                                         *)
AddSwapped(t) ==
    /\ Move(t, "swap", "writeSwapped")
    /\ new' = [new EXCEPT ![t] = Number(heap, Count(t)) + trade[t].in]
    /\ torn' = IF AddingTo(Count(t)) = {} THEN torn ELSE torn \cup {Count(t)}
    /\ UNCHANGED <<kind, live, store, lock, trade, copy, begun, fatal, ledger,
                   tradedIn>>

(* and writes the sum back, whatever became of the number in between.      *)
WriteSwapped_Overwrites(t) ==
    /\ Move(t, "writeSwapped", "decrease")
    /\ heap' = Allocated(trade[t].in)
    /\ swapped' = [swapped EXCEPT ![trade[t].obj][trade[t].inc] = Len(heap) + 1]
    /\ UNCHANGED <<kind, live, balance, lock, trade, new, copy, begun, fatal,
                   ledger, tradedIn, torn>>

WriteSwapped(t) ==
    /\ Move(t, "writeSwapped", "decrease")
    /\ \/ /\ Count(t) = None
          /\ heap' = Allocated(new[t])
          /\ swapped' = [swapped EXCEPT ![trade[t].obj][trade[t].inc] = Len(heap) + 1]
       \/ /\ Count(t) # None
          /\ heap' = [heap EXCEPT ![Count(t)] = new[t]]
          /\ UNCHANGED swapped
    /\ UNCHANGED <<kind, live, balance, lock, trade, new, copy, begun, fatal,
                   ledger, tradedIn, torn>>

Refused_OnlyUnknown(t) == balance[trade[t].obj][trade[t].dec] = None

(* ErrTokenNotAvailable and ErrNotEnoughInventory leave the balances. *)
Refused(t) ==
    \/ balance[trade[t].obj][trade[t].dec] = None
    \/ Balance(trade[t].obj, trade[t].dec) < trade[t].out

Reject(t) ==
    /\ Move(t, "decrease", "unlock")
    /\ Refused(t)
    /\ UNCHANGED <<kind, live, store, lock, trade, new, copy, begun, fatal, ledger,
                   tradedIn, torn>>

Decrease(t) ==
    /\ Move(t, "decrease", "writeDecrease")
    /\ ~Refused(t)
    /\ new' = [new EXCEPT ![t] =
                 Balance(trade[t].obj, trade[t].dec) - trade[t].out]
    /\ UNCHANGED <<kind, live, store, lock, trade, copy, begun, fatal, ledger,
                   tradedIn, torn>>

WriteDecrease(t) ==
    /\ Move(t, "writeDecrease", "increase")
    /\ Stored(trade[t].obj, trade[t].dec, new[t])
    /\ UNCHANGED <<kind, live, swapped, lock, trade, new, copy, begun, fatal,
                   ledger, tradedIn, torn>>

(* The increased key is read after the decrease: it may be the same key. *)
Increase(t) ==
    /\ Move(t, "increase", "writeIncrease")
    /\ new' = [new EXCEPT ![t] =
                 Balance(trade[t].obj, trade[t].inc) + trade[t].in]
    /\ UNCHANGED <<kind, live, store, lock, trade, copy, begun, fatal, ledger,
                   tradedIn, torn>>

WriteIncrease(t) ==
    LET o == trade[t].obj
    IN  /\ Move(t, "writeIncrease", "unlock")
        /\ Stored(o, trade[t].inc, new[t])
        /\ ledger' = [ledger EXCEPT ![o] =
              [k \in Keys |-> @[k] - (IF k = trade[t].dec THEN trade[t].out ELSE 0)
                                   + (IF k = trade[t].inc THEN trade[t].in ELSE 0)]]
        /\ tradedIn' = [tradedIn EXCEPT ![o][trade[t].inc] = @ + trade[t].in]
        /\ UNCHANGED <<kind, live, swapped, lock, trade, new, copy, begun,
                       fatal, torn>>

(* The deferred unlock, on success and on error. *)
Return_KeepsLockOnError(t) ==
    /\ Move(t, "unlock", "idle")
    /\ lock' = IF kind = "allowed" \/ Refused(t) THEN lock
               ELSE [lock EXCEPT ![trade[t].obj] = None]
    /\ trade' = [trade EXCEPT ![t] = None]
    /\ new' = [new EXCEPT ![t] = 0]
    /\ UNCHANGED <<kind, live, store, copy, begun, fatal, ledger, tradedIn, torn>>

Return(t) ==
    /\ Move(t, "unlock", "idle")
    /\ lock' = IF kind = "allowed" THEN lock
               ELSE [lock EXCEPT ![trade[t].obj] = None]
    /\ trade' = [trade EXCEPT ![t] = None]
    /\ new' = [new EXCEPT ![t] = 0]
    /\ UNCHANGED <<kind, live, store, copy, begun, fatal, ledger, tradedIn, torn>>

-----------------------------------------------------------------------------
(* Clone: the maps are copied one after the other as they are, whoever is  *)
(* writing them; the numbers are shared.  The histories of the clone       *)
(* restart from what was copied.                                           *)
CloneBalance(t, o, c) ==
    /\ Move(t, "idle", "clone")
    /\ o \in live /\ c \notin live
    /\ \A u \in Threads : copy[u] # None => copy[u].to # c
    /\ copy' = [copy EXCEPT ![t] = [from |-> o, to |-> c]]
    /\ balance' = [balance EXCEPT ![c] = balance[o]]
    /\ UNCHANGED <<kind, live, heap, swapped, lock, trade, new, begun, fatal,
                   ledger, tradedIn, torn>>

CloneSwapped(t) ==
    LET o == copy[t].from
        c == copy[t].to
    IN  /\ Move(t, "clone", "idle")
        /\ swapped' = [swapped EXCEPT ![c] = swapped[o]]
        /\ live' = live \cup {c}
        /\ ledger' = [ledger EXCEPT ![c] = [k \in Keys |-> Balance(c, k)]]
        /\ tradedIn' = [tradedIn EXCEPT ![c] = tradedIn[o]]
        /\ copy' = [copy EXCEPT ![t] = None]
        /\ UNCHANGED <<kind, heap, balance, lock, trade, new, begun, fatal, torn>>

(* A map written by one thread while another reads it without the lock     *)
(* (Clone, or any access of an object whose UpdateLimit does not lock):    *)
(* the Go runtime may end the process.                                     *)
Writes(t) == pc[t] \in {"writeDecrease", "writeIncrease"}

Accesses(t) == pc[t] \in {"decrease", "writeDecrease", "increase", "writeIncrease"}

Races(t, u) ==
    \/ Writes(t) /\ pc[u] = "idle"
    \/ Writes(t) /\ Accesses(u) /\ trade[u].obj = trade[t].obj
    \/ pc[t] = "writeSwapped" /\ pc[u] = "clone" /\ copy[u].from = trade[t].obj

MapFault ==
    /\ ~fatal
    /\ \E t, u \in Threads : t # u /\ Races(t, u)
    /\ fatal' = TRUE
    /\ UNCHANGED <<kind, live, store, lock, pc, trade, new, copy, begun, ledger,
                   tradedIn, torn>>

Init ==
    /\ kind \in Kinds
    /\ live = {Original}
    /\ heap \in [1..StartCells -> Amounts]
    /\ balance \in [Objects -> [Keys -> 1..StartCells \cup {None}]]
    /\ \A o \in Objects \ {Original} : \A k \in Keys : balance[o][k] = None
    /\ swapped = [o \in Objects |-> [k \in Keys |-> None]]
    /\ lock = [o \in Objects |-> None]
    /\ pc = [t \in Threads |-> "idle"]
    /\ trade = [t \in Threads |-> None]
    /\ new = [t \in Threads |-> 0]
    /\ copy = [t \in Threads |-> None]
    /\ begun = 0
    /\ fatal = FALSE
    /\ ledger = [o \in Objects |-> [k \in Keys |-> Balance(o, k)]]
    /\ tradedIn = [o \in Objects |-> [k \in Keys |-> 0]]
    /\ torn = {}

UpdateLimit(t) ==
    \/ \E call \in Calls : Begin(t, call)
    \/ Acquire(t)
    \/ AddSwapped(t)
    \/ WriteSwapped(t)
    \/ Reject(t)
    \/ Decrease(t)
    \/ WriteDecrease(t)
    \/ Increase(t)
    \/ WriteIncrease(t)
    \/ Return(t)

Clone(t) ==
    \/ \E o, c \in Objects : CloneBalance(t, o, c)
    \/ CloneSwapped(t)

Next ==
    \/ \E t \in Threads : UpdateLimit(t)
    \/ \E t \in Threads : Clone(t)
    \/ MapFault

Proceeds(t) ==
    \/ AddSwapped(t) \/ WriteSwapped(t)
    \/ Reject(t)
    \/ Decrease(t) \/ WriteDecrease(t)
    \/ Increase(t) \/ WriteIncrease(t)
    \/ Return(t)

(* A running thread runs on, and one that waits for a free lock takes it;  *)
(* with a bounded number of trades nobody is overtaken for ever.           *)
Fairness ==
    \A t \in Threads :
        /\ WF_vars(Acquire(t))
        /\ WF_vars(Proceeds(t))

Spec == Init /\ [][Next]_vars

FairSpec == Spec /\ Fairness

-----------------------------------------------------------------------------
(* Properties *)

TypeOK ==
    /\ kind \in Kinds
    /\ live \subseteq Objects
    /\ heap \in Seq(Int)
    /\ balance \in [Objects -> [Keys -> 1..Len(heap) \cup {None}]]
    /\ swapped \in [Objects -> [Keys -> 1..Len(heap) \cup {None}]]
    /\ lock \in [Objects -> Threads \cup {None}]
    /\ pc \in [Threads -> Step]
    /\ trade \in [Threads -> Trade \cup {None}]
    /\ new \in [Threads -> Int]
    /\ copy \in [Threads -> Copy \cup {None}]
    /\ begun \in Nat
    /\ fatal \in BOOLEAN
    /\ ledger \in [Objects -> [Keys -> Int]]
    /\ tradedIn \in [Objects -> [Keys -> Nat]]
    /\ torn \subseteq 1..Len(heap)

(* No call of UpdateLimit is past its first read of o's balances. *)
Quiet(o) ==
    \A t \in Threads : trade[t] # None /\ trade[t].obj = o
                          => pc[t] \in {"lock", "swap", "writeSwapped", "decrease",
                                        "unlock"}

(* No interleaving of trades spends what is not there: no balance is ever  *)
(* negative, although each caller computed its trade from a limit it read  *)
(* before (updateLimit checks again under the lock).                       *)
NoOverdraw == \A o \in Objects, k \in Keys : Balance(o, k) >= 0

(* Every trade that succeeded is in the balances, and nothing else is:     *)
(* none is lost, doubled or half applied, even when a trade decreases and  *)
(* increases the same key ("UpdateLimit updates both limits for a trade",  *)
(* pool/swap_limit.go:19).                                                 *)
EveryTradeCounted ==
    \A o \in live : Quiet(o) => \A k \in Keys : Balance(o, k) = ledger[o][k]

(* The thread that moves is working for object o. *)
WorksFor(o) == \E t \in Threads : pc'[t] # pc[t] /\ trade[t] # None
                                    /\ trade[t].obj = o

(* Trades on one object are invisible in every other: neither the balances *)
(* of a clone follow its original nor the other way round, although they   *)
(* share the numbers ("UpdateLimit of the original does not affect the     *)
(* clone", swaplimit/inventory.go:31).                                     *)
BalancesIsolated ==
    [][\A o \in live : ~WorksFor(o) =>
          \A k \in Keys : Balance(o, k)' = Balance(o, k)]_vars

(* The same promise for what GetSwapped reports of a clone, in the         *)
(* direction that is documented.                                           *)
SwappedIsolated ==
    [][\A o \in live \ {Original} : ~WorksFor(o) =>
          \A k \in Keys : Swapped(o, k)' = Swapped(o, k)]_vars

(* GetSwapped reports at least what was swapped in through an object and   *)
(* the ones it was cloned from, whichever clones share the count, unless   *)
(* two trades, on objects that share it, were adding to it at the same     *)
(* time (UpdateLimit, swapped_inventory.go:50-55).                         *)
SwappedCoversTrades ==
    kind = "swapped" =>
        \A o \in live, k \in Keys :
            Swapped(o, k) >= tradedIn[o][k] \/ swapped[o][k] \in torn

(* A call that started returns, whatever the outcome of the others: no     *)
(* error path keeps the lock.                                              *)
UpdateReturns == \A t \in Threads : pc[t] = "lock" ~> (pc[t] = "idle" \/ fatal)
=============================================================================
