-------------------------- MODULE SwapLimitProofs ---------------------------
(***************************************************************************)
(* Proofs about SwapLimit, for any number of objects, keys, threads and    *)
(* trades.  NoOverdraw and BalancesIsolated hold of all three types;       *)
(* EveryTradeCounted needs the lock, so it is proved when no object is an  *)
(* InventoryWithAllowedSenders.                                            *)
(***************************************************************************)
EXTENDS SwapLimit, SequenceTheorems, TLAPS

(* A thread has a call exactly while it is in UpdateLimit, and a clone it  *)
(* is making, of its own, while it is in Clone.                            *)
Calling(t) == pc[t] \notin {"idle", "clone"}

CallsOK ==
    \A t \in Threads :
        /\ Calling(t) => trade[t] \in Trade /\ trade[t].obj \in live
        /\ ~Calling(t) => trade[t] = None

CopiesOK ==
    \A t \in Threads :
        /\ pc[t] = "clone" => copy[t] \in Copy
        /\ copy[t] # None => copy[t].from \in live /\ copy[t].to \notin live
        /\ \A u \in Threads : copy[t] # None /\ copy[u] # None /\ t # u
                                 => copy[t].to # copy[u].to

(* Past the lock, the thread holds the lock of its object. *)
Holding(t) == pc[t] \notin {"idle", "clone", "lock"}

LockOK ==
    kind # "allowed" =>
        \A t \in Threads : Holding(t) => lock[trade[t].obj] = t

(* All numbers, stored or about to be, are natural. *)
NumbersOK == heap \in Seq(Nat) /\ new \in [Threads -> Nat]

(* The cells mutated in place are not those of balances. *)
Separate ==
    \A o, p \in Objects, k, l \in Keys :
        swapped[o][k] # None => swapped[o][k] # balance[p][l]

(* How far the balances of a trade's object are from the ledger at each    *)
(* point of updateLimit.                                                   *)
Spent(t, k) == IF k = trade[t].dec THEN trade[t].out ELSE 0

Earned(t, k) == IF k = trade[t].inc THEN trade[t].in ELSE 0

ObjectOK(o) == Quiet(o) => \A k \in Keys : Balance(o, k) = ledger[o][k]

CallOK(t) ==
    LET o == trade[t].obj
    IN  /\ pc[t] = "writeDecrease" =>
              /\ new[t] = Balance(o, trade[t].dec) - trade[t].out
              /\ \A k \in Keys : Balance(o, k) = ledger[o][k]
        /\ pc[t] \in {"increase", "writeIncrease"} =>
              \A k \in Keys : Balance(o, k) = ledger[o][k] - Spent(t, k)
        /\ pc[t] = "writeIncrease" => new[t] = Balance(o, trade[t].inc) + trade[t].in

AccountsOK == /\ \A o \in live : ObjectOK(o)
              /\ \A t \in Threads : CallOK(t)

(* What was swapped in covers the trades, those under way included, unless *)
(* two threads were adding to the number at once; and a thread that is     *)
(* adding to it, alone, has read what is there.                            *)
Covers(o, k, n) == Swapped(o, k) >= tradedIn[o][k] + n \/ swapped[o][k] \in torn

Counted(t) == Accesses(t) => Covers(trade[t].obj, trade[t].inc, trade[t].in)

Adding(t) == pc[t] = "writeSwapped"

ReadOK(t) == Adding(t) => \/ new[t] = Number(heap, Count(t)) + trade[t].in
                          \/ Count(t) \in torn

AloneOK ==
    \A t, u \in Threads :
        Adding(t) /\ Adding(u) /\ t # u /\ Count(t) # None /\ Count(t) = Count(u)
            => Count(t) \in torn

CountOK == /\ \A o \in live, k \in Keys : Covers(o, k, 0)
           /\ \A t \in Threads : Counted(t) /\ ReadOK(t)
           /\ AloneOK

BaseInv == TypeOK /\ CallsOK /\ CopiesOK /\ NumbersOK /\ Separate

LedgerInv ==
    /\ LockOK
    /\ kind # "allowed" => AccountsOK
    /\ kind = "swapped" => CountOK

-----------------------------------------------------------------------------
(* What the operations do to the numbers. *)

Cells == 1..Len(heap) \cup {None}

LEMMA AllocatedFacts ==
    ASSUME heap \in Seq(Nat), NEW n \in Nat
    PROVE  /\ Len(heap) \in Nat
           /\ Allocated(n) \in Seq(Nat)
           /\ Len(Allocated(n)) = Len(heap) + 1
           /\ \A i \in 1..Len(heap) : Allocated(n)[i] = heap[i]
           /\ Allocated(n)[Len(heap) + 1] = n
BY DEF Allocated

LEMMA CellsFacts ==
    ASSUME heap \in Seq(Nat), NEW c \in Cells
    PROVE  /\ Number(heap, c) \in Nat
           /\ c # None => c \in 1..Len(heap) /\ c \in Nat /\ Number(heap, c) = heap[c]
           /\ c # Len(heap) + 1
<1>1. Len(heap) \in Nat /\ heap \in [1..Len(heap) -> Nat]
  BY LenProperties
<1>2. c # None => c \in 1..Len(heap)
  BY DEF Cells
<1>. QED
  BY <1>1, <1>2, AbsentAssumption DEF Number

LEMMA NumbersNat ==
    ASSUME TypeOK, NumbersOK
    PROVE  \A o \in Objects, k \in Keys : Balance(o, k) \in Nat /\ Swapped(o, k) \in Nat
<1> SUFFICES ASSUME NEW o \in Objects, NEW k \in Keys
             PROVE  Balance(o, k) \in Nat /\ Swapped(o, k) \in Nat
  OBVIOUS
<1>1. balance[o][k] \in Cells /\ swapped[o][k] \in Cells
  BY DEF TypeOK, Cells
<1>. QED
  BY <1>1, CellsFacts DEF NumbersOK, Balance, Swapped

(* Storing a balance in a new cell changes that balance and no other       *)
(* number that any object sees.                                            *)
LEMMA StoredEffect ==
    ASSUME TypeOK, NumbersOK, Separate,
           NEW o \in Objects, NEW k \in Keys, NEW n \in Nat,
           Stored(o, k, n), swapped' = swapped
    PROVE  /\ heap' \in Seq(Nat)
           /\ balance' \in [Objects -> [Keys -> Cells']]
           /\ swapped' \in [Objects -> [Keys -> Cells']]
           /\ Separate'
           /\ \A p \in Objects, l \in Keys :
                 Balance(p, l)' = IF p = o /\ l = k THEN n ELSE Balance(p, l)
           /\ \A p \in Objects, l \in Keys : Swapped(p, l)' = Swapped(p, l)
           /\ Len(heap') >= Len(heap)
<1>1. heap \in Seq(Nat) /\ Len(heap) \in Nat
  BY LenProperties DEF NumbersOK
<1>2. /\ heap' = Allocated(n)
      /\ balance' = [balance EXCEPT ![o][k] = Len(heap) + 1]
  BY DEF Stored
<1>3. /\ heap' \in Seq(Nat) /\ Len(heap') = Len(heap) + 1
      /\ \A i \in 1..Len(heap) : heap'[i] = heap[i]
      /\ heap'[Len(heap) + 1] = n
  BY <1>1, <1>2, AllocatedFacts
<1>4. Cells' = Cells \cup {Len(heap) + 1}
  BY <1>1, <1>3 DEF Cells
<1>5. /\ balance \in [Objects -> [Keys -> Cells]]
      /\ swapped \in [Objects -> [Keys -> Cells]]
  BY DEF TypeOK, Cells
<1>6. /\ balance' \in [Objects -> [Keys -> Cells']]
      /\ swapped' \in [Objects -> [Keys -> Cells']]
  BY <1>2, <1>4, <1>5
<1>7. \A p \in Objects, l \in Keys :
         balance'[p][l] = IF p = o /\ l = k THEN Len(heap) + 1 ELSE balance[p][l]
  BY <1>2, <1>5
<1>8. \A c \in Cells : Number(heap', c) = Number(heap, c) /\ c # Len(heap) + 1
  BY <1>1, <1>3, CellsFacts DEF Number
<1>9. Number(heap', Len(heap) + 1) = n
  BY <1>1, <1>3, AbsentAssumption DEF Number
<1>10. Separate'
  BY <1>5, <1>7, <1>8 DEF Separate
<1>11. \A p \in Objects, l \in Keys :
          Balance(p, l)' = IF p = o /\ l = k THEN n ELSE Balance(p, l)
  BY <1>5, <1>7, <1>8, <1>9 DEF Balance
<1>12. \A p \in Objects, l \in Keys : Swapped(p, l)' = Swapped(p, l)
  BY <1>5, <1>8 DEF Swapped
<1>13. Len(heap') >= Len(heap)
  BY <1>1, <1>3
<1>. QED
  BY <1>3, <1>6, <1>10, <1>11, <1>12, <1>13

(* Writing a count, in place or not, changes no balance, and only the      *)
(* counts that are this number.                                            *)
LEMMA SwappedEffect ==
    ASSUME TypeOK, NumbersOK, Separate, NEW t \in Threads, WriteSwapped(t),
           trade[t] \in Trade, NEW o, NEW k, o = trade[t].obj, k = trade[t].inc
    PROVE  /\ heap' \in Seq(Nat)
           /\ Len(heap') >= Len(heap)
           /\ balance' \in [Objects -> [Keys -> Cells']]
           /\ swapped' \in [Objects -> [Keys -> Cells']]
           /\ Separate'
           /\ \A p \in Objects, l \in Keys : Balance(p, l)' = Balance(p, l)
           /\ \A p \in Objects, l \in Keys :
                 p # o \/ l # k => swapped'[p][l] = swapped[p][l]
           /\ swapped[o][k] # None => swapped'[o][k] = swapped[o][k]
           /\ swapped[o][k] = None => swapped'[o][k] = Len(heap) + 1
           /\ Number(heap', swapped'[o][k]) = new[t]
           /\ \A c \in Cells : c # swapped[o][k] => Number(heap', c) = Number(heap, c)
           /\ Number(heap', None) = 0
<1>1. heap \in Seq(Nat) /\ Len(heap) \in Nat /\ heap \in [1..Len(heap) -> Nat]
  BY LenProperties DEF NumbersOK
<1>2. o \in Objects /\ k \in Keys /\ new[t] \in Nat
  BY LimitAssumption DEF Trade, NumbersOK
<1>3. /\ balance \in [Objects -> [Keys -> Cells]]
      /\ swapped \in [Objects -> [Keys -> Cells]]
  BY DEF TypeOK, Cells
<1>4. balance' = balance /\ Number(heap', None) = 0 /\ Number(heap, None) = 0
  BY DEF WriteSwapped, Number
<1>5. CASE swapped[o][k] = None
  <2>1. /\ heap' = Allocated(new[t])
        /\ swapped' = [swapped EXCEPT ![o][k] = Len(heap) + 1]
    BY <1>5 DEF WriteSwapped, Count
  <2>2. /\ heap' \in Seq(Nat) /\ Len(heap') = Len(heap) + 1
        /\ \A i \in 1..Len(heap) : heap'[i] = heap[i]
        /\ heap'[Len(heap) + 1] = new[t]
    BY <1>1, <1>2, <2>1, AllocatedFacts
  <2>3. Cells' = Cells \cup {Len(heap) + 1}
    BY <1>1, <2>2 DEF Cells
  <2>4. /\ balance' \in [Objects -> [Keys -> Cells']]
        /\ swapped' \in [Objects -> [Keys -> Cells']]
    BY <1>2, <1>3, <1>4, <2>1, <2>3
  <2>5. \A p \in Objects, l \in Keys :
           swapped'[p][l] = IF p = o /\ l = k THEN Len(heap) + 1 ELSE swapped[p][l]
    BY <1>2, <1>3, <2>1
  <2>6. \A c \in Cells : /\ Number(heap', c) = Number(heap, c)
                         /\ c # Len(heap) + 1
    BY <1>1, <2>2, CellsFacts DEF Number
  <2>7. Number(heap', Len(heap) + 1) = new[t]
    BY <1>1, <2>2, AbsentAssumption DEF Number
  <2>8. Separate'
    BY <1>3, <1>4, <2>5, <2>6 DEF Separate
  <2>9. \A p \in Objects, l \in Keys : Balance(p, l)' = Balance(p, l)
    BY <1>3, <1>4, <2>6 DEF Balance
  <2>10. /\ Number(heap', swapped'[o][k]) = new[t] /\ Len(heap') >= Len(heap)
         /\ swapped'[o][k] = Len(heap) + 1
    BY <1>1, <1>2, <2>2, <2>5, <2>7
  <2>. QED
    BY <1>4, <1>5, <2>2, <2>4, <2>5, <2>6, <2>8, <2>9, <2>10
<1>6. CASE swapped[o][k] # None
  <2> DEFINE c0 == swapped[o][k]
  <2>1. c0 \in 1..Len(heap) /\ c0 \in Nat
    BY <1>2, <1>3, <1>6, CellsFacts DEF NumbersOK
  <2>2. /\ heap' = [heap EXCEPT ![c0] = new[t]]
        /\ swapped' = swapped
    BY <1>6 DEF WriteSwapped, Count
  <2>3. /\ heap' \in Seq(Nat) /\ Len(heap') = Len(heap)
        /\ \A i \in 1..Len(heap) : heap'[i] = IF i = c0 THEN new[t] ELSE heap[i]
    <3> HIDE DEF c0
    <3>. QED
      BY <1>1, <1>2, <2>1, <2>2, ExceptSeq
  <2>4. Cells' = Cells
    BY <2>3 DEF Cells
  <2>5. /\ balance' \in [Objects -> [Keys -> Cells']]
        /\ swapped' \in [Objects -> [Keys -> Cells']]
    BY <1>3, <1>4, <2>2, <2>4
  <2>6. \A c \in Cells : c # c0 => Number(heap', c) = Number(heap, c)
    <3> SUFFICES ASSUME NEW c \in Cells, c # c0
                 PROVE  Number(heap', c) = Number(heap, c)
      OBVIOUS
    <3>1. CASE c = None
      BY <3>1, <1>4
    <3>2. CASE c # None
      BY <1>1, <3>2, <2>3, CellsFacts, AbsentAssumption DEF Number
    <3>. QED
      BY <3>1, <3>2
  <2>7. Number(heap', c0) = new[t]
    BY <1>6, <2>1, <2>3 DEF Number
  <2>8. Separate'
    BY <1>4, <2>2 DEF Separate
  <2>9. \A p \in Objects, l \in Keys : Balance(p, l)' = Balance(p, l)
    BY <1>2, <1>3, <1>4, <1>6, <2>6 DEF Balance, Separate
  <2>10. /\ Len(heap') >= Len(heap) /\ swapped'[o][k] = swapped[o][k]
         /\ Number(heap', swapped'[o][k]) = new[t]
         /\ \A p \in Objects, l \in Keys : swapped'[p][l] = swapped[p][l]
    BY <1>1, <2>2, <2>3, <2>7
  <2>. QED
    BY <1>4, <1>6, <2>3, <2>5, <2>6, <2>8, <2>9, <2>10
<1>. QED
  BY <1>5, <1>6

(* Reading a count touches no number. *)
LEMMA ReadEffect ==
    ASSUME TypeOK, NumbersOK, NEW t \in Threads, AddSwapped(t), trade[t] \in Trade
    PROVE  /\ new' \in [Threads -> Nat]
           /\ torn \subseteq torn' /\ torn' \subseteq 1..Len(heap)
           /\ UNCHANGED <<kind, live, heap, balance, swapped, lock, trade, copy, begun,
                          fatal, ledger, tradedIn>>
           /\ pc[t] = "swap" /\ pc' = [pc EXCEPT ![t] = "writeSwapped"]
<1>1. Count(t) \in Cells /\ trade[t].in \in Nat
  <2>1. trade[t].obj \in Objects /\ trade[t].inc \in Keys /\ trade[t].in \in Nat
    BY LimitAssumption DEF Trade
  <2>2. swapped \in [Objects -> [Keys -> Cells]]
    BY DEF TypeOK, Cells
  <2>. QED
    BY <2>1, <2>2 DEF Count
<1>2. Number(heap, Count(t)) + trade[t].in \in Nat
  BY <1>1, CellsFacts DEF NumbersOK
<1>3. new' \in [Threads -> Nat]
  BY <1>2 DEF AddSwapped, NumbersOK
<1>4. AddingTo(Count(t)) # {} => Count(t) \in 1..Len(heap)
  BY <1>1 DEF AddingTo, Cells
<1>5. torn \subseteq torn' /\ torn' \subseteq 1..Len(heap)
  BY <1>4 DEF AddSwapped, TypeOK
<1>. QED
  BY <1>3, <1>5 DEF AddSwapped, Move, store

(* A number once torn stays a number. *)
LEMMA TornKept ==
    ASSUME torn \subseteq 1..Len(heap), heap \in Seq(Nat), heap' \in Seq(Nat),
           Len(heap') >= Len(heap)
    PROVE  torn \subseteq 1..Len(heap')
<1>1. Len(heap) \in Nat /\ Len(heap') \in Nat
  BY LenProperties
<1>. QED
  BY <1>1

(* A trade is entered in the history of its own object only. *)
LEMMA LedgerEffect ==
    ASSUME TypeOK, NEW t \in Threads, WriteIncrease(t), trade[t] \in Trade,
           NEW o \in Objects, o = trade[t].obj
    PROVE  /\ ledger' \in [Objects -> [Keys -> Int]]
           /\ tradedIn' \in [Objects -> [Keys -> Nat]]
           /\ \A p \in Objects, k \in Keys :
                 p # o => ledger'[p][k] = ledger[p][k] /\ tradedIn'[p][k] = tradedIn[p][k]
           /\ \A k \in Keys :
                 /\ ledger'[o][k] = ledger[o][k] - Spent(t, k) + Earned(t, k)
                 /\ tradedIn'[o][k] = tradedIn[o][k] + Earned(t, k)
<1>1. /\ trade[t].inc \in Keys /\ trade[t].in \in Nat /\ trade[t].out \in Nat
  BY LimitAssumption DEF Trade
<1>2. \A k \in Keys : Spent(t, k) \in Nat /\ Earned(t, k) \in Nat
  BY <1>1 DEF Spent, Earned
<1>3. /\ ledger \in [Objects -> [Keys -> Int]]
      /\ tradedIn \in [Objects -> [Keys -> Nat]]
  BY DEF TypeOK
<1> DEFINE entry == [k \in Keys |-> ledger[o][k] - Spent(t, k) + Earned(t, k)]
<1>4. ledger' = [ledger EXCEPT ![o] = entry]
  BY DEF WriteIncrease, Spent, Earned
<1>5. tradedIn' = [tradedIn EXCEPT ![o][trade[t].inc] =
                     tradedIn[o][trade[t].inc] + trade[t].in]
  BY DEF WriteIncrease
<1>6. /\ entry \in [Keys -> Int]
      /\ \A k \in Keys : entry[k] = ledger[o][k] - Spent(t, k) + Earned(t, k)
  BY <1>2, <1>3
<1>7. /\ ledger' \in [Objects -> [Keys -> Int]]
      /\ \A p \in Objects, k \in Keys : p # o => ledger'[p][k] = ledger[p][k]
      /\ ledger'[o] = entry
  <2> HIDE DEF entry
  <2>. QED
    BY <1>3, <1>4, <1>6
<1>8. /\ tradedIn' \in [Objects -> [Keys -> Nat]]
      /\ \A p \in Objects, k \in Keys : p # o => tradedIn'[p][k] = tradedIn[p][k]
  BY <1>1, <1>3, <1>5
<1>9. \A k \in Keys : tradedIn'[o][k] = tradedIn[o][k] + Earned(t, k)
  BY <1>1, <1>3, <1>5 DEF Earned
<1>. QED
  BY <1>6, <1>7, <1>8, <1>9

-----------------------------------------------------------------------------
(* The part of the invariant that needs no lock. *)

LEMMA BaseInit == Init => BaseInv
<1> SUFFICES ASSUME Init PROVE BaseInv
  OBVIOUS
<1>1. /\ heap \in Seq(Nat) /\ heap \in Seq(Int) /\ Len(heap) = StartCells
  <2>1. heap \in [1..StartCells -> Amounts] /\ StartCells \in Nat
    BY LimitAssumption DEF Init
  <2>2. heap \in Seq(Amounts)
    BY <2>1, SeqDef
  <2>3. Amounts \subseteq Nat /\ Nat \subseteq Int
    BY LimitAssumption
  <2>4. heap \in Seq(Nat)
    BY <2>2, <2>3, SeqMonotonic
  <2>5. heap \in Seq(Int)
    BY <2>3, <2>4, SeqMonotonic
  <2>6. Len(heap) = StartCells
    <3>1. Len(heap) \in Nat /\ DOMAIN heap = 1..Len(heap) /\ DOMAIN heap = 1..StartCells
      BY <2>1, <2>2, LenProperties
    <3>. QED
      BY <2>1, <3>1
  <2>. QED
    BY <2>4, <2>5, <2>6
<1>2. NumbersOK
  BY <1>1 DEF Init, NumbersOK
<1>3. /\ balance \in [Objects -> [Keys -> Cells]]
      /\ swapped \in [Objects -> [Keys -> Cells]]
  BY <1>1 DEF Init, Cells
<1>4. \A o \in Objects, k \in Keys : Balance(o, k) \in Nat
  BY <1>1, <1>3, CellsFacts DEF Balance
<1>5. ledger \in [Objects -> [Keys -> Int]]
  BY <1>4 DEF Init
<1>6. TypeOK
  <2>1. /\ balance \in [Objects -> [Keys -> 1..Len(heap) \cup {None}]]
        /\ swapped \in [Objects -> [Keys -> 1..Len(heap) \cup {None}]]
    BY <1>3 DEF Cells
  <2>2. /\ kind \in Kinds /\ live \subseteq Objects /\ begun \in Nat
        /\ fatal \in BOOLEAN
    BY LimitAssumption DEF Init
  <2>3. /\ lock \in [Objects -> Threads \cup {None}]
        /\ pc \in [Threads -> Step]
        /\ trade \in [Threads -> Trade \cup {None}]
        /\ new \in [Threads -> Int]
        /\ copy \in [Threads -> Copy \cup {None}]
        /\ tradedIn \in [Objects -> [Keys -> Nat]]
        /\ torn \subseteq 1..Len(heap)
    BY DEF Init, Step
  <2>. QED
    BY <1>1, <1>5, <2>1, <2>2, <2>3 DEF TypeOK
<1>7. CallsOK /\ CopiesOK /\ Separate
  BY DEF Init, CallsOK, CopiesOK, Calling, Separate
<1>. QED
  BY <1>2, <1>6, <1>7 DEF BaseInv

LEMMA BaseNext == BaseInv /\ [Next]_vars => BaseInv'
<1> SUFFICES ASSUME BaseInv, [Next]_vars PROVE BaseInv'
  OBVIOUS
<1> USE DEF BaseInv
<1>1. heap \in Seq(Nat) /\ heap \in Seq(Int) /\ new \in [Threads -> Nat]
  BY DEF TypeOK, NumbersOK
<1>2. \A o \in Objects, k \in Keys : Balance(o, k) \in Nat /\ Swapped(o, k) \in Nat
  BY NumbersNat
<1>3. ASSUME NEW t \in Threads, UpdateLimit(t) PROVE BaseInv'
  <2>0. /\ Calling(t) => /\ trade[t] \in Trade
                             /\ trade[t].obj \in Objects /\ trade[t].obj \in live
                             /\ trade[t].dec \in Keys /\ trade[t].inc \in Keys
                             /\ trade[t].out \in Nat /\ trade[t].in \in Nat
    BY LimitAssumption DEF CallsOK, Trade
  <2>1. ASSUME NEW call \in Calls, Begin(t, call) PROVE BaseInv'
    <3>1. call \in Trade
      BY LimitAssumption
    <3>. QED
      BY <2>1, <3>1, <1>1, AbsentAssumption
         DEF Begin, Move, TypeOK, CallsOK, CopiesOK, Calling, NumbersOK, Separate, store, Step
  <2>2. CASE Acquire(t)
    BY <2>2, <2>0 DEF Acquire, Move, TypeOK, CallsOK, CopiesOK, Calling, NumbersOK, Separate, store, Step
  <2>3. CASE AddSwapped(t)
    <3>1. trade[t] \in Trade
      BY <2>3, <2>0 DEF AddSwapped, Move, Calling
    <3>2. /\ new' \in [Threads -> Nat] /\ torn' \subseteq 1..Len(heap)
          /\ UNCHANGED <<kind, live, heap, balance, swapped, lock, trade, copy, begun,
                         fatal, ledger, tradedIn>>
          /\ pc[t] = "swap" /\ pc' = [pc EXCEPT ![t] = "writeSwapped"]
      BY <2>3, <3>1, ReadEffect
    <3>3. TypeOK' /\ NumbersOK'
      BY <3>2, <1>1 DEF TypeOK, NumbersOK, Step
    <3>4. CallsOK' /\ CopiesOK' /\ Separate'
      BY <2>0, <3>2 DEF TypeOK, CallsOK, CopiesOK, Calling, Separate
    <3>. QED
      BY <3>3, <3>4
  <2>10. CASE WriteSwapped(t)
    <3>1. /\ pc[t] = "writeSwapped" /\ trade[t] \in Trade
          /\ pc' = [pc EXCEPT ![t] = "decrease"]
          /\ UNCHANGED <<kind, live, balance, lock, trade, new, copy, begun, fatal,
                         ledger, tradedIn, torn>>
      BY <2>10, <2>0 DEF WriteSwapped, Move, Calling
    <3>2. /\ heap' \in Seq(Nat) /\ Len(heap') >= Len(heap)
          /\ balance' \in [Objects -> [Keys -> Cells']]
          /\ swapped' \in [Objects -> [Keys -> Cells']]
          /\ Separate'
      BY <2>10, <3>1, SwappedEffect
    <3>3. heap' \in Seq(Int) /\ torn' \subseteq 1..Len(heap')
      BY <3>1, <3>2, <1>1, TornKept DEF TypeOK
    <3>4. TypeOK' /\ NumbersOK'
      BY <3>1, <3>2, <3>3, <1>1 DEF TypeOK, NumbersOK, Cells, Step
    <3>5. CallsOK' /\ CopiesOK'
      BY <2>0, <3>1 DEF TypeOK, CallsOK, CopiesOK, Calling
    <3>. QED
      BY <3>2, <3>4, <3>5
  <2>4. CASE Reject(t)
    BY <2>4, <2>0 DEF Reject, Move, TypeOK, CallsOK, CopiesOK, Calling, NumbersOK, Separate, store, Step
  <2>5. CASE Decrease(t)
    <3>1. pc[t] = "decrease" /\ ~Refused(t)
      BY <2>5 DEF Decrease, Move
    <3>2. Balance(trade[t].obj, trade[t].dec) - trade[t].out \in Nat
      BY <3>1, <2>0, <1>2 DEF Refused, Calling
    <3>3. /\ pc' = [pc EXCEPT ![t] = "writeDecrease"]
          /\ new' = [new EXCEPT ![t] = Balance(trade[t].obj, trade[t].dec) - trade[t].out]
          /\ UNCHANGED <<kind, live, heap, balance, swapped, lock, trade, copy, begun,
                         fatal, ledger, tradedIn, torn>>
      BY <2>5 DEF Decrease, Move, store
    <3>4. new' \in [Threads -> Nat]
      BY <3>2, <3>3, <1>1
    <3>5. TypeOK' /\ NumbersOK'
      BY <3>3, <3>4, <1>1 DEF TypeOK, NumbersOK, Step
    <3>6. CallsOK' /\ CopiesOK' /\ Separate'
      BY <2>0, <3>1, <3>3 DEF TypeOK, CallsOK, CopiesOK, Calling, Separate
    <3>. QED
      BY <3>5, <3>6
  <2>6. CASE WriteDecrease(t)
    <3>1. pc[t] = "writeDecrease" /\ Stored(trade[t].obj, trade[t].dec, new[t])
          /\ swapped' = swapped
      BY <2>6 DEF WriteDecrease, Move
    <3>2. /\ heap' \in Seq(Nat) /\ Len(heap') >= Len(heap)
          /\ balance' \in [Objects -> [Keys -> Cells']]
          /\ swapped' \in [Objects -> [Keys -> Cells']]
          /\ Separate'
      BY <3>1, <2>0, <1>1, StoredEffect DEF Calling
    <3>3. torn \subseteq 1..Len(heap')
      BY <3>2, <1>1, TornKept DEF TypeOK
    <3>4. /\ pc' = [pc EXCEPT ![t] = "increase"]
          /\ UNCHANGED <<kind, live, lock, trade, new, copy, begun, fatal, ledger,
                         tradedIn, torn>>
      BY <2>6 DEF WriteDecrease, Move
    <3>5. TypeOK' /\ NumbersOK'
      BY <3>2, <3>3, <3>4, <1>1 DEF TypeOK, NumbersOK, Cells, Step
    <3>6. CallsOK' /\ CopiesOK'
      BY <2>0, <3>1, <3>4 DEF TypeOK, CallsOK, CopiesOK, Calling
    <3>. QED
      BY <3>2, <3>5, <3>6
  <2>7. CASE Increase(t)
    <3>1. pc[t] = "increase"
      BY <2>7 DEF Increase, Move
    <3>2. Balance(trade[t].obj, trade[t].inc) + trade[t].in \in Nat
      BY <3>1, <2>0, <1>2 DEF Calling
    <3>3. /\ pc' = [pc EXCEPT ![t] = "writeIncrease"]
          /\ new' = [new EXCEPT ![t] = Balance(trade[t].obj, trade[t].inc) + trade[t].in]
          /\ UNCHANGED <<kind, live, heap, balance, swapped, lock, trade, copy, begun,
                         fatal, ledger, tradedIn, torn>>
      BY <2>7 DEF Increase, Move, store
    <3>4. new' \in [Threads -> Nat]
      BY <3>2, <3>3, <1>1
    <3>5. TypeOK' /\ NumbersOK'
      BY <3>3, <3>4, <1>1 DEF TypeOK, NumbersOK, Step
    <3>6. CallsOK' /\ CopiesOK' /\ Separate'
      BY <2>0, <3>1, <3>3 DEF TypeOK, CallsOK, CopiesOK, Calling, Separate
    <3>. QED
      BY <3>5, <3>6
  <2>8. CASE WriteIncrease(t)
    <3>1. pc[t] = "writeIncrease" /\ Stored(trade[t].obj, trade[t].inc, new[t])
          /\ swapped' = swapped
      BY <2>8 DEF WriteIncrease, Move
    <3>2. /\ heap' \in Seq(Nat) /\ Len(heap') >= Len(heap)
          /\ balance' \in [Objects -> [Keys -> Cells']]
          /\ swapped' \in [Objects -> [Keys -> Cells']]
          /\ Separate'
      BY <3>1, <2>0, <1>1, StoredEffect DEF Calling
    <3>7. torn \subseteq 1..Len(heap')
      BY <3>2, <1>1, TornKept DEF TypeOK
    <3>3. /\ ledger' \in [Objects -> [Keys -> Int]]
          /\ tradedIn' \in [Objects -> [Keys -> Nat]]
      BY <2>8, <2>0, <3>1, LedgerEffect DEF Calling
    <3>4. /\ pc' = [pc EXCEPT ![t] = "unlock"]
          /\ UNCHANGED <<kind, live, swapped, lock, trade, new, copy, begun, fatal, torn>>
      BY <2>8 DEF WriteIncrease, Move
    <3>5. TypeOK'
      BY <3>2, <3>3, <3>4, <3>7, <1>1 DEF TypeOK, NumbersOK, Cells, Step
    <3>6. CallsOK' /\ CopiesOK'
      BY <2>0, <3>1, <3>4 DEF TypeOK, CallsOK, CopiesOK, Calling
    <3>. QED
      BY <3>2, <3>4, <3>5, <3>6 DEF NumbersOK
  <2>9. CASE Return(t)
    <3>1. /\ pc[t] = "unlock" /\ pc' = [pc EXCEPT ![t] = "idle"]
          /\ new' = [new EXCEPT ![t] = 0] /\ trade' = [trade EXCEPT ![t] = None]
          /\ UNCHANGED <<kind, live, heap, balance, swapped, copy, begun, fatal, ledger,
                         tradedIn, torn>>
      BY <2>9 DEF Return, Move, store
    <3>2. lock' \in [Objects -> Threads \cup {None}]
      BY <2>9 DEF Return, TypeOK
    <3>3. new' \in [Threads -> Nat]
      BY <3>1, <1>1
    <3>4. TypeOK' /\ NumbersOK'
      BY <3>1, <3>2, <3>3, <1>1 DEF TypeOK, NumbersOK, Step
    <3>5. CallsOK' /\ CopiesOK' /\ Separate'
      BY <2>0, <3>1 DEF TypeOK, CallsOK, CopiesOK, Calling, Separate
    <3>. QED
      BY <3>4, <3>5
  <2>. QED
    BY <1>3, <2>1, <2>2, <2>3, <2>4, <2>5, <2>6, <2>7, <2>8, <2>9, <2>10 DEF UpdateLimit
<1>4. ASSUME NEW t \in Threads, Clone(t) PROVE BaseInv'
  <2>1. ASSUME NEW o \in Objects, NEW c \in Objects, CloneBalance(t, o, c) PROVE BaseInv'
    <3>1. /\ balance' = [balance EXCEPT ![c] = balance[o]]
          /\ UNCHANGED <<kind, live, heap, swapped, lock, trade, new, begun, fatal,
                         ledger, tradedIn, torn>>
          /\ pc[t] = "idle" /\ pc' = [pc EXCEPT ![t] = "clone"]
          /\ copy' = [copy EXCEPT ![t] = [from |-> o, to |-> c]]
          /\ o \in live /\ c \notin live
          /\ \A u \in Threads : copy[u] # None => copy[u].to # c
      BY <2>1 DEF CloneBalance, Move
    <3>2. PICK r : r = [from |-> o, to |-> c] /\ r \in Copy /\ r.from = o /\ r.to = c
      <4>1. [from |-> o, to |-> c] \in Copy
        BY DEF Copy
      <4>. QED
        BY <4>1
    <3>3. copy' \in [Threads -> Copy \cup {None}] /\ copy'[t] = r
          /\ \A u \in Threads : u # t => copy'[u] = copy[u]
      BY <3>1, <3>2 DEF TypeOK
    <3>4. TypeOK'
      BY <3>1, <3>3 DEF TypeOK, Step
    <3>5. CopiesOK'
      BY <3>1, <3>2, <3>3 DEF CopiesOK, TypeOK
    <3>6. Separate'
      <4>. SUFFICES ASSUME NEW p \in Objects, NEW q \in Objects, NEW k \in Keys, NEW l \in Keys,
                           swapped'[p][k] # None
                    PROVE  swapped'[p][k] # balance'[q][l]
        BY DEF Separate
      <4>1. balance'[q] = balance[q] \/ balance'[q] = balance[o]
        BY <3>1 DEF TypeOK
      <4>2. swapped' = swapped
        BY <3>1
      <4>3. swapped[p][k] # balance[q][l] /\ swapped[p][k] # balance[o][l]
        BY <4>2 DEF Separate
      <4>. QED
        BY <4>1, <4>2, <4>3
    <3>. QED
      BY <3>1, <3>4, <3>5, <3>6 DEF CallsOK, Calling, NumbersOK, TypeOK
  <2>2. CASE CloneSwapped(t)
    <3>1. PICK o, c : o = copy[t].from /\ c = copy[t].to
      OBVIOUS
    <3>2. /\ pc[t] = "clone" /\ pc' = [pc EXCEPT ![t] = "idle"]
          /\ swapped' = [swapped EXCEPT ![c] = swapped[o]]
          /\ live' = live \cup {c}
          /\ ledger' = [ledger EXCEPT ![c] = [k \in Keys |-> Balance(c, k)]]
          /\ tradedIn' = [tradedIn EXCEPT ![c] = tradedIn[o]]
          /\ copy' = [copy EXCEPT ![t] = None]
          /\ UNCHANGED <<kind, heap, balance, lock, trade, new, begun, fatal, torn>>
      BY <2>2, <3>1 DEF CloneSwapped, Move
    <3>3. o \in Objects /\ c \in Objects /\ copy[t] # None
      BY <3>1, <3>2, AbsentAssumption DEF CopiesOK, Copy
    <3>4. ledger' \in [Objects -> [Keys -> Int]]
      BY <3>2, <3>3, <1>2 DEF TypeOK
    <3>5. TypeOK'
      BY <3>2, <3>3, <3>4 DEF TypeOK, Step
    <3>6. CopiesOK'
      BY <3>1, <3>2, <3>3 DEF CopiesOK, TypeOK
    <3>7. Separate'
      <4>. SUFFICES ASSUME NEW p \in Objects, NEW q \in Objects, NEW k \in Keys, NEW l \in Keys,
                           swapped'[p][k] # None
                    PROVE  swapped'[p][k] # balance'[q][l]
        BY DEF Separate
      <4>1. swapped'[p] = swapped[p] \/ swapped'[p] = swapped[o]
        BY <3>2 DEF TypeOK
      <4>2. balance' = balance
        BY <3>2
      <4>3. /\ swapped[p][k] # None => swapped[p][k] # balance[q][l]
            /\ swapped[o][k] # None => swapped[o][k] # balance[q][l]
        BY <3>3 DEF Separate
      <4>. QED
        BY <4>1, <4>2, <4>3
    <3>. QED
      BY <3>2, <3>5, <3>6, <3>7 DEF CallsOK, Calling, NumbersOK, TypeOK
  <2>. QED
    BY <1>4, <2>1, <2>2 DEF Clone
<1>5. CASE MapFault
  BY <1>5 DEF MapFault, TypeOK, CallsOK, CopiesOK, Calling, NumbersOK, Separate, store
<1>6. CASE UNCHANGED vars
  BY <1>6 DEF vars, TypeOK, CallsOK, CopiesOK, Calling, NumbersOK, Separate
<1>. QED
  BY <1>3, <1>4, <1>5, <1>6 DEF Next

-----------------------------------------------------------------------------
(* The lock. *)

LEMMA LockNext == BaseInv /\ LockOK /\ [Next]_vars => LockOK'
<1> SUFFICES ASSUME BaseInv, LockOK, [Next]_vars, kind' # "allowed",
                    NEW u \in Threads, Holding(u)'
             PROVE  lock'[trade'[u].obj] = u
  BY DEF LockOK
<1> USE DEF BaseInv
<1>0. kind' = kind
  BY DEF Next, UpdateLimit, Begin, Acquire, AddSwapped, WriteSwapped, Reject, Decrease,
         WriteDecrease, Increase, WriteIncrease, Return, Clone,
         CloneBalance, CloneSwapped, MapFault, vars
<1>1. \A t \in Threads : Holding(t) => lock[trade[t].obj] = t
  BY <1>0 DEF LockOK
<1>2. /\ pc \in [Threads -> Step] /\ trade \in [Threads -> Trade \cup {None}]
      /\ lock \in [Objects -> Threads \cup {None}]
  BY DEF TypeOK
<1>3. \A t \in Threads : Calling(t) => trade[t].obj \in Objects
  BY DEF CallsOK, Trade
<1>4. ASSUME NEW t \in Threads, UpdateLimit(t) PROVE lock'[trade'[u].obj] = u
  <2>1. ASSUME NEW call \in Calls, Begin(t, call) PROVE lock'[trade'[u].obj] = u
    BY <2>1, <1>0, <1>1, <1>2 DEF Begin, Move, Holding
  <2>2. CASE Acquire(t)
    <3>1. CASE u = t
      BY <2>2, <3>1, <1>2, <1>3 DEF Acquire, Move, Calling
    <3>2. CASE u # t
      <4>1. Holding(u) /\ trade'[u] = trade[u] /\ lock[trade[u].obj] = u
        BY <2>2, <3>2, <1>1, <1>2 DEF Acquire, Move, Holding
      <4>2. trade[u].obj # trade[t].obj
        BY <2>2, <4>1, AbsentAssumption DEF Acquire
      <4>. QED
        BY <2>2, <4>1, <4>2, <1>2, <1>3 DEF Acquire, Move, Calling, Holding
    <3>. QED
      BY <3>1, <3>2
  <2>3. CASE AddSwapped(t)
    BY <2>3, <1>1, <1>2 DEF AddSwapped, Move, Holding
  <2>10. CASE WriteSwapped(t)
    BY <2>10, <1>1, <1>2 DEF WriteSwapped, Move, Holding
  <2>4. CASE Reject(t)
    BY <2>4, <1>1, <1>2 DEF Reject, Move, Holding
  <2>5. CASE Decrease(t)
    BY <2>5, <1>1, <1>2 DEF Decrease, Move, Holding
  <2>6. CASE WriteDecrease(t)
    BY <2>6, <1>1, <1>2 DEF WriteDecrease, Move, Holding
  <2>7. CASE Increase(t)
    BY <2>7, <1>1, <1>2 DEF Increase, Move, Holding
  <2>8. CASE WriteIncrease(t)
    BY <2>8, <1>1, <1>2 DEF WriteIncrease, Move, Holding
  <2>9. CASE Return(t)
    <3>1. u # t /\ Holding(u) /\ trade'[u] = trade[u] /\ Holding(t)
      BY <2>9, <1>2 DEF Return, Move, Holding
    <3>2. trade[u].obj # trade[t].obj
      BY <3>1, <1>1
    <3>. QED
      BY <2>9, <3>1, <3>2, <1>0, <1>1, <1>2, <1>3 DEF Return, Move, Holding, Calling
  <2>. QED
    BY <1>4, <2>1, <2>2, <2>3, <2>4, <2>5, <2>6, <2>7, <2>8, <2>9, <2>10 DEF UpdateLimit
<1>5. ASSUME NEW t \in Threads, Clone(t) PROVE lock'[trade'[u].obj] = u
  BY <1>5, <1>1, <1>2 DEF Clone, CloneBalance, CloneSwapped, Move, Holding
<1>6. CASE MapFault
  BY <1>6, <1>1 DEF MapFault, Holding
<1>7. CASE UNCHANGED vars
  BY <1>7, <1>1 DEF vars, Holding
<1>. QED
  BY <1>4, <1>5, <1>6, <1>7 DEF Next

(* Two threads past the lock work for different objects. *)
LEMMA OneHolder ==
    ASSUME LockOK, kind # "allowed", NEW t \in Threads, NEW u \in Threads,
           Holding(t), Holding(u), trade[t].obj = trade[u].obj
    PROVE  t = u
BY DEF LockOK

-----------------------------------------------------------------------------
(* The accounts. *)

(* A step of another thread for another object leaves a call's accounts. *)
LEMMA CallFrame ==
    ASSUME NEW u \in Threads, CallOK(u), NEW o, o = trade[u].obj,
           pc'[u] = pc[u], trade'[u] = trade[u], new'[u] = new[u],
           trade[u].dec \in Keys, trade[u].inc \in Keys,
           \A k \in Keys : Balance(o, k)' = Balance(o, k) /\ ledger'[o][k] = ledger[o][k]
    PROVE  CallOK(u)'
<1>1. \A k \in Keys : Balance(trade[u].obj, k)' = Balance(trade[u].obj, k)
  BY DEF Balance
<1>2. \A k \in Keys : Spent(u, k)' = Spent(u, k)
  BY DEF Spent
<1>. QED
  BY <1>1, <1>2 DEF CallOK

(* Before it computes anything and after it is done, the holder of the     *)
(* lock finds the balances in accordance with the ledger.                  *)
LEMMA HolderReads ==
    ASSUME BaseInv, LockOK, kind # "allowed", AccountsOK, NEW t \in Threads,
           pc[t] \in {"swap", "writeSwapped", "decrease", "unlock"},
           NEW o, o = trade[t].obj
    PROVE  \A k \in Keys : Balance(o, k) = ledger[o][k]
<1>1. o \in live /\ Holding(t)
  BY DEF BaseInv, CallsOK, Calling, Holding
<1>2. ASSUME NEW u \in Threads, trade[u] # None, trade[u].obj = o
      PROVE  pc[u] \in {"lock", "swap", "writeSwapped", "decrease", "unlock"}
  <2>1. pc[u] \in Step /\ Calling(u)
    BY <1>2 DEF BaseInv, CallsOK, TypeOK
  <2>2. Holding(u) => u = t
    BY <1>1, <1>2, OneHolder
  <2>. QED
    BY <2>1, <2>2 DEF Holding, Calling
<1>3. Quiet(o)
  BY <1>2 DEF Quiet
<1>. QED
  BY <1>1, <1>3 DEF AccountsOK, ObjectOK

(* A step of the holder disturbs the accounts of its own object only. *)
LEMMA AccountsFrame ==
    ASSUME BaseInv, LockOK, kind # "allowed", AccountsOK, NEW t \in Threads,
           Holding(t), NEW o, o = trade[t].obj, live' = live,
           trade'[t] # None => trade'[t].obj = o,
           \A u \in Threads \ {t} :
              pc'[u] = pc[u] /\ trade'[u] = trade[u] /\ new'[u] = new[u],
           \A p \in Objects, k \in Keys :
              p # o => Balance(p, k)' = Balance(p, k) /\ ledger'[p][k] = ledger[p][k],
           ObjectOK(o)', CallOK(t)'
    PROVE  AccountsOK'
<1>1. ASSUME NEW p \in live', p # o PROVE ObjectOK(p)'
  <2>1. p \in live /\ p \in Objects
    BY <1>1 DEF BaseInv, TypeOK
  <2>2. Quiet(p)' => Quiet(p)
    BY <1>1 DEF Quiet
  <2>3. ObjectOK(p)
    BY <2>1 DEF AccountsOK
  <2>. QED
    BY <1>1, <2>1, <2>2, <2>3 DEF ObjectOK
<1>2. ASSUME NEW u \in Threads, u # t PROVE CallOK(u)'
  <2>1. pc'[u] = pc[u] /\ trade'[u] = trade[u] /\ new'[u] = new[u]
    BY <1>2
  <2>2. CASE Holding(u)
    <3>1. PICK q : q = trade[u].obj
      OBVIOUS
    <3>2. q # o
      BY <1>2, <2>2, <3>1, OneHolder
    <3>3. q \in Objects /\ trade[u].dec \in Keys /\ trade[u].inc \in Keys
      BY <2>2, <3>1 DEF BaseInv, CallsOK, Calling, Holding, Trade
    <3>4. CallOK(u)
      BY DEF AccountsOK
    <3>. QED
      BY <2>1, <3>1, <3>2, <3>3, <3>4, CallFrame
  <2>3. CASE ~Holding(u)
    BY <2>1, <2>3 DEF Holding, CallOK
  <2>. QED
    BY <2>2, <2>3
<1>. QED
  BY <1>1, <1>2 DEF AccountsOK

LEMMA AccountsNext ==
    ASSUME BaseInv, BaseInv', LockOK, kind # "allowed", AccountsOK, [Next]_vars
    PROVE  AccountsOK'
<1>1. /\ pc \in [Threads -> Step] /\ trade \in [Threads -> Trade \cup {None}]
      /\ new \in [Threads -> Int] /\ TypeOK /\ NumbersOK /\ Separate /\ CallsOK
      /\ CopiesOK
  BY DEF BaseInv, TypeOK
<1>2. \A o \in Objects, k \in Keys : Balance(o, k) \in Int /\ ledger[o][k] \in Int
  BY <1>1, NumbersNat DEF TypeOK
<1>3. ASSUME NEW t \in Threads, UpdateLimit(t) PROVE AccountsOK'
  <2>1. ASSUME NEW call \in Calls, Begin(t, call) PROVE AccountsOK'
    <3>1. /\ UNCHANGED <<live, heap, balance, ledger, new>>
          /\ pc[t] = "idle" /\ pc' = [pc EXCEPT ![t] = "lock"]
          /\ trade' = [trade EXCEPT ![t] = call]
      BY <2>1 DEF Begin, Move, store
    <3>2. trade[t] = None
      BY <3>1, <1>1 DEF CallsOK, Calling
    <3>3. \A p \in live : Quiet(p)' => Quiet(p)
      BY <3>1, <3>2, <1>1 DEF Quiet
    <3>4. \A p \in live' : ObjectOK(p)'
      BY <3>1, <3>3 DEF AccountsOK, ObjectOK, Balance
    <3>5. \A u \in Threads : CallOK(u)'
      BY <3>1, <1>1 DEF AccountsOK, CallOK, Balance, Spent
    <3>. QED
      BY <3>4, <3>5 DEF AccountsOK
  <2>2. CASE Acquire(t)
    <3>1. /\ UNCHANGED <<live, heap, balance, ledger, new, trade>>
          /\ pc[t] = "lock" /\ pc'[t] \in {"swap", "decrease"}
          /\ \A u \in Threads \ {t} : pc'[u] = pc[u]
      BY <2>2, <1>1 DEF Acquire, Move, store
    <3>2. \A p \in live : Quiet(p)' => Quiet(p)
      BY <3>1 DEF Quiet
    <3>3. \A p \in live' : ObjectOK(p)'
      BY <3>1, <3>2 DEF AccountsOK, ObjectOK, Balance
    <3>4. \A u \in Threads : CallOK(u)'
      BY <3>1, <1>1 DEF AccountsOK, CallOK, Balance, Spent
    <3>. QED
      BY <3>3, <3>4 DEF AccountsOK
  <2>3. CASE Holding(t)
    <3>0. PICK o, d, i, n, m : /\ o = trade[t].obj /\ d = trade[t].dec /\ i = trade[t].inc
                               /\ n = trade[t].out /\ m = trade[t].in
      OBVIOUS
    <3>a. /\ trade[t] \in Trade /\ o \in Objects /\ o \in live
          /\ d \in Keys /\ i \in Keys /\ n \in Nat /\ m \in Nat
      BY <2>3, <3>0, <1>1, LimitAssumption DEF CallsOK, Calling, Holding, Trade
    <3>b. Holding(t) /\ CallOK(t) /\ new[t] \in Nat
      BY <2>3, <1>1 DEF AccountsOK, NumbersOK
    <3>1. CASE AddSwapped(t)
      <4>1. /\ pc[t] = "swap" /\ pc' = [pc EXCEPT ![t] = "writeSwapped"]
            /\ UNCHANGED <<live, heap, balance, trade, ledger>>
            /\ \A u \in Threads \ {t} : new'[u] = new[u]
        BY <3>1, <1>1 DEF AddSwapped, Move, store
      <4>2. \A p \in Objects, k \in Keys : Balance(p, k)' = Balance(p, k)
        BY <4>1 DEF Balance
      <4>3. ObjectOK(o)'
        BY <4>1, <4>2, <3>0, <3>a, HolderReads DEF ObjectOK
      <4>4. CallOK(t)'
        BY <4>1, <1>1 DEF CallOK
      <4>. QED
        BY <4>1, <4>2, <4>3, <4>4, <3>0, <3>b, <1>1, AccountsFrame
    <3>8. CASE WriteSwapped(t)
      <4>1. \A p \in Objects, k \in Keys : Balance(p, k)' = Balance(p, k)
        BY <3>8, <3>0, <3>a, <1>1, SwappedEffect
      <4>2. /\ pc[t] = "writeSwapped" /\ pc' = [pc EXCEPT ![t] = "decrease"]
            /\ UNCHANGED <<live, trade, new, ledger>>
        BY <3>8 DEF WriteSwapped, Move
      <4>3. ObjectOK(o)'
        BY <4>1, <4>2, <3>0, <3>a, HolderReads DEF ObjectOK
      <4>4. CallOK(t)'
        BY <4>2, <1>1 DEF CallOK
      <4>. QED
        BY <4>1, <4>2, <4>3, <4>4, <3>0, <3>b, <1>1, AccountsFrame
    <3>2. CASE Reject(t)
      <4>1. /\ pc[t] = "decrease" /\ pc' = [pc EXCEPT ![t] = "unlock"]
            /\ UNCHANGED <<live, heap, balance, trade, new, ledger>>
        BY <3>2 DEF Reject, Move, store
      <4>2. \A p \in Objects, k \in Keys : Balance(p, k)' = Balance(p, k)
        BY <4>1 DEF Balance
      <4>3. ObjectOK(o)'
        BY <4>1, <4>2, <3>0, <3>a, HolderReads DEF ObjectOK
      <4>4. CallOK(t)'
        BY <4>1, <1>1 DEF CallOK
      <4>. QED
        BY <4>1, <4>2, <4>3, <4>4, <3>0, <3>b, <1>1, AccountsFrame
    <3>3. CASE Decrease(t)
      <4>1. /\ pc[t] = "decrease" /\ pc' = [pc EXCEPT ![t] = "writeDecrease"]
            /\ UNCHANGED <<live, heap, balance, trade, ledger>>
            /\ new' = [new EXCEPT ![t] = Balance(o, d) - n]
        BY <3>3, <3>0 DEF Decrease, Move, store
      <4>2. \A p \in Objects, k \in Keys : Balance(p, k)' = Balance(p, k)
        BY <4>1 DEF Balance
      <4>3. ObjectOK(o)'
        BY <4>1, <4>2, <3>0, <3>a, HolderReads DEF ObjectOK
      <4>4. pc'[t] = "writeDecrease" /\ trade' = trade
            /\ new'[t] = Balance(o, d)' - n
            /\ \A k \in Keys : Balance(o, k)' = ledger'[o][k]
        BY <4>1, <4>2, <3>0, <3>a, <1>1, HolderReads
      <4>5. CallOK(t)'
        BY <4>4, <3>0 DEF CallOK
      <4>. QED
        BY <4>1, <4>2, <4>3, <4>5, <3>0, <3>b, <1>1, AccountsFrame
    <3>4. CASE WriteDecrease(t)
      <4>1. /\ pc[t] = "writeDecrease" /\ pc' = [pc EXCEPT ![t] = "increase"]
            /\ UNCHANGED <<live, swapped, trade, new, ledger>>
            /\ Stored(o, d, new[t])
        BY <3>4, <3>0 DEF WriteDecrease, Move
      <4>2. \A p \in Objects, k \in Keys :
               Balance(p, k)' = IF p = o /\ k = d THEN new[t] ELSE Balance(p, k)
        BY <4>1, <3>a, <3>b, <1>1, StoredEffect
      <4>3. /\ new[t] = Balance(o, d) - n
            /\ \A k \in Keys : Balance(o, k) = ledger[o][k]
        BY <4>1, <3>b, <3>0 DEF CallOK
      <4>4. \A k \in Keys : Balance(o, k)' = ledger'[o][k] - Spent(t, k)'
        BY <4>1, <4>2, <4>3, <3>0, <3>a, <1>2 DEF Spent
      <4>5. pc'[t] = "increase" /\ trade' = trade
        BY <4>1, <1>1
      <4>6. CallOK(t)'
        BY <4>4, <4>5, <3>0 DEF CallOK
      <4>7. ObjectOK(o)'
        BY <4>5, <3>0, <3>a, AbsentAssumption DEF ObjectOK, Quiet
      <4>. QED
        BY <4>1, <4>2, <4>6, <4>7, <3>0, <3>b, <1>1, AccountsFrame
    <3>5. CASE Increase(t)
      <4>1. /\ pc[t] = "increase" /\ pc' = [pc EXCEPT ![t] = "writeIncrease"]
            /\ UNCHANGED <<live, heap, balance, trade, ledger>>
            /\ new' = [new EXCEPT ![t] = Balance(o, i) + m]
        BY <3>5, <3>0 DEF Increase, Move, store
      <4>2. \A p \in Objects, k \in Keys : Balance(p, k)' = Balance(p, k)
        BY <4>1 DEF Balance
      <4>3. \A k \in Keys : Balance(o, k) = ledger[o][k] - Spent(t, k)
        BY <4>1, <3>b, <3>0 DEF CallOK
      <4>4. /\ pc'[t] = "writeIncrease" /\ trade' = trade
            /\ new'[t] = Balance(o, i)' + m
            /\ \A k \in Keys : Balance(o, k)' = ledger'[o][k] - Spent(t, k)'
        BY <4>1, <4>2, <4>3, <3>a, <1>1 DEF Spent
      <4>5. CallOK(t)'
        BY <4>4, <3>0 DEF CallOK
      <4>6. ObjectOK(o)'
        BY <4>4, <3>0, <3>a, AbsentAssumption DEF ObjectOK, Quiet
      <4>. QED
        BY <4>1, <4>2, <4>5, <4>6, <3>0, <3>b, <1>1, AccountsFrame
    <3>6. CASE WriteIncrease(t)
      <4>1. /\ pc[t] = "writeIncrease" /\ pc' = [pc EXCEPT ![t] = "unlock"]
            /\ UNCHANGED <<live, swapped, trade, new>>
            /\ Stored(o, i, new[t])
        BY <3>6, <3>0 DEF WriteIncrease, Move
      <4>2. \A p \in Objects, k \in Keys :
               Balance(p, k)' = IF p = o /\ k = i THEN new[t] ELSE Balance(p, k)
        BY <4>1, <3>a, <3>b, <1>1, StoredEffect
      <4>3. /\ \A p \in Objects, k \in Keys : p # o => ledger'[p][k] = ledger[p][k]
            /\ \A k \in Keys : ledger'[o][k] = ledger[o][k] - Spent(t, k) + Earned(t, k)
        BY <3>6, <3>0, <3>a, <1>1, LedgerEffect
      <4>4. /\ new[t] = Balance(o, i) + m
            /\ \A k \in Keys : Balance(o, k) = ledger[o][k] - Spent(t, k)
        BY <4>1, <3>b, <3>0 DEF CallOK
      <4>5. \A k \in Keys : Balance(o, k)' = ledger'[o][k]
        BY <4>2, <4>3, <4>4, <3>0, <3>a, <1>2 DEF Spent, Earned
      <4>6. ObjectOK(o)'
        BY <4>5 DEF ObjectOK
      <4>7. CallOK(t)'
        BY <4>1, <1>1 DEF CallOK
      <4>. QED
        BY <4>1, <4>2, <4>3, <4>6, <4>7, <3>0, <3>b, <1>1, AccountsFrame
    <3>7. CASE Return(t)
      <4>1. /\ pc[t] = "unlock" /\ pc' = [pc EXCEPT ![t] = "idle"]
            /\ trade' = [trade EXCEPT ![t] = None]
            /\ new' = [new EXCEPT ![t] = 0]
            /\ UNCHANGED <<live, heap, balance, ledger>>
        BY <3>7 DEF Return, Move, store
      <4>2. \A p \in Objects, k \in Keys : Balance(p, k)' = Balance(p, k)
        BY <4>1 DEF Balance
      <4>3. ObjectOK(o)'
        BY <4>1, <4>2, <3>0, <3>a, HolderReads DEF ObjectOK
      <4>4. CallOK(t)'
        BY <4>1, <1>1 DEF CallOK
      <4>. QED
        BY <4>1, <4>2, <4>3, <4>4, <3>0, <3>b, <1>1, AccountsFrame
    <3>. QED
      BY <1>3, <2>3, <3>1, <3>2, <3>3, <3>4, <3>5, <3>6, <3>7, <3>8
         DEF UpdateLimit, Begin, Acquire, Move, Holding
  <2>. QED
    BY <1>3, <2>1, <2>2, <2>3 DEF UpdateLimit, AddSwapped, WriteSwapped, Reject, Decrease,
       WriteDecrease, Increase, WriteIncrease, Return, Move, Holding
<1>4. ASSUME NEW t \in Threads, Clone(t) PROVE AccountsOK'
  <2>0. ASSUME NEW c \in Objects, c \notin live, live' \subseteq live \cup {c},
               \A u \in Threads : Calling(u)' => Calling(u) /\ pc'[u] = pc[u],
               \A p \in Objects, k \in Keys :
                  p # c => Balance(p, k)' = Balance(p, k) /\ ledger'[p][k] = ledger[p][k],
               \A k \in Keys : c \in live' => Balance(c, k)' = ledger'[c][k],
               \A u \in Threads : Calling(u) => pc'[u] = pc[u],
               UNCHANGED <<trade, new>>
        PROVE  AccountsOK'
    <3>1. ASSUME NEW p \in live' PROVE ObjectOK(p)'
      <4>1. CASE p = c
        BY <2>0, <3>1, <4>1 DEF ObjectOK
      <4>2. CASE p # c
        <5>1. p \in live /\ p \in Objects
          BY <2>0, <3>1, <4>2, <1>1 DEF TypeOK
        <5>2. Quiet(p)' => Quiet(p)
          BY <2>0, <1>1 DEF Quiet, CallsOK
        <5>. QED
          BY <2>0, <4>2, <5>1, <5>2 DEF AccountsOK, ObjectOK
      <4>. QED
        BY <4>1, <4>2
    <3>2. ASSUME NEW u \in Threads PROVE CallOK(u)'
      <4>1. CASE ~Calling(u)'
        BY <4>1 DEF CallOK, Calling
      <4>2. CASE Calling(u)'
        <5>1. PICK q : q = trade[u].obj
          OBVIOUS
        <5>2. /\ q \in Objects /\ q # c
              /\ trade[u].dec \in Keys /\ trade[u].inc \in Keys
          BY <2>0, <4>2, <5>1, <1>1 DEF CallsOK, Trade
        <5>3. CallOK(u) /\ pc'[u] = pc[u] /\ trade'[u] = trade[u] /\ new'[u] = new[u]
          BY <2>0, <4>2 DEF AccountsOK
        <5>4. \A k \in Keys : Balance(q, k)' = Balance(q, k) /\ ledger'[q][k] = ledger[q][k]
          BY <2>0, <5>2
        <5>. QED
          BY <5>1, <5>2, <5>3, <5>4, CallFrame
      <4>. QED
        BY <4>1, <4>2
    <3>. QED
      BY <3>1, <3>2 DEF AccountsOK
  <2>1. ASSUME NEW o \in Objects, NEW c \in Objects, CloneBalance(t, o, c)
        PROVE  AccountsOK'
    <3>1. /\ c \notin live /\ live' = live
          /\ balance' = [balance EXCEPT ![c] = balance[o]]
          /\ pc[t] = "idle" /\ pc' = [pc EXCEPT ![t] = "clone"]
          /\ UNCHANGED <<heap, ledger, trade, new>>
      BY <2>1 DEF CloneBalance, Move
    <3>2. \A p \in Objects, k \in Keys :
             p # c => Balance(p, k)' = Balance(p, k) /\ ledger'[p][k] = ledger[p][k]
      BY <3>1, <1>1 DEF TypeOK, Balance
    <3>3. \A u \in Threads : /\ Calling(u)' => Calling(u) /\ pc'[u] = pc[u]
                             /\ Calling(u) => pc'[u] = pc[u]
      BY <3>1, <1>1 DEF Calling
    <3>. QED
      BY <2>0, <3>1, <3>2, <3>3
  <2>2. CASE CloneSwapped(t)
    <3>1. PICK c : c = copy[t].to
      OBVIOUS
    <3>2. /\ pc[t] = "clone" /\ pc' = [pc EXCEPT ![t] = "idle"]
          /\ live' = live \cup {c}
          /\ ledger' = [ledger EXCEPT ![c] = [k \in Keys |-> Balance(c, k)]]
          /\ UNCHANGED <<heap, balance, trade, new>>
      BY <2>2, <3>1 DEF CloneSwapped, Move
    <3>3. c \in Objects /\ c \notin live
      BY <3>1, <3>2, <1>1, AbsentAssumption DEF CopiesOK, Copy
    <3>4. /\ \A p \in Objects, k \in Keys :
                p # c => Balance(p, k)' = Balance(p, k) /\ ledger'[p][k] = ledger[p][k]
          /\ \A k \in Keys : Balance(c, k)' = ledger'[c][k]
      BY <3>2, <3>3, <1>1 DEF TypeOK, Balance
    <3>5. \A u \in Threads : /\ Calling(u)' => Calling(u) /\ pc'[u] = pc[u]
                             /\ Calling(u) => pc'[u] = pc[u]
      BY <3>2, <1>1 DEF Calling
    <3>. QED
      BY <2>0, <3>2, <3>3, <3>4, <3>5
  <2>. QED
    BY <1>4, <2>1, <2>2 DEF Clone
<1>5. CASE MapFault \/ UNCHANGED vars
  <2>1. UNCHANGED <<live, heap, balance, ledger, new, trade, pc>>
    BY <1>5 DEF MapFault, vars, store
  <2>. QED
    BY <2>1 DEF AccountsOK, ObjectOK, CallOK, Quiet, Balance, Spent
<1>. QED
  BY <1>3, <1>4, <1>5 DEF Next

-----------------------------------------------------------------------------
(* What was swapped in. *)

(* A step that leaves the counts of the live objects alone, and the        *)
(* threads that are adding to one.                                         *)
LEMMA ReadFrame ==
    ASSUME BaseInv, CountOK, torn' = torn,
           \A p \in live, l \in Keys :
              /\ swapped'[p][l] = swapped[p][l]
              /\ Number(heap', swapped[p][l]) = Number(heap, swapped[p][l]),
           \A u \in Threads :
              Adding(u)' => Adding(u) /\ new'[u] = new[u] /\ trade'[u] = trade[u]
    PROVE  (\A u \in Threads : ReadOK(u)') /\ AloneOK'
<1>1. \A u \in Threads : Adding(u) =>
         trade[u].obj \in live /\ trade[u].inc \in Keys
  BY DEF BaseInv, CallsOK, Calling, Adding, Trade
<1>2. \A u \in Threads : Adding(u)' =>
         /\ Adding(u) /\ new'[u] = new[u] /\ trade'[u] = trade[u]
         /\ Count(u)' = Count(u) /\ Number(heap', Count(u)) = Number(heap, Count(u))
  BY <1>1 DEF Count
<1>3. ASSUME NEW u \in Threads PROVE ReadOK(u)'
  <2>1. SUFFICES ASSUME Adding(u)'
                 PROVE  \/ new'[u] = Number(heap', Count(u)') + trade'[u].in
                        \/ Count(u)' \in torn'
    BY DEF ReadOK
  <2>. QED
    BY <1>2, <2>1 DEF CountOK, ReadOK
<1>4. AloneOK'
  <2> SUFFICES ASSUME NEW u \in Threads, NEW w \in Threads, Adding(u)', Adding(w)',
                      u # w, Count(u)' # None, Count(u)' = Count(w)'
               PROVE  Count(u)' \in torn'
    BY DEF AloneOK
  <2>. QED
    BY <1>2 DEF CountOK, AloneOK
<1>. QED
  BY <1>3, <1>4

(* The first step of an addition to a count. *)
LEMMA CountRead ==
    ASSUME BaseInv, CountOK, NEW t \in Threads, AddSwapped(t)
    PROVE  CountOK'
<1>1. /\ pc \in [Threads -> Step] /\ new \in [Threads -> Nat]
      /\ TypeOK /\ NumbersOK /\ CallsOK
  BY DEF BaseInv, TypeOK, NumbersOK
<1>2. trade[t] \in Trade
  BY <1>1 DEF AddSwapped, Move, CallsOK, Calling
<1>3. /\ torn \subseteq torn'
      /\ UNCHANGED <<live, heap, swapped, trade, tradedIn>>
      /\ pc[t] = "swap" /\ pc' = [pc EXCEPT ![t] = "writeSwapped"]
  BY <1>1, <1>2, ReadEffect
<1>4. /\ new'[t] = Number(heap, Count(t)) + trade[t].in
      /\ \A u \in Threads : u # t => new'[u] = new[u]
  BY <1>1 DEF AddSwapped
<1>5. /\ \A u \in Threads : u # t => pc'[u] = pc[u]
      /\ \A u \in Threads : Accesses(u)' => Accesses(u)
      /\ \A u \in Threads : u # t => (Adding(u)' <=> Adding(u))
      /\ \A u \in Threads : Count(u)' = Count(u)
  BY <1>1, <1>3 DEF Accesses, Adding, Count
<1>6. \A o \in live', k \in Keys : Covers(o, k, 0)'
  BY <1>3 DEF CountOK, Covers, Swapped
<1>7. ASSUME NEW u \in Threads PROVE Counted(u)'
  BY <1>3, <1>5 DEF CountOK, Counted, Covers, Swapped
<1>8. ASSUME NEW u \in Threads PROVE ReadOK(u)'
  <2>1. CASE u = t
    BY <1>3, <1>4, <1>5, <2>1 DEF ReadOK
  <2>2. CASE u # t
    BY <1>3, <1>4, <1>5, <2>2 DEF CountOK, ReadOK
  <2>. QED
    BY <2>1, <2>2
<1>9. AloneOK'
  <2> SUFFICES ASSUME NEW u \in Threads, NEW w \in Threads, Adding(u)', Adding(w)',
                      u # w, Count(u)' # None, Count(u)' = Count(w)'
               PROVE  Count(u)' \in torn'
    BY DEF AloneOK
  <2>1. CASE u # t /\ w # t
    BY <1>3, <1>5, <2>1 DEF CountOK, AloneOK
  <2>2. ASSUME NEW v \in Threads, v # t, Adding(v), Count(v) = Count(t), Count(t) # None
        PROVE  Count(t) \in torn'
    <3>1. v \in AddingTo(Count(t))
      BY <2>2 DEF AddingTo, Adding
    <3>. QED
      BY <3>1 DEF AddSwapped
  <2>3. CASE u = t
    BY <1>5, <2>2, <2>3
  <2>4. CASE w = t
    BY <1>5, <2>2, <2>4
  <2>. QED
    BY <2>1, <2>3, <2>4
<1>. QED
  BY <1>6, <1>7, <1>8, <1>9 DEF CountOK

(* The second: alone, it adds to what the count is; otherwise the number   *)
(* is torn.                                                                *)
LEMMA CountWritten ==
    ASSUME BaseInv, LockOK, kind = "swapped", CountOK, NEW t \in Threads, WriteSwapped(t)
    PROVE  CountOK'
<1>1. /\ pc \in [Threads -> Step] /\ new \in [Threads -> Nat] /\ live \subseteq Objects
      /\ swapped \in [Objects -> [Keys -> Cells]] /\ torn \subseteq 1..Len(heap)
      /\ TypeOK /\ NumbersOK /\ Separate /\ CallsOK /\ heap \in Seq(Nat)
  BY DEF BaseInv, TypeOK, NumbersOK, Cells
<1>2. /\ pc[t] = "writeSwapped" /\ pc' = [pc EXCEPT ![t] = "decrease"]
      /\ UNCHANGED <<live, trade, new, tradedIn, torn>>
  BY DEF WriteSwapped, Move
<1>3. PICK o, k, n : o = trade[t].obj /\ k = trade[t].inc /\ n = trade[t].in
  OBVIOUS
<1>4. trade[t] \in Trade /\ o \in live /\ o \in Objects /\ k \in Keys /\ n \in Nat
  BY <1>1, <1>2, <1>3, LimitAssumption DEF CallsOK, Calling, Trade
<1>5. /\ \A p \in Objects, l \in Keys :
            p # o \/ l # k => swapped'[p][l] = swapped[p][l]
      /\ swapped[o][k] # None => swapped'[o][k] = swapped[o][k]
      /\ Number(heap', swapped'[o][k]) = new[t]
      /\ \A c \in Cells : c # swapped[o][k] => Number(heap', c) = Number(heap, c)
      /\ Number(heap', None) = 0 /\ Number(heap, None) = 0
  <2>1. Number(heap, None) = 0
    BY DEF Number
  <2>. QED
    BY <1>1, <1>3, <1>4, <2>1, SwappedEffect
<1>6. \A c \in torn : c # None
  BY <1>1, AbsentAssumption
<1>7. new[t] = Swapped(o, k) + n \/ swapped[o][k] \in torn
  BY <1>2, <1>3 DEF CountOK, ReadOK, Adding, Count, Swapped
<1>8. \A p \in Objects, l \in Keys : Swapped(p, l) \in Nat /\ tradedIn[p][l] \in Nat
  BY <1>1, NumbersNat DEF TypeOK
<1>9. ASSUME NEW p \in Objects, NEW l \in Keys
      PROVE  swapped[p][l] \in torn => swapped'[p][l] \in torn'
  BY <1>2, <1>5, <1>6
<1>10. ASSUME NEW p \in Objects, NEW l \in Keys, swapped[p][l] \notin torn
       PROVE  Swapped(p, l)' >= Swapped(p, l)
  <2>1. CASE p = o /\ l = k
    BY <1>4, <1>5, <1>7, <1>8, <1>10, <2>1 DEF Swapped
  <2>2. CASE ~(p = o /\ l = k) /\ swapped[p][l] = swapped[o][k] /\ swapped[o][k] # None
    <3>1. Swapped(p, l)' = new[t] /\ Swapped(p, l) = Swapped(o, k)
      BY <1>5, <2>2 DEF Swapped
    <3>. QED
      BY <1>4, <1>7, <1>8, <1>10, <2>2, <3>1
  <2>3. CASE ~(p = o /\ l = k) /\ swapped[p][l] = None
    <3>1. Swapped(p, l)' = 0 /\ Swapped(p, l) = 0
      BY <1>5, <2>3 DEF Swapped
    <3>. QED
      BY <3>1
  <2>4. CASE ~(p = o /\ l = k) /\ swapped[p][l] # swapped[o][k]
    <3>1. Swapped(p, l)' = Swapped(p, l)
      BY <1>1, <1>5, <2>4 DEF Swapped
    <3>. QED
      BY <1>8, <3>1
  <2>. QED
    BY <2>1, <2>2, <2>3, <2>4
<1>11. ASSUME NEW p \in Objects, NEW l \in Keys
       PROVE  swapped[p][l] \notin torn => Swapped(p, l)' \in Nat
  <2>1. heap' \in Seq(Nat) /\ swapped' \in [Objects -> [Keys -> Cells']]
    BY <1>1, <1>3, <1>4, SwappedEffect
  <2>2. Number(heap', swapped'[p][l]) \in Nat
    <3>1. swapped'[p][l] \in 1..Len(heap') \cup {None}
      BY <2>1 DEF Cells
    <3>2. heap' \in [1..Len(heap') -> Nat]
      BY <2>1, LenProperties
    <3>. QED
      BY <3>1, <3>2 DEF Number
  <2>. QED
    BY <2>2 DEF Swapped
<1>12. ASSUME NEW p \in Objects, NEW l \in Keys, NEW m \in Nat, Covers(p, l, m)
       PROVE  Covers(p, l, m)'
  <2>1. CASE swapped[p][l] \in torn
    BY <1>9, <2>1 DEF Covers
  <2>2. CASE swapped[p][l] \notin torn
    BY <1>2, <1>8, <1>10, <1>11, <1>12, <2>2 DEF Covers
  <2>. QED
    BY <2>1, <2>2
<1>13. \A p \in live', l \in Keys : Covers(p, l, 0)'
  BY <1>1, <1>2, <1>12 DEF CountOK
<1>14. Counted(t)'
  <2>1. CASE swapped[o][k] \in torn
    BY <1>2, <1>3, <1>4, <1>9, <2>1 DEF Counted, Covers
  <2>2. CASE swapped[o][k] \notin torn
    <3>1. Swapped(o, k)' = Swapped(o, k) + n
      BY <1>5, <1>7, <2>2 DEF Swapped
    <3>2. Swapped(o, k) >= tradedIn[o][k]
      BY <1>4, <1>8, <2>2 DEF CountOK, Covers
    <3>3. Swapped(o, k)' >= tradedIn'[o][k] + n
      BY <1>2, <1>4, <1>8, <3>1, <3>2
    <3>. QED
      BY <1>2, <1>3, <3>3 DEF Counted, Covers
  <2>. QED
    BY <2>1, <2>2
<1>15. ASSUME NEW u \in Threads, u # t PROVE Counted(u)'
  <2>1. SUFFICES ASSUME Accesses(u)' PROVE Covers(trade[u].obj, trade[u].inc, trade[u].in)'
    BY DEF Counted
  <2>2. Accesses(u)
    BY <1>1, <1>2, <1>15, <2>1 DEF Accesses
  <2>3. trade[u].obj \in Objects /\ trade[u].inc \in Keys /\ trade[u].in \in Nat
    BY <1>1, <2>2, LimitAssumption DEF CallsOK, Calling, Accesses, Trade
  <2>4. PICK p, l, m : p = trade[u].obj /\ l = trade[u].inc /\ m = trade[u].in
    OBVIOUS
  <2>5. Covers(p, l, m)
    BY <2>2, <2>4 DEF CountOK, Counted
  <2>6. Covers(p, l, m)'
    BY <1>12, <2>3, <2>4, <2>5
  <2>. QED
    BY <1>2, <2>4, <2>6 DEF Covers
<1>16. ASSUME NEW u \in Threads, Adding(u)'
       PROVE  /\ u # t /\ Adding(u) /\ Count(u)' = Count(u)
              /\ \/ Number(heap', Count(u)) = Number(heap, Count(u))
                 \/ Count(u) \in torn
  <2>1. u # t /\ Adding(u)
    BY <1>1, <1>2, <1>16 DEF Adding
  <2>2. trade[u].obj \in Objects /\ trade[u].inc \in Keys /\ trade[u].obj # o
    <3>1. Holding(u) /\ Holding(t)
      BY <1>2, <2>1 DEF Holding, Adding
    <3>. QED
      BY <1>1, <1>3, <2>1, <3>1, OneHolder DEF CallsOK, Calling, Adding, Trade
  <2>3. Count(u)' = Count(u) /\ Count(u) \in Cells
    BY <1>1, <1>2, <1>5, <2>2 DEF Count
  <2>4. CASE Count(u) = swapped[o][k] /\ Count(u) # None
    <3>1. Adding(t) /\ Count(t) = Count(u)
      BY <1>2, <1>3, <2>4 DEF Adding, Count
    <3>. QED
      BY <2>1, <2>3, <2>4, <3>1 DEF CountOK, AloneOK
  <2>5. CASE Count(u) # swapped[o][k] \/ Count(u) = None
    BY <1>5, <2>1, <2>3, <2>5
  <2>. QED
    BY <2>4, <2>5
<1>17. ASSUME NEW u \in Threads PROVE ReadOK(u)'
  <2>1. SUFFICES ASSUME Adding(u)'
                 PROVE  \/ new'[u] = Number(heap', Count(u)') + trade'[u].in
                        \/ Count(u)' \in torn'
    BY DEF ReadOK
  <2>. QED
    BY <1>2, <1>16, <2>1 DEF CountOK, ReadOK
<1>18. AloneOK'
  <2> SUFFICES ASSUME NEW u \in Threads, NEW w \in Threads, Adding(u)', Adding(w)',
                      u # w, Count(u)' # None, Count(u)' = Count(w)'
               PROVE  Count(u)' \in torn'
    BY DEF AloneOK
  <2>. QED
    BY <1>2, <1>16 DEF CountOK, AloneOK
<1>. QED
  BY <1>13, <1>14, <1>15, <1>17, <1>18 DEF CountOK

LEMMA CountNext ==
    ASSUME BaseInv, LockOK, kind = "swapped", CountOK, [Next]_vars
    PROVE  CountOK'
<1>1. /\ pc \in [Threads -> Step] /\ trade \in [Threads -> Trade \cup {None}]
      /\ new \in [Threads -> Nat] /\ TypeOK /\ NumbersOK /\ Separate /\ CallsOK
      /\ CopiesOK /\ live \subseteq Objects
  BY DEF BaseInv, TypeOK, NumbersOK
<1>2. \A o \in Objects, k \in Keys : Swapped(o, k) \in Nat /\ tradedIn[o][k] \in Nat
  BY <1>1, NumbersNat DEF TypeOK
<1>3. /\ \A o \in live, k \in Keys : Covers(o, k, 0)
      /\ \A t \in Threads : Counted(t)
  BY DEF CountOK
<1>4. \A u \in Threads : Accesses(u) =>
         /\ trade[u] \in Trade /\ trade[u].obj \in Objects /\ trade[u].obj \in live
         /\ trade[u].inc \in Keys /\ trade[u].in \in Nat
  BY <1>1, LimitAssumption DEF CallsOK, Calling, Accesses, Trade
<1>5. ASSUME NEW t \in Threads, UpdateLimit(t) PROVE CountOK'
  <2>1. CASE AddSwapped(t) \/ WriteSwapped(t)
    BY <2>1, CountRead, CountWritten
  <2>2. CASE WriteIncrease(t)
    <3>1. /\ pc[t] = "writeIncrease" /\ pc' = [pc EXCEPT ![t] = "unlock"]
          /\ UNCHANGED <<live, trade, swapped, new, torn>>
          /\ Stored(trade[t].obj, trade[t].inc, new[t])
      BY <2>2 DEF WriteIncrease, Move
    <3>2. Accesses(t) /\ Holding(t)
      BY <3>1 DEF Accesses, Holding
    <3>3. PICK o, k, n : o = trade[t].obj /\ k = trade[t].inc /\ n = trade[t].in
      OBVIOUS
    <3>4. trade[t] \in Trade /\ o \in live /\ o \in Objects /\ k \in Keys /\ n \in Nat
      BY <3>2, <3>3, <1>4
    <3>5. \A p \in Objects, l \in Keys : Swapped(p, l)' = Swapped(p, l)
      BY <3>1, <3>3, <3>4, <1>1, StoredEffect
    <3>6. /\ \A p \in Objects, l \in Keys : p # o => tradedIn'[p][l] = tradedIn[p][l]
          /\ \A l \in Keys : tradedIn'[o][l] = tradedIn[o][l] + Earned(t, l)
      BY <2>2, <3>3, <3>4, <1>1, LedgerEffect
    <3>7. Covers(o, k, n)
      BY <3>2, <3>3, <1>3 DEF Counted
    <3>8. ASSUME NEW p \in live', NEW l \in Keys PROVE Covers(p, l, 0)'
      <4>1. p \in live /\ p \in Objects /\ Covers(p, l, 0)
        BY <3>1, <1>1, <1>3
      <4>2. CASE p # o
        BY <4>1, <4>2, <3>1, <3>5, <3>6 DEF Covers
      <4>3. CASE p = o /\ l # k
        BY <4>1, <4>3, <3>1, <3>3, <3>5, <3>6, <1>2 DEF Earned, Covers
      <4>4. CASE p = o /\ l = k
        BY <4>4, <3>1, <3>3, <3>4, <3>5, <3>6, <3>7, <1>2 DEF Earned, Covers
      <4>. QED
        BY <4>2, <4>3, <4>4
    <3>9. ASSUME NEW u \in Threads PROVE Counted(u)'
      <4>1. CASE u = t
        BY <3>1, <4>1, <1>1 DEF Counted, Accesses
      <4>2. CASE u # t /\ Accesses(u)
        <5>1. PICK p, l, m : p = trade[u].obj /\ l = trade[u].inc /\ m = trade[u].in
          OBVIOUS
        <5>2. Holding(u)
          BY <4>2 DEF Accesses, Holding
        <5>3. p # o
          BY <3>2, <3>3, <4>2, <5>1, <5>2, OneHolder
        <5>4. p \in Objects /\ l \in Keys /\ Covers(p, l, m)
          BY <4>2, <5>1, <1>3, <1>4 DEF Counted
        <5>5. Covers(p, l, m)'
          BY <3>1, <3>5, <3>6, <5>3, <5>4 DEF Covers
        <5>. QED
          BY <3>1, <5>1, <5>5 DEF Counted, Covers
      <4>3. CASE u # t /\ ~Accesses(u)
        BY <3>1, <4>3, <1>1 DEF Counted, Accesses
      <4>. QED
        BY <4>1, <4>2, <4>3
    <3>10. (\A u \in Threads : ReadOK(u)') /\ AloneOK'
      <4>1. \A p \in live, l \in Keys :
               /\ swapped'[p][l] = swapped[p][l]
               /\ Number(heap', swapped[p][l]) = Number(heap, swapped[p][l])
        BY <3>1, <3>5, <1>1 DEF Swapped
      <4>2. \A u \in Threads :
               Adding(u)' => Adding(u) /\ new'[u] = new[u] /\ trade'[u] = trade[u]
        BY <3>1, <1>1 DEF Adding
      <4>. QED
        BY <3>1, <4>1, <4>2, ReadFrame
    <3>. QED
      BY <3>8, <3>9, <3>10 DEF CountOK
  <2>3. CASE WriteDecrease(t)
    <3>1. /\ pc[t] = "writeDecrease" /\ pc' = [pc EXCEPT ![t] = "increase"]
          /\ UNCHANGED <<live, trade, swapped, tradedIn, new, torn>>
          /\ Stored(trade[t].obj, trade[t].dec, new[t])
      BY <2>3 DEF WriteDecrease, Move
    <3>2. trade[t].obj \in Objects /\ trade[t].dec \in Keys
      BY <3>1, <1>1 DEF CallsOK, Calling, Trade
    <3>3. \A p \in Objects, l \in Keys : Swapped(p, l)' = Swapped(p, l)
      BY <3>1, <3>2, <1>1, StoredEffect
    <3>4. \A u \in Threads : Accesses(u)' => Accesses(u)
      BY <3>1, <1>1 DEF Accesses
    <3>5. ASSUME NEW u \in Threads PROVE Counted(u)'
      <4>1. PICK p, l, m : p = trade[u].obj /\ l = trade[u].inc /\ m = trade[u].in
        OBVIOUS
      <4>2. Accesses(u) => Covers(p, l, m)'
        BY <3>1, <3>3, <4>1, <1>3, <1>4 DEF Counted, Covers
      <4>. QED
        BY <3>1, <3>4, <4>1, <4>2 DEF Counted, Covers
    <3>6. \A p \in live', l \in Keys : Covers(p, l, 0)'
      BY <3>1, <3>3, <1>1, <1>3 DEF Covers
    <3>7. (\A u \in Threads : ReadOK(u)') /\ AloneOK'
      <4>1. \A p \in live, l \in Keys :
               /\ swapped'[p][l] = swapped[p][l]
               /\ Number(heap', swapped[p][l]) = Number(heap, swapped[p][l])
        BY <3>1, <3>3, <1>1 DEF Swapped
      <4>2. \A u \in Threads :
               Adding(u)' => Adding(u) /\ new'[u] = new[u] /\ trade'[u] = trade[u]
        BY <3>1, <1>1 DEF Adding
      <4>. QED
        BY <3>1, <4>1, <4>2, ReadFrame
    <3>. QED
      BY <3>5, <3>6, <3>7 DEF CountOK
  <2>4. CASE (\E call \in Calls : Begin(t, call)) \/ Acquire(t) \/ Reject(t)
                \/ Decrease(t) \/ Increase(t) \/ Return(t)
    <3>1. /\ UNCHANGED <<live, heap, swapped, tradedIn, torn>>
          /\ \A u \in Threads : Accesses(u)' => Accesses(u) /\ trade'[u] = trade[u]
      BY <2>4, <1>1 DEF Begin, Acquire, Reject, Decrease, Increase, Return, Move, store,
         Accesses
    <3>2. \A u \in Threads :
             Adding(u)' => Adding(u) /\ new'[u] = new[u] /\ trade'[u] = trade[u]
      BY <2>4, <1>1 DEF Begin, Acquire, Reject, Decrease, Increase, Return, Move, Adding
    <3>3. (\A u \in Threads : ReadOK(u)') /\ AloneOK'
      BY <3>1, <3>2, ReadFrame
    <3>. QED
      BY <3>1, <3>3, <1>3 DEF CountOK, Counted, Covers, Swapped
  <2>. QED
    BY <1>5, <2>1, <2>2, <2>3, <2>4 DEF UpdateLimit
<1>6. ASSUME NEW t \in Threads, Clone(t) PROVE CountOK'
  <2>1. ASSUME NEW o \in Objects, NEW c \in Objects, CloneBalance(t, o, c) PROVE CountOK'
    <3>1. /\ UNCHANGED <<live, heap, swapped, tradedIn, trade, new, torn>>
          /\ \A u \in Threads : Accesses(u)' => Accesses(u)
          /\ \A u \in Threads : Adding(u)' => Adding(u)
      BY <2>1, <1>1 DEF CloneBalance, Move, Accesses, Adding
    <3>2. (\A u \in Threads : ReadOK(u)') /\ AloneOK'
      BY <3>1, ReadFrame
    <3>. QED
      BY <3>1, <3>2, <1>3 DEF CountOK, Counted, Covers, Swapped
  <2>2. CASE CloneSwapped(t)
    <3>1. PICK o, c : o = copy[t].from /\ c = copy[t].to
      OBVIOUS
    <3>2. /\ pc[t] = "clone" /\ pc' = [pc EXCEPT ![t] = "idle"]
          /\ live' = live \cup {c}
          /\ swapped' = [swapped EXCEPT ![c] = swapped[o]]
          /\ tradedIn' = [tradedIn EXCEPT ![c] = tradedIn[o]]
          /\ UNCHANGED <<heap, trade, new, torn>>
      BY <2>2, <3>1 DEF CloneSwapped, Move
    <3>3. o \in live /\ o \in Objects /\ c \in Objects /\ c \notin live
      BY <3>1, <3>2, <1>1, AbsentAssumption DEF CopiesOK, Copy
    <3>4. \A p \in Objects, k \in Keys :
             /\ p # c => swapped'[p][k] = swapped[p][k] /\ tradedIn'[p][k] = tradedIn[p][k]
             /\ p = c => swapped'[p][k] = swapped[o][k] /\ tradedIn'[p][k] = tradedIn[o][k]
      BY <3>2, <3>3, <1>1 DEF TypeOK
    <3>5. ASSUME NEW p \in live', NEW k \in Keys PROVE Covers(p, k, 0)'
      <4>1. CASE p = c
        BY <4>1, <3>2, <3>3, <3>4, <1>3 DEF Covers, Swapped
      <4>2. CASE p # c
        BY <4>2, <3>2, <3>4, <3>5, <1>1, <1>3 DEF Covers, Swapped
      <4>. QED
        BY <4>1, <4>2
    <3>6. ASSUME NEW u \in Threads PROVE Counted(u)'
      <4>1. PICK p, l, m : p = trade[u].obj /\ l = trade[u].inc /\ m = trade[u].in
        OBVIOUS
      <4>2. Accesses(u)' => Accesses(u)
        BY <3>2, <1>1 DEF Accesses
      <4>3. Accesses(u) => p \in Objects /\ p # c /\ l \in Keys /\ Covers(p, l, m)
        BY <3>3, <4>1, <1>3, <1>4 DEF Counted
      <4>4. Accesses(u) => Covers(p, l, m)'
        BY <3>2, <3>4, <4>3 DEF Covers, Swapped
      <4>. QED
        BY <3>2, <4>1, <4>2, <4>4 DEF Counted, Covers
    <3>7. (\A u \in Threads : ReadOK(u)') /\ AloneOK'
      <4>1. \A p \in live, l \in Keys : swapped'[p][l] = swapped[p][l]
        BY <3>3, <3>4, <1>1
      <4>2. \A u \in Threads : Adding(u)' => Adding(u)
        BY <3>2, <1>1 DEF Adding
      <4>. QED
        BY <3>2, <4>1, <4>2, ReadFrame
    <3>. QED
      BY <3>5, <3>6, <3>7 DEF CountOK
  <2>. QED
    BY <1>6, <2>1, <2>2 DEF Clone
<1>7. CASE MapFault \/ UNCHANGED vars
  <2>1. UNCHANGED <<live, heap, swapped, tradedIn, trade, pc, new, torn>>
    BY <1>7 DEF MapFault, vars, store
  <2>2. (\A u \in Threads : ReadOK(u)') /\ AloneOK'
    BY <2>1, ReadFrame DEF Adding
  <2>. QED
    BY <2>1, <2>2, <1>3 DEF CountOK, Counted, Covers, Swapped, Accesses
<1>. QED
  BY <1>5, <1>6, <1>7 DEF Next

-----------------------------------------------------------------------------
(* The theorems. *)

LEMMA LedgerInit == Init => LedgerInv
<1> SUFFICES ASSUME Init PROVE LedgerInv
  OBVIOUS
<1>1. LockOK
  BY DEF Init, LockOK, Holding
<1>2. live = {Original} /\ Original \in Objects
  BY LimitAssumption DEF Init
<1>3. AccountsOK
  BY <1>2 DEF Init, AccountsOK, ObjectOK, CallOK, Balance
<1>4. \A o \in Objects, k \in Keys : Swapped(o, k) = 0 /\ tradedIn[o][k] = 0
  BY DEF Init, Swapped, Number
<1>5. CountOK
  BY <1>2, <1>4 DEF Init, CountOK, Counted, Covers, ReadOK, AloneOK, Adding, Accesses
<1>. QED
  BY <1>1, <1>3, <1>5 DEF LedgerInv

LEMMA KindFixed == BaseInv /\ [Next]_vars => kind' = kind
BY DEF Next, UpdateLimit, Begin, Acquire, AddSwapped, WriteSwapped, Reject, Decrease,
       WriteDecrease, Increase, WriteIncrease, Return, Clone, CloneBalance,
       CloneSwapped, MapFault, vars

LEMMA LedgerNext == BaseInv /\ LedgerInv /\ [Next]_vars => LedgerInv'
<1> SUFFICES ASSUME BaseInv, LedgerInv, [Next]_vars PROVE LedgerInv'
  OBVIOUS
<1>1. kind' = kind /\ BaseInv' /\ LockOK
  BY KindFixed, BaseNext DEF LedgerInv
<1>2. LockOK'
  BY <1>1, LockNext
<1>3. kind # "allowed" => AccountsOK'
  BY <1>1, AccountsNext DEF LedgerInv
<1>4. kind = "swapped" => CountOK'
  BY <1>1, CountNext DEF LedgerInv
<1>. QED
  BY <1>1, <1>2, <1>3, <1>4 DEF LedgerInv

(* The inductive invariant of the balances holds of all three types of     *)
(* limit, with or without a lock.                                          *)
THEOREM BaseInvariant == Spec => []BaseInv
BY BaseInit, BaseNext, PTL DEF Spec

(* UpdateLimit, Clone and a map fault keep the types of all fields. *)
THEOREM LimitTypeCorrect == Spec => []TypeOK
<1>1. BaseInv => TypeOK
  BY DEF BaseInv
<1>. QED
  BY <1>1, BaseInvariant, PTL

(* No balance of any object is ever negative, whatever the interleaving of *)
(* UpdateLimit calls, even for the type whose UpdateLimit takes no lock.   *)
THEOREM NeverOverdrawn == Spec => []NoOverdraw
<1>1. BaseInv => NoOverdraw
  BY NumbersNat DEF BaseInv, NoOverdraw
<1>. QED
  BY <1>1, BaseInvariant, PTL

LEMMA LedgerInvariant == Spec => [](BaseInv /\ LedgerInv)
BY BaseInit, BaseNext, LedgerInit, LedgerNext, PTL DEF Spec

(* With the lock (Inventory and SwappedInventory), the balances of every   *)
(* object that no call is updating are exactly what the successful trades  *)
(* leave, for any number of threads, trades and clones.                    *)
THEOREM TradesCounted ==
    ASSUME "allowed" \notin Kinds
    PROVE  Spec => []EveryTradeCounted
<1>1. BaseInv /\ LedgerInv => EveryTradeCounted
  BY DEF BaseInv, TypeOK, LedgerInv, AccountsOK, ObjectOK, EveryTradeCounted
<1>. QED
  BY <1>1, LedgerInvariant, PTL

(* GetSwapped of a SwappedInventory reports at least what was swapped in,  *)
(* for the original and for every clone, as long as no two trades were     *)
(* adding at the same time to a number that their objects share.           *)
THEOREM SwappedCovers == Spec => []SwappedCoversTrades
<1>1. BaseInv /\ LedgerInv => SwappedCoversTrades
  <2> SUFFICES ASSUME BaseInv, LedgerInv, kind = "swapped", NEW o \in live, NEW k \in Keys
               PROVE  Swapped(o, k) >= tradedIn[o][k] \/ swapped[o][k] \in torn
    BY DEF SwappedCoversTrades
  <2>1. Swapped(o, k) >= tradedIn[o][k] + 0 \/ swapped[o][k] \in torn
    BY DEF LedgerInv, CountOK, Covers
  <2>2. tradedIn[o][k] \in Nat
    BY DEF BaseInv, TypeOK
  <2>. QED
    BY <2>1, <2>2
<1>. QED
  BY <1>1, LedgerInvariant, PTL

(* A trade on one object changes no balance of another, for all three      *)
(* types and whichever numbers the objects share after Clone.              *)
THEOREM Isolated == Spec => BalancesIsolated
<1> DEFINE Others == \A o \in live : ~WorksFor(o) =>
                        \A k \in Keys : Balance(o, k)' = Balance(o, k)
<1>1. ASSUME BaseInv, [Next]_vars PROVE [Others]_vars
  <2>1. /\ pc \in [Threads -> Step] /\ live \subseteq Objects
        /\ new \in [Threads -> Nat] /\ TypeOK /\ NumbersOK /\ Separate /\ CallsOK
      /\ CopiesOK
    BY <1>1 DEF BaseInv, TypeOK, NumbersOK
  <2>2. \A t \in Threads : Calling(t) =>
           trade[t] \in Trade /\ trade[t].obj \in Objects /\ trade[t] # None
              /\ trade[t].dec \in Keys /\ trade[t].inc \in Keys
    BY <2>1, AbsentAssumption DEF CallsOK, Trade
  <2>3. ASSUME NEW t \in Threads, WriteSwapped(t) PROVE Others
    <3>1. trade[t] \in Trade
      BY <2>2, <2>3 DEF WriteSwapped, Move, Calling
    <3>. QED
      BY <2>1, <2>3, <3>1, SwappedEffect
  <2>4. ASSUME NEW t \in Threads, WriteDecrease(t) PROVE Others
    <3>1. /\ pc[t] = "writeDecrease" /\ pc'[t] # pc[t] /\ swapped' = swapped
          /\ Stored(trade[t].obj, trade[t].dec, new[t])
      BY <2>1, <2>4 DEF WriteDecrease, Move
    <3>2. WorksFor(trade[t].obj)
      BY <2>2, <3>1 DEF WorksFor, Calling
    <3>3. \A p \in Objects, l \in Keys :
             p # trade[t].obj => Balance(p, l)' = Balance(p, l)
      BY <2>1, <2>2, <3>1, StoredEffect DEF Calling
    <3>. QED
      BY <2>1, <3>2, <3>3
  <2>5. ASSUME NEW t \in Threads, WriteIncrease(t) PROVE Others
    <3>1. /\ pc[t] = "writeIncrease" /\ pc'[t] # pc[t] /\ swapped' = swapped
          /\ Stored(trade[t].obj, trade[t].inc, new[t])
      BY <2>1, <2>5 DEF WriteIncrease, Move
    <3>2. WorksFor(trade[t].obj)
      BY <2>2, <3>1 DEF WorksFor, Calling
    <3>3. \A p \in Objects, l \in Keys :
             p # trade[t].obj => Balance(p, l)' = Balance(p, l)
      BY <2>1, <2>2, <3>1, StoredEffect DEF Calling
    <3>. QED
      BY <2>1, <3>2, <3>3
  <2>6. ASSUME NEW t \in Threads, Clone(t) PROVE Others
    <3>1. ASSUME NEW o \in Objects, NEW c \in Objects, CloneBalance(t, o, c) PROVE Others
      <4>1. c \notin live /\ balance' = [balance EXCEPT ![c] = balance[o]] /\ heap' = heap
        BY <3>1 DEF CloneBalance
      <4>. QED
        BY <2>1, <4>1 DEF TypeOK, Balance
    <3>2. CASE CloneSwapped(t)
      BY <3>2 DEF CloneSwapped, Balance
    <3>. QED
      BY <2>6, <3>1, <3>2 DEF Clone
  <2>7. ASSUME UNCHANGED <<heap, balance>> PROVE Others
    BY <2>7 DEF Balance
  <2>8. ASSUME NEW t \in Threads, UpdateLimit(t) PROVE Others
    <3>1. CASE \/ \E call \in Calls : Begin(t, call)
               \/ Acquire(t) \/ AddSwapped(t) \/ Reject(t) \/ Decrease(t)
               \/ Increase(t) \/ Return(t)
      <4>1. UNCHANGED <<heap, balance>>
        BY <3>1 DEF Begin, Acquire, AddSwapped, Reject, Decrease, Increase, Return, store
      <4>. QED
        BY <2>7, <4>1
    <3>. QED
      BY <2>3, <2>4, <2>5, <2>8, <3>1 DEF UpdateLimit
  <2>9. CASE MapFault
    BY <2>7, <2>9 DEF MapFault, store
  <2>10. CASE UNCHANGED vars
    BY <2>10
  <2>. QED
    BY <1>1, <2>6, <2>8, <2>9, <2>10 DEF Next
<1>2. [][Others]_vars <=> BalancesIsolated
  BY PTL DEF BalancesIsolated
<1>. QED
  BY <1>1, <1>2, BaseInvariant, PTL DEF Spec
=============================================================================
