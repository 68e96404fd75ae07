------------------------- MODULE OpSignaturesProofs -------------------------
(***************************************************************************)
(* Proofs about OpSignatures, for any number of callers and orders and any *)
(* durations.                                                              *)
(***************************************************************************)
EXTENDS OpSignatures, FiniteSetTheorems, TLAPS

(* No entry outlives what its signature allows, late stores included. *)
EntriesOK ==
    \A o \in Orders : entries[o] # None =>
        entries[o].staleAt <= entries[o].sig.issued + Timeout + TTL

(* An RFQ in progress is not older than its timeout. *)
TimeOK(c) == pc[c] # "idle" => began[c] <= now /\ now <= began[c] + Timeout

CachedOK(c) ==
    /\ pc[c] = "idle" => cached[c] = Nothing
    /\ \A o \in Signed(cached[c]) :
          /\ cached[c][o].expiry > began[c] + Margin
          /\ began[c] < cached[c][o].issued + Timeout + TTL

FetchedOK(c) ==
    /\ pc[c] \in {"idle", "fetch"} => fetched[c] = Nothing
    /\ \A o \in Signed(fetched[c]) :
          /\ fetched[c][o].expiry >= fetched[c][o].issued + MinValid
          /\ fetched[c][o].issued >= began[c]

(* What an RFQ requires is found, still to be fetched, or not active. *)
RequiredOK(c) ==
    /\ pc[c] = "fetch" => required[c] \subseteq Signed(cached[c]) \cup uncached[c]
    /\ pc[c] = "store" =>
          required[c] \cap active \subseteq Signed(cached[c]) \cup Signed(fetched[c])
    /\ pc[c] = "missing" => ~(required[c] \subseteq active)

RfqOK(c) == TimeOK(c) /\ CachedOK(c) /\ FetchedOK(c) /\ RequiredOK(c)

SigInv == TypeOK /\ EntriesOK /\ \A c \in Callers : RfqOK(c)

-----------------------------------------------------------------------------
(* Facts about the operators *)

LEMMA Constants ==
    /\ TTL \in Nat /\ Margin \in Nat /\ MaxCached \in Nat /\ MinValid \in Nat
    /\ Validity \in Nat /\ MinValid <= Validity /\ Timeout \in Nat /\ MaxTime \in Nat
    /\ IsFiniteSet(Orders) /\ None \notin Signature /\ None \notin Entry
    /\ HeldExpiries \subseteq Nat
BY SignatureAssumption

LEMMA NothingIsUnsigned == Nothing \in [Orders -> Signature \cup {None}] /\ Signed(Nothing) = {}
BY DEF Nothing, Signed

(* A signature of the service has its minimum valid time left. *)
LEMMA RenewedBound ==
    ASSUME TypeOK, NEW o \in Orders
    PROVE  Renewed(o) \in Nat /\ Renewed(o) >= now + MinValid
BY Constants DEF TypeOK, Renewed

LEMMA SignedResult ==
    ASSUME TypeOK, NEW c \in Callers
    PROVE  /\ Signed(Result(c)) = Signed(cached[c]) \cup Signed(fetched[c])
           /\ \A o \in Signed(Result(c)) :
                 \/ o \in Signed(cached[c]) /\ Result(c)[o] = cached[c][o]
                 \/ o \in Signed(fetched[c]) /\ Result(c)[o] = fetched[c][o]
BY DEF TypeOK, Result, Signed

(* What storing does to each entry. *)
LEMMA StoredEntries ==
    ASSUME TypeOK, NEW c \in Callers, StoreAll(fetched[c]), NEW o \in Orders
    PROVE  /\ entries' \in [Orders -> Entry \cup {None}]
           /\ \/ entries'[o] \in {entries[o], None}
              \/ /\ o \in Signed(fetched[c]) /\ TTL # 0
                 /\ entries'[o] = [sig |-> fetched[c][o], staleAt |-> now + TTL]
<1>1. \A p \in Orders : fetched[c][p] # None =>
          [sig |-> fetched[c][p], staleAt |-> now + TTL] \in Entry
  BY Constants DEF TypeOK, Entry
<1>2. \A p \in Orders : Kept(p) \in {entries[p], None}
  BY DEF Kept
<1>3. CASE TTL = 0 \/ Signed(fetched[c]) = {}
  BY <1>3 DEF StoreAll, TypeOK
<1>4. CASE ~(TTL = 0 \/ Signed(fetched[c]) = {})
  <2>1. entries' = [p \in Orders |->
                      IF fetched[c][p] # None
                      THEN [sig |-> fetched[c][p], staleAt |-> now + TTL] ELSE Kept(p)]
    BY <1>4 DEF StoreAll
  <2> QED
    BY <1>1, <1>2, <1>4, <2>1 DEF TypeOK, Signed
<1> QED
  BY <1>3, <1>4

-----------------------------------------------------------------------------
(* Types *)

LEMMA SigTypes == TypeOK /\ [Next]_vars => TypeOK'
<1> SUFFICES ASSUME TypeOK, [Next]_vars PROVE TypeOK'
  OBVIOUS
<1> USE DEF TypeOK
<1>1. ASSUME NEW c \in Callers, NEW ids \in SUBSET Orders, NEW need \in SUBSET ids,
             Lookup(c, ids, need)
      PROVE  TypeOK'
  <2> DEFINE found == {o \in ids : Reusable(o)}
             sigs == [o \in Orders |-> IF o \in found THEN entries[o].sig ELSE None]
  <2>1. sigs \in [Orders -> Signature \cup {None}]
    BY DEF Reusable, Entry
  <2>2. cached' = [cached EXCEPT ![c] = sigs]
    BY <1>1 DEF Lookup
  <2> HIDE DEF sigs
  <2>3. cached' \in [Callers -> [Orders -> Signature \cup {None}]]
    BY <2>1, <2>2
  <2> QED
    BY <1>1, <2>3 DEF Lookup, Move, service
<1>2. ASSUME NEW c \in Callers, Answer(c) PROVE TypeOK'
  <2> DEFINE given == uncached[c] \cap active
             sigs == [o \in Orders |-> IF o \in given
                                       THEN [expiry |-> Renewed(o), issued |-> now] ELSE None]
  <2>1. \A o \in Orders : Renewed(o) \in Nat
    BY RenewedBound
  <2>2. sigs \in [Orders -> Signature \cup {None}]
    BY <2>1 DEF Signature
  <2>3. fetched' = [fetched EXCEPT ![c] = sigs]
    BY <1>2 DEF Answer
  <2>4. expiry' \in [Orders -> Nat]
    BY <1>2, <2>1 DEF Answer
  <2> HIDE DEF sigs
  <2>5. fetched' \in [Callers -> [Orders -> Signature \cup {None}]]
    BY <2>2, <2>3
  <2> QED
    BY <1>2, <2>4, <2>5 DEF Answer, Move, request
<1>3. ASSUME NEW c \in Callers, Store(c) PROVE TypeOK'
  <2>1. Outcome(c) \in {"done", "missing"}
    BY DEF Outcome
  <2>2. entries' \in [Orders -> Entry \cup {None}]
    <3>1. StoreAll(fetched[c])
      BY <1>3 DEF Store
    <3>2. CASE Orders = {}
      BY <3>1, <3>2 DEF StoreAll, Signed
    <3>3. CASE Orders # {}
      BY <3>1, <3>3, StoredEntries
    <3> QED
      BY <3>2, <3>3
  <2> QED
    BY <1>3, <2>1, <2>2 DEF Store, Move, service, request
<1>4. ASSUME NEW c \in Callers, Leave(c) PROVE TypeOK'
  <2>1. 0 \in 0..MaxTime
    BY Constants
  <2> QED
    BY <1>4, <2>1, NothingIsUnsigned DEF Leave, service
<1>5. CASE Tick
  BY <1>5, Constants DEF Tick, service, request
<1>6. ASSUME NEW o \in Orders, Cancel(o) PROVE TypeOK'
  BY <1>6 DEF Cancel, request
<1>7. CASE UNCHANGED vars
  BY <1>7 DEF vars, service, request
<1> QED
  BY <1>1, <1>2, <1>3, <1>4, <1>5, <1>6, <1>7 DEF Next

-----------------------------------------------------------------------------
(* The cache *)

LEMMA EntriesStep == SigInv /\ [Next]_vars => EntriesOK'
<1> SUFFICES ASSUME SigInv, [Next]_vars PROVE EntriesOK'
  OBVIOUS
<1> USE DEF SigInv
<1>1. ASSUME NEW c \in Callers, Store(c) PROVE EntriesOK'
  <2> SUFFICES ASSUME NEW o \in Orders, entries'[o] # None
               PROVE  entries'[o].staleAt <= entries'[o].sig.issued + Timeout + TTL
    BY DEF EntriesOK
  <2>1. CASE entries'[o] \in {entries[o], None}
    BY <2>1 DEF EntriesOK
  <2>2. CASE /\ o \in Signed(fetched[c])
             /\ entries'[o] = [sig |-> fetched[c][o], staleAt |-> now + TTL]
    <3>1. fetched[c][o] \in Signature
      BY <2>2 DEF TypeOK, Signed
    <3>2. fetched[c][o].issued >= began[c] /\ now <= began[c] + Timeout
      BY <1>1, <2>2 DEF Store, Move, RfqOK, FetchedOK, TimeOK
    <3>3. now \in Int /\ began[c] \in Int /\ fetched[c][o].issued \in Int
      BY <3>1, Constants DEF TypeOK, Signature
    <3> QED
      BY <2>2, <3>2, <3>3, Constants
  <2> QED
    BY <1>1, <2>1, <2>2, StoredEntries DEF Store
<1>2. CASE UNCHANGED entries
  BY <1>2 DEF EntriesOK
<1> QED
  BY <1>1, <1>2 DEF Next, Lookup, Answer, Leave, Tick, Cancel, vars

-----------------------------------------------------------------------------
(* The RFQs *)

(* The steps of others, time and cancellations excepted, change nothing    *)
(* that an RFQ knows.                                                      *)
LEMMA OthersKeep ==
    ASSUME SigInv, NEW d \in Callers, now' = now, active' \subseteq active,
           pc'[d] = pc[d], required'[d] = required[d], began'[d] = began[d],
           cached'[d] = cached[d], uncached'[d] = uncached[d], fetched'[d] = fetched[d]
    PROVE  RfqOK(d)'
<1>1. RfqOK(d)
  BY DEF SigInv
<1> QED
  BY <1>1 DEF RfqOK, TimeOK, CachedOK, FetchedOK, RequiredOK, Signed

LEMMA LookupStep ==
    ASSUME SigInv, NEW c \in Callers, NEW ids \in SUBSET Orders, NEW need \in SUBSET ids,
           Lookup(c, ids, need)
    PROVE  RfqOK(c)'
<1> USE DEF SigInv
<1> DEFINE found == {o \in ids : Reusable(o)}
           sigs == [o \in Orders |-> IF o \in found THEN entries[o].sig ELSE None]
<1>1. /\ pc[c] = "idle" /\ pc'[c] = IF found = ids THEN "done" ELSE "fetch"
      /\ required'[c] = need /\ uncached'[c] = ids \ found /\ began'[c] = now
      /\ cached'[c] = sigs /\ fetched'[c] = fetched[c] /\ now' = now
  BY DEF Lookup, Move, TypeOK
<1>2. RfqOK(c) /\ fetched[c] = Nothing
  BY <1>1 DEF RfqOK, FetchedOK
<1>3. now \in Nat
  BY DEF TypeOK
<1>4. \A o \in found :
         /\ entries[o] \in Entry /\ entries[o].sig \in Signature
         /\ now < entries[o].staleAt /\ entries[o].sig.expiry > now + Margin
         /\ entries[o].staleAt <= entries[o].sig.issued + Timeout + TTL
  BY DEF Reusable, UsableAt, EntriesOK, TypeOK, Entry
<1>5. \A o \in found : now < entries[o].sig.issued + Timeout + TTL
  BY <1>3, <1>4, Constants DEF Entry, Signature
<1>6. found \subseteq Orders /\ Signed(sigs) = found
  BY <1>4, Constants DEF Signed
<1>7. \A o \in found : sigs[o] = entries[o].sig
  BY <1>6
<1>8. TimeOK(c)'
  BY <1>1, <1>3, Constants DEF TimeOK
<1> HIDE DEF sigs
<1>9. CachedOK(c)'
  <2> SUFFICES ASSUME NEW o \in Signed(sigs)
               PROVE  /\ sigs[o].expiry > now + Margin
                      /\ now < sigs[o].issued + Timeout + TTL
    BY <1>1 DEF CachedOK, Signed
  <2> QED
    BY <1>4, <1>5, <1>6, <1>7
<1>10. FetchedOK(c)'
  BY <1>1, <1>2, NothingIsUnsigned DEF FetchedOK, Signed
<1>11. Signed(cached'[c]) = found
  BY <1>1, <1>6
<1>12. RequiredOK(c)'
  <2>1. need \subseteq found \cup (ids \ found)
    OBVIOUS
  <2> QED
    BY <1>1, <1>11, <2>1 DEF RequiredOK, Signed
<1> QED
  BY <1>8, <1>9, <1>10, <1>12 DEF RfqOK

LEMMA AnswerStep ==
    ASSUME SigInv, NEW c \in Callers, Answer(c)
    PROVE  RfqOK(c)'
<1> USE DEF SigInv
<1> DEFINE given == uncached[c] \cap active
           sigs == [o \in Orders |-> IF o \in given
                                     THEN [expiry |-> Renewed(o), issued |-> now] ELSE None]
<1>1. /\ pc[c] = "fetch" /\ pc'[c] = "store" /\ fetched'[c] = sigs
      /\ UNCHANGED <<now, active, required, began, cached>>
  BY DEF Answer, Move, TypeOK, request
<1>2. RfqOK(c)
  OBVIOUS
<1>3. given \subseteq Orders /\ Signed(sigs) = given
  <2>1. \A o \in Orders : [expiry |-> Renewed(o), issued |-> now] \in Signature
    BY RenewedBound DEF Signature, TypeOK
  <2> QED
    BY <2>1, Constants DEF Signed, TypeOK
<1>4. \A o \in given : sigs[o].expiry = Renewed(o) /\ sigs[o].issued = now
  BY <1>3
<1>5. \A o \in given : Renewed(o) >= now + MinValid
  BY <1>3, RenewedBound
<1> HIDE DEF sigs
<1>6. FetchedOK(c)'
  <2> SUFFICES ASSUME NEW o \in Signed(sigs)
               PROVE  sigs[o].expiry >= sigs[o].issued + MinValid /\ sigs[o].issued >= began[c]
    BY <1>1 DEF FetchedOK, Signed
  <2>1. now >= began[c]
    BY <1>1, <1>2 DEF RfqOK, TimeOK, TypeOK
  <2> QED
    BY <1>3, <1>4, <1>5, <2>1
<1>7. TimeOK(c)' /\ CachedOK(c)'
  BY <1>1, <1>2 DEF RfqOK, TimeOK, CachedOK, Signed
<1>8. RequiredOK(c)'
  <2>1. required[c] \subseteq Signed(cached[c]) \cup uncached[c]
    BY <1>1, <1>2 DEF RfqOK, RequiredOK
  <2>2. required[c] \cap active \subseteq Signed(cached[c]) \cup given
    BY <2>1
  <2>3. Signed(fetched'[c]) = given
    BY <1>1, <1>3
  <2> QED
    BY <1>1, <2>2, <2>3 DEF RequiredOK, Signed
<1> QED
  BY <1>6, <1>7, <1>8 DEF RfqOK

LEMMA StoreStep ==
    ASSUME SigInv, NEW c \in Callers, Store(c)
    PROVE  RfqOK(c)'
<1> USE DEF SigInv
<1>1. /\ pc[c] = "store" /\ pc'[c] = Outcome(c)
      /\ UNCHANGED <<now, active, required, began, cached, uncached, fetched>>
  BY DEF Store, Move, TypeOK, service, request
<1>2. RfqOK(c)
  OBVIOUS
<1>3. TimeOK(c)' /\ CachedOK(c)' /\ FetchedOK(c)'
  BY <1>1, <1>2 DEF RfqOK, TimeOK, CachedOK, FetchedOK, Signed, Outcome
<1>4. RequiredOK(c)'
  <2>1. CASE required[c] \subseteq Signed(Result(c))
    BY <1>1, <2>1 DEF Outcome, RequiredOK
  <2>2. CASE ~(required[c] \subseteq Signed(Result(c)))
    <3>1. required[c] \cap active \subseteq Signed(Result(c))
      BY <1>1, <1>2, SignedResult DEF RfqOK, RequiredOK
    <3> QED
      BY <1>1, <2>2, <3>1 DEF Outcome, RequiredOK
  <2> QED
    BY <2>1, <2>2
<1> QED
  BY <1>3, <1>4 DEF RfqOK

LEMMA RfqStep == SigInv /\ [Next]_vars => (\A c \in Callers : RfqOK(c))'
<1> SUFFICES ASSUME SigInv, [Next]_vars, NEW d \in Callers PROVE RfqOK(d)'
  OBVIOUS
<1>0. TypeOK /\ RfqOK(d)
  BY DEF SigInv
<1>1. ASSUME NEW c \in Callers, NEW ids \in SUBSET Orders, NEW need \in SUBSET ids,
             Lookup(c, ids, need)
      PROVE  RfqOK(d)'
  <2>1. CASE c # d
    BY <1>0, <1>1, <2>1, OthersKeep DEF Lookup, Move, TypeOK, service
  <2> QED
    BY <1>1, <2>1, LookupStep
<1>2. ASSUME NEW c \in Callers, Answer(c) PROVE RfqOK(d)'
  <2>1. CASE c # d
    BY <1>0, <1>2, <2>1, OthersKeep DEF Answer, Move, TypeOK, request
  <2> QED
    BY <1>2, <2>1, AnswerStep
<1>3. ASSUME NEW c \in Callers, Store(c) PROVE RfqOK(d)'
  <2>1. CASE c # d
    BY <1>0, <1>3, <2>1, OthersKeep DEF Store, Move, TypeOK, request, service
  <2> QED
    BY <1>3, <2>1, StoreStep
<1>4. ASSUME NEW c \in Callers, Leave(c) PROVE RfqOK(d)'
  <2>1. CASE c # d
    BY <1>0, <1>4, <2>1, OthersKeep DEF Leave, TypeOK, service
  <2>2. CASE c = d
    <3>1. pc'[d] = "idle" /\ cached'[d] = Nothing /\ fetched'[d] = Nothing
      BY <1>0, <1>4, <2>2 DEF Leave, TypeOK
    <3> QED
      BY <3>1, NothingIsUnsigned
         DEF RfqOK, TimeOK, CachedOK, FetchedOK, RequiredOK, Signed
  <2> QED
    BY <2>1, <2>2
<1>5. CASE Tick
  <2>1. UNCHANGED <<active, pc, required, began, cached, uncached, fetched>> /\ now' = now + 1
          /\ (pc[d] # "idle" => now < began[d] + Timeout)
    BY <1>5 DEF Tick, service, request
  <2>2. TimeOK(d)'
    BY <1>0, <2>1, Constants DEF RfqOK, TimeOK, TypeOK
  <2>3. CachedOK(d)' /\ FetchedOK(d)' /\ RequiredOK(d)'
    BY <1>0, <2>1 DEF RfqOK, CachedOK, FetchedOK, RequiredOK, Signed
  <2> QED
    BY <2>2, <2>3 DEF RfqOK
<1>6. ASSUME NEW o \in Orders, Cancel(o) PROVE RfqOK(d)'
  BY <1>6, OthersKeep DEF Cancel, request
<1>7. CASE UNCHANGED vars
  BY <1>7, OthersKeep DEF vars, service, request
<1> QED
  BY <1>1, <1>2, <1>3, <1>4, <1>5, <1>6, <1>7 DEF Next

-----------------------------------------------------------------------------
(* Theorems *)

(* The inductive invariant of the signature cache and the RFQs around it.  *)
THEOREM SignatureInvariant == Spec => []SigInv
<1>1. Init => SigInv
  <2> SUFFICES ASSUME Init PROVE SigInv
    OBVIOUS
  <2>1. TypeOK
    <3>1. expiry \in [Orders -> Nat]
      BY Constants DEF Init
    <3> QED
      BY <3>1, NothingIsUnsigned, Constants DEF Init, TypeOK, Nothing
  <2>2. EntriesOK
    BY DEF Init, EntriesOK, Nothing
  <2>3. ASSUME NEW c \in Callers PROVE RfqOK(c)
    BY NothingIsUnsigned DEF Init, RfqOK, TimeOK, CachedOK, FetchedOK, RequiredOK
  <2> QED
    BY <2>1, <2>2, <2>3 DEF SigInv
<1>2. SigInv /\ [Next]_vars => SigInv'
  BY SigTypes, EntriesStep, RfqStep DEF SigInv
<1> QED
  BY <1>1, <1>2, PTL DEF Spec

(* The state of the RFQ handler and its cache keeps its types. *)
THEOREM SignatureTypeCorrect == Spec => []TypeOK
<1>1. SigInv => TypeOK
  BY DEF SigInv
<1> QED
  BY SignatureInvariant, <1>1, PTL

(* What GetOpSignatures returns is valid when RFQ returns it, for every    *)
(* RFQ whose request took no longer than the margin and less than the      *)
(* service's minimum valid time, whatever the timeout and however long     *)
(* other RFQs take.                                                        *)
THEOREM SignaturesValid == Spec => []ValidOnReturn
<1>1. SigInv => ValidOnReturn
  <2> SUFFICES ASSUME SigInv, NEW c \in Callers, pc[c] = "done",
                      now <= began[c] + Margin, now < began[c] + MinValid,
                      NEW o \in Signed(Result(c))
               PROVE  Result(c)[o].expiry > now
    BY DEF ValidOnReturn
  <2>1. TypeOK /\ RfqOK(c) /\ o \in Orders
    BY DEF SigInv, Signed
  <2>2. began[c] \in Int /\ now \in Int
    BY <2>1, Constants DEF TypeOK
  <2>3. CASE o \in Signed(cached[c]) /\ Result(c)[o] = cached[c][o]
    <3>1. cached[c][o].expiry \in Int /\ cached[c][o].expiry > began[c] + Margin
      BY <2>1, <2>3 DEF RfqOK, CachedOK, TypeOK, Signature, Signed
    <3> QED
      BY <2>2, <2>3, <3>1, Constants
  <2>4. CASE o \in Signed(fetched[c]) /\ Result(c)[o] = fetched[c][o]
    <3>1. fetched[c][o] \in Signature
      BY <2>1, <2>4 DEF TypeOK, Signed
    <3>2. /\ fetched[c][o].expiry \in Int /\ fetched[c][o].issued \in Int
          /\ fetched[c][o].expiry >= fetched[c][o].issued + MinValid
          /\ fetched[c][o].issued >= began[c]
      BY <2>1, <2>4, <3>1 DEF RfqOK, FetchedOK, Signature
    <3> QED
      BY <2>2, <2>4, <3>2, Constants
  <2> QED
    BY <2>1, <2>3, <2>4, SignedResult
<1> QED
  BY SignatureInvariant, <1>1, PTL

(* A signature found in the cache is no older than its TTL and the time    *)
(* its own RFQ may have taken to store it.                                 *)
THEOREM SignaturesRecent == Spec => []StalenessBounded
<1>1. SigInv => StalenessBounded
  BY DEF SigInv, RfqOK, CachedOK, StalenessBounded
<1> QED
  BY SignatureInvariant, <1>1, PTL

(* RFQ fails with ErrMissingOperatorSignature only over an order that is   *)
(* really gone.                                                            *)
THEOREM MissingJustified == Spec => []MissingIsReal
<1>1. SigInv => MissingIsReal
  BY DEF SigInv, RfqOK, RequiredOK, MissingIsReal
<1> QED
  BY SignatureInvariant, <1>1, PTL

(* Storing leaves at most maxCachedOpSignatures outlived entries, for any  *)
(* number of orders.                                                       *)
THEOREM CacheSwept == Spec => ExpiredBounded
<1> DEFINE Outlived == {o \in Orders : entries'[o] # None /\ entries'[o].staleAt <= now}
<1>1. SigInv /\ [Next]_vars =>
        [entries' # entries => Cardinality(Outlived) <= MaxCached]_vars
  <2> SUFFICES ASSUME SigInv, Next, entries' # entries
               PROVE  Cardinality(Outlived) <= MaxCached
    OBVIOUS
  <2>1. PICK c \in Callers : Store(c)
    BY DEF Next, Lookup, Answer, Leave, Tick, Cancel
  <2>2. TypeOK /\ StoreAll(fetched[c]) /\ ~(TTL = 0 \/ Signed(fetched[c]) = {})
    BY <2>1 DEF SigInv, Store, StoreAll
  <2>3. entries' = [o \in Orders |->
                      IF fetched[c][o] # None
                      THEN [sig |-> fetched[c][o], staleAt |-> now + TTL] ELSE Kept(o)]
    BY <2>2 DEF StoreAll
  <2>4. now \in Nat /\ TTL \in Nat /\ TTL # 0
    BY <2>2, Constants DEF TypeOK
  <2>5. \A o \in Outlived : fetched[c][o] = None /\ Kept(o) = entries'[o]
    BY <2>3, <2>4
  <2>6. CASE Cardinality(Signed(entries)) > MaxCached
    <3>1. Outlived = {}
      <4> SUFFICES ASSUME NEW o \in Outlived PROVE FALSE
        OBVIOUS
      <4>1. Kept(o) # None /\ Kept(o).staleAt <= now
        BY <2>5
      <4>2. Kept(o) = entries[o] /\ UsableAt(entries[o], now) /\ entries[o] \in Entry
        BY <2>2, <2>6, <4>1 DEF Kept, TypeOK
      <4> QED
        BY <2>4, <4>1, <4>2 DEF UsableAt, Entry
    <3> HIDE DEF Outlived
    <3> QED
      BY <3>1, FS_EmptySet, Constants
  <2>7. CASE ~(Cardinality(Signed(entries)) > MaxCached)
    <3>1. Outlived \subseteq Signed(entries)
      BY <2>5 DEF Kept, Signed
    <3>2. Signed(entries) \subseteq Orders
      BY DEF Signed
    <3>3. IsFiniteSet(Signed(entries))
      BY <3>2, FS_Subset, Constants
    <3> HIDE DEF Outlived
    <3>4. Cardinality(Outlived) <= Cardinality(Signed(entries))
            /\ Cardinality(Outlived) \in Nat /\ Cardinality(Signed(entries)) \in Nat
      BY <3>1, <3>3, FS_Subset, FS_CardinalityType
    <3> QED
      BY <2>7, <3>4, Constants
  <2> QED
    BY <2>6, <2>7
<1> QED
  BY <1>1, SignatureInvariant, PTL DEF Spec, ExpiredBounded
=============================================================================
