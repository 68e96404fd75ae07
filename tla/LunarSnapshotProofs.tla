------------------------ MODULE LunarSnapshotProofs -------------------------
(***************************************************************************)
(* Proofs about LunarSnapshot, for any number of callers and pools, any    *)
(* chains and any capacity of the cache.                                   *)
(***************************************************************************)
EXTENDS LunarSnapshot, WellFoundedInduction, TLAPS

(* A state is cached, and captured, under the pool and block it is of. *)
CacheOK == \A k \in Key : entries[k] # None => entries[k] = k

PriorOK ==
    \A c \in Callers, b \in Block :
        prior[c][b] # None => prior[c][b] = [pool |-> pool[c], block |-> b]

(* What a call knows at each point. *)
RefOK(c) ==
    /\ pc[c] # "idle" => mode[c] \in Mode /\ minimum[c] >= entity[c].number
    /\ pc[c] \in {"header", "verify", "put"} => mode[c] # "single"
    /\ pc[c] = "put" => mode[c] = "cached"
    /\ pc[c] \in {"read", "verify", "put", "apply"} /\ mode[c] # "single" => ref[c] \in Block

ContentOK(c) ==
    pc[c] \in {"verify", "put", "apply"} =>
        /\ content[c] \in Key
        /\ content[c].pool = pool[c]
        /\ mode[c] = "override" => content[c].block.number = ref[c].number
        /\ mode[c] = "cached" => content[c].block = ref[c]

(* A read that is still to be verified counts as confirmed if its block is *)
(* canonical now: either it was when the read ended, or the chain has      *)
(* come back to it since.                                                  *)
ConfirmedOK(c) ==
    /\ pc[c] = "verify" /\ Canonical(chain, ref[c]) => confirmed[c]
    /\ pc[c] \in {"put", "apply"} /\ mode[c] # "single" => confirmed[c]

CallsOK == \A c \in Callers : RefOK(c) /\ ContentOK(c) /\ ConfirmedOK(c)

SnapInv == TypeOK /\ CacheOK /\ PriorOK /\ CallsOK /\ CacheBounded

-----------------------------------------------------------------------------
(* Chains and maxima *)

LEMMA ChainLength ==
    ASSUME NEW ch \in Chains
    PROVE  /\ Len(ch) \in 1..MaxHeight
           /\ \A n \in 1..Len(ch) : ch[n] \in Forks
<1>1. PICK n \in 1..MaxHeight : ch \in [1..n -> Forks]
  BY SnapshotAssumption
<1>2. ch \in Seq(Forks) /\ Len(ch) = n
  BY <1>1, SnapshotAssumption
<1> QED
  BY <1>1, <1>2

LEMMA AtIsBlock ==
    ASSUME NEW ch \in Chains, NEW n \in 1..Len(ch)
    PROVE  At(ch, n) \in Block /\ Canonical(ch, At(ch, n))
<1>1. Len(ch) \in 1..MaxHeight /\ ch[n] \in Forks
  BY ChainLength
<1>2. At(ch, n) \in Block
  BY <1>1, SnapshotAssumption DEF At, Block
<1> QED
  BY <1>1, <1>2, SnapshotAssumption DEF At, Canonical

(* The latest block is a canonical block. *)
LEMMA TipIsCanonical ==
    ASSUME chain \in Chains
    PROVE  Tip \in Block /\ Canonical(chain, Tip)
BY ChainLength, AtIsBlock DEF Tip

(* A set of heights that is not empty has a maximum. *)
LEMMA MaximumExists ==
    ASSUME NEW S \in SUBSET (0..MaxHeight), S # {}
    PROVE  Max(S) \in S /\ \A n \in S : Max(S) >= n
<1> DEFINE T == {MaxHeight - n : n \in S}
<1>1. MaxHeight \in Nat /\ T \subseteq Nat /\ T # {}
  <2>1. MaxHeight \in Nat
    BY SnapshotAssumption
  <2>2. ASSUME NEW n \in S PROVE MaxHeight - n \in Nat
    BY <2>1
  <2>3. PICK n \in S : TRUE
    OBVIOUS
  <2>4. MaxHeight - n \in T
    OBVIOUS
  <2> QED
    BY <2>1, <2>2, <2>4
<1>2. PICK x \in T : \A y \in T : ~ (<<y, x>> \in OpToRel(<, Nat))
  <2> HIDE DEF T
  <2> QED
    BY <1>1, NatLessThanWellFounded, WFMin
<1>3. \A y \in T : ~ (y < x)
  BY <1>1, <1>2 DEF OpToRel
<1>4. PICK m \in S : x = MaxHeight - m
  BY <1>2
<1>5. \A n \in S : m >= n
  <2> SUFFICES ASSUME NEW n \in S PROVE m >= n
    OBVIOUS
  <2>1. MaxHeight - n \in T
    OBVIOUS
  <2>2. ~ (MaxHeight - n < MaxHeight - m)
    BY <2>1, <1>3, <1>4
  <2> QED
    BY <2>2, <1>1
<1> QED
  BY <1>5 DEF Max

-----------------------------------------------------------------------------
(* Types *)

LEMMA MinimumBounds ==
    ASSUME TypeOK, NEW c \in Callers, NEW call \in Calls
    PROVE  /\ Minimum(c, call) \in 0..MaxHeight
           /\ Minimum(c, call) >= entity[c].number
<1> DEFINE S == {entity[c].number} \cup call.headers
                  \cup {l.number : l \in {x \in call.logs : x.pool = pool[c] /\ ~x.removed}}
<1>1. entity[c].number \in 0..MaxHeight
  BY DEF TypeOK, Entity
<1>2. call.headers \subseteq 1..MaxHeight /\ call.logs \subseteq Log
  BY SnapshotAssumption
<1>3. S \in SUBSET (0..MaxHeight) /\ S # {}
  <2>1. ASSUME NEW l \in call.logs PROVE l.number \in 0..MaxHeight
    BY <1>2, SnapshotAssumption DEF Log
  <2>2. 1..MaxHeight \subseteq 0..MaxHeight
    BY SnapshotAssumption
  <2> QED
    BY <1>1, <1>2, <2>1, <2>2
<1>4. Max(S) \in S /\ \A n \in S : Max(S) >= n
  <2> HIDE DEF S
  <2> QED
    BY <1>3, MaximumExists
<1>5. entity[c].number \in S
  OBVIOUS
<1>6. Max(S) \in 0..MaxHeight /\ Max(S) >= entity[c].number
  <2> HIDE DEF S
  <2> QED
    BY <1>3, <1>4, <1>5
<1> QED
  BY <1>6 DEF Minimum

LEMMA InitTypes == Init => TypeOK
<1> SUFFICES ASSUME Init PROVE TypeOK
  OBVIOUS
<1>1. [number |-> 0, fork |-> None, content |-> None] \in Entity
  BY SnapshotAssumption DEF Entity
<1>2. NoPrior \in [Block -> Key \cup {None}]
  BY DEF NoPrior
<1>3. 0 \in 0..MaxHeight
  BY SnapshotAssumption
<1> QED
  BY <1>1, <1>2, <1>3, SnapshotAssumption DEF Init, TypeOK

(* A step of one call keeps the types of everything but, possibly, what it *)
(* writes.                                                                 *)
LEMMA TypeStep == TypeOK /\ CallsOK /\ [Next]_vars => TypeOK'
<1> SUFFICES ASSUME TypeOK, CallsOK, [Next]_vars PROVE TypeOK'
  OBVIOUS
<1> USE DEF TypeOK
<1>1. CASE ChainMoves
  BY <1>1 DEF ChainMoves, cache
<1>2. ASSUME NEW c \in Callers, NEW call \in Calls, Start(c, call) PROVE TypeOK'
  <2>1. Minimum(c, call) \in 0..MaxHeight
    BY MinimumBounds
  <2>2. Captured(c, call.mode) \in [Block -> Key \cup {None}]
    <3>1. ASSUME NEW b \in Block PROVE [pool |-> pool[c], block |-> b] \in Key
      BY DEF Key
    <3> QED
      BY <3>1 DEF Captured
  <2>3. call.mode \in Mode
    BY SnapshotAssumption
  <2> QED
    BY <1>2, <2>1, <2>2, <2>3 DEF Start, Move, cache
<1>3. ASSUME NEW c \in Callers, Header(c) PROVE TypeOK'
  <2>1. Tip \in Block
    BY TipIsCanonical
  <2>2. NoPrior \in [Block -> Key \cup {None}]
    BY DEF NoPrior
  <2>3. Canonical(chain, Tip) \in BOOLEAN
    BY DEF Canonical
  <2>4. prior[c][Tip] \in Key \cup {None}
    BY <2>1
  <2> QED
    BY <1>3, <2>1, <2>2, <2>3, <2>4 DEF Header, Found, Move, cache
<1>4. ASSUME NEW c \in Callers, Read(c) PROVE TypeOK'
  <2>1. mode[c] \in Mode /\ (mode[c] # "single" => ref[c] \in Block)
    BY <1>4 DEF Read, Move, CallsOK, RefOK
  <2>2. Selected(c) \in Block
    <3>1. CASE mode[c] = "cached"
      BY <2>1, <3>1 DEF Selected
    <3>2. CASE mode[c] = "override"
      <4>1. ref[c].number \in 1..Len(chain)
        BY <1>4, <2>1, <3>2, ChainLength DEF Read, Block
      <4> QED
        BY <3>2, <4>1, AtIsBlock DEF Selected
    <3>3. CASE mode[c] = "single"
      BY <3>3, TipIsCanonical DEF Selected
    <3> QED
      BY <2>1, <3>1, <3>2, <3>3 DEF Mode
  <2>3. [pool |-> pool[c], block |-> Selected(c)] \in Key
    BY <2>2 DEF Key
  <2>4. Canonical(chain, ref[c]) \in BOOLEAN
    BY DEF Canonical
  <2> QED
    BY <1>4, <2>3, <2>4 DEF Read, Move, cache
<1>5. ASSUME NEW c \in Callers, Verify(c) PROVE TypeOK'
  BY <1>5 DEF Verify, Move, cache
<1>6. ASSUME NEW c \in Callers, Put(c) PROVE TypeOK'
  <2> DEFINE key == [pool |-> pool[c], block |-> ref[c]]
  <2>1. key \in Key /\ content[c] \in Key
    BY <1>6 DEF Put, Move, CallsOK, RefOK, ContentOK, Key
  <2>2. entries' \in [Key -> Key \cup {None}]
    BY <1>6, <2>1 DEF Put
  <2>3. order' \in Seq(Key)
    <3>1. CASE entries[key] # None
      BY <1>6, <3>1 DEF Put
    <3>2. CASE entries[key] = None /\ Len(order) = Capacity
      <4>1. Tail(order) \in Seq(Key)
        BY <3>2, SnapshotAssumption
      <4> HIDE DEF key
      <4>2. Append(Tail(order), key) \in Seq(Key)
        BY <2>1, <4>1
      <4> QED
        BY <1>6, <3>2, <4>2 DEF Put, key
    <3>3. CASE entries[key] = None /\ Len(order) # Capacity
      <4> HIDE DEF key
      <4>1. Append(order, key) \in Seq(Key)
        BY <2>1
      <4> QED
        BY <1>6, <3>3, <4>1 DEF Put, key
    <3> QED
      BY <3>1, <3>2, <3>3
  <2> QED
    BY <1>6, <2>2, <2>3 DEF Put, Move
<1>7. ASSUME NEW c \in Callers, Return(c, {"header", "read", "verify", "apply"}),
             entity' \in [Callers -> Entity]
      PROVE  TypeOK'
  <2>1. NoPrior \in [Block -> Key \cup {None}]
    BY DEF NoPrior
  <2>2. 0 \in 0..MaxHeight
    BY SnapshotAssumption
  <2> QED
    BY <1>7, <2>1, <2>2 DEF Return, cache
<1>8. ASSUME NEW c \in Callers, Apply(c) PROVE TypeOK'
  <2>1. content[c] \in Key /\ (mode[c] # "single" => ref[c] \in Block)
    BY <1>8 DEF Apply, Return, CallsOK, RefOK, ContentOK
  <2>2. content[c].block.number \in 0..MaxHeight
    BY <2>1, SnapshotAssumption DEF Key, Block
  <2>3. Snapshot(c) \in Entity
    BY <2>1, <2>2 DEF Snapshot, Entity, Block
  <2> QED
    BY <1>7, <1>8, <2>3 DEF Apply, Return
<1>9. ASSUME NEW c \in Callers, Behind(c) \/ Reorganised(c) \/ Fail(c) PROVE TypeOK'
  <2>1. entity' = entity
    BY <1>9 DEF Behind, Reorganised, Fail
  <2>2. \E from \in {{"apply"}, {"read", "verify"}, {"header", "read", "verify", "apply"}} :
          Return(c, from)
    BY <1>9, Zenon DEF Behind, Reorganised, Fail
  <2>3. Return(c, {"header", "read", "verify", "apply"})
    BY <2>2 DEF Return
  <2> QED
    BY <1>7, <2>1, <2>3
<1>10. CASE UNCHANGED vars
  BY <1>10 DEF vars
<1> QED
  BY <1>1, <1>2, <1>3, <1>4, <1>5, <1>6, <1>8, <1>9, <1>10 DEF Next, Refresh

-----------------------------------------------------------------------------
(* The cache *)

LEMMA CacheStep == SnapInv /\ [Next]_vars => CacheOK' /\ CacheBounded'
<1> SUFFICES ASSUME SnapInv, [Next]_vars PROVE CacheOK' /\ CacheBounded'
  OBVIOUS
<1> USE DEF SnapInv
<1>1. CASE UNCHANGED cache
  BY <1>1 DEF CacheOK, CacheBounded, cache
<1>2. ASSUME NEW c \in Callers, Put(c) PROVE CacheOK' /\ CacheBounded'
  <2> DEFINE key == [pool |-> pool[c], block |-> ref[c]]
             full == entries[key] = None /\ Len(order) = Capacity
             old == {order[i] : i \in 1..Len(order)}
  <2>1. key \in Key /\ content[c] = key
    BY <1>2 DEF Put, Move, TypeOK, CallsOK, RefOK, ContentOK, Key
  <2>2. None \notin Key /\ Capacity \in Nat \ {0}
    BY SnapshotAssumption
  <2>3. order \in Seq(Key) /\ entries \in [Key -> Key \cup {None}]
    BY DEF TypeOK
  <2>4. /\ entries' = [k \in Key |-> CASE k = key -> key
                                       [] k # key /\ full /\ k = order[1] -> None
                                       [] OTHER -> entries[k]]
        /\ order' = CASE entries[key] # None -> order
                      [] full -> Append(Tail(order), key)
                      [] OTHER -> Append(order, key)
    BY <1>2, <2>1 DEF Put
  <2> HIDE DEF key
  <2>5. CacheOK'
    BY <2>1, <2>3, <2>4 DEF CacheOK
  <2>6. CASE entries[key] # None
    <3>1. order' = order
      BY <2>4, <2>6
    <3>2. \A k \in Key : entries'[k] # None <=> entries[k] # None
      BY <2>1, <2>2, <2>3, <2>4, <2>6
    <3> QED
      BY <2>5, <3>1, <3>2 DEF CacheBounded
  <2>7. CASE entries[key] = None /\ Len(order) # Capacity
    <3>1. order' = Append(order, key)
      BY <2>4, <2>7
    <3>2. \A k \in Key : entries'[k] # None <=> (k = key \/ entries[k] # None)
      BY <2>1, <2>2, <2>3, <2>4, <2>7
    <3>3. key \notin old
      BY <2>7 DEF CacheBounded
    <3>4. Len(order') = Len(order) + 1 /\ order'[Len(order) + 1] = key
            /\ \A i \in 1..Len(order) : order'[i] = order[i]
      BY <2>1, <2>3, <3>1
    <3>5. Len(order') <= Capacity
      BY <2>2, <2>3, <2>7, <3>4 DEF CacheBounded
    <3>6. \A i, j \in 1..Len(order') : order'[i] = order'[j] => i = j
      BY <2>3, <3>3, <3>4 DEF CacheBounded
    <3>7. {order'[i] : i \in 1..Len(order')} = old \cup {key}
      <4>1. \A k : k \in {order'[i] : i \in 1..Len(order')} => k \in old \cup {key}
        BY <2>3, <3>4
      <4>2. \A k : k \in old \cup {key} => k \in {order'[i] : i \in 1..Len(order')}
        <5>1. Len(order) + 1 \in 1..Len(order')
          BY <2>3, <3>4
        <5>2. \A i \in 1..Len(order) : i \in 1..Len(order')
          BY <2>3, <3>4
        <5> QED
          BY <3>4, <5>1, <5>2
      <4> QED
        BY <4>1, <4>2
    <3>8. {k \in Key : entries'[k] # None} = {k \in Key : entries[k] # None} \cup {key}
      BY <2>1, <3>2
    <3> QED
      BY <2>5, <3>5, <3>6, <3>7, <3>8 DEF CacheBounded
  <2>8. CASE full
    <3>1. order' = Append(Tail(order), key) /\ Len(order) = Capacity /\ Len(order) >= 1
      BY <2>2, <2>4, <2>8
    <3>2. key \notin old
      BY <2>8 DEF CacheBounded
    <3>3. order[1] \in old /\ order[1] # key
      BY <3>1, <3>2, <2>3
    <3>4. \A k \in Key : entries'[k] # None <=> (k = key \/ (entries[k] # None /\ k # order[1]))
      BY <2>1, <2>2, <2>3, <2>4, <2>8
    <3>5. /\ Len(order') = Len(order) /\ order'[Len(order)] = key
          /\ \A i \in 1..(Len(order) - 1) : order'[i] = order[i + 1]
      <4>1. /\ Tail(order) \in Seq(Key) /\ Len(Tail(order)) = Len(order) - 1
            /\ \A i \in 1..(Len(order) - 1) : Tail(order)[i] = order[i + 1]
        BY <2>3, <3>1
      <4> QED
        BY <2>1, <3>1, <4>1
    <3>6. Len(order) \in Nat /\ Len(order') <= Capacity
      BY <2>2, <2>3, <3>1, <3>5
    <3>7. \A i, j \in 1..Len(order') : order'[i] = order'[j] => i = j
      <4> SUFFICES ASSUME NEW i \in 1..Len(order), NEW j \in 1..Len(order),
                          order'[i] = order'[j]
                   PROVE  i = j
        BY <3>5
      <4>1. CASE i = Len(order) /\ j # Len(order)
        BY <3>2, <3>5, <3>6, <4>1
      <4>2. CASE i # Len(order) /\ j = Len(order)
        BY <3>2, <3>5, <3>6, <4>2
      <4>3. CASE i # Len(order) /\ j # Len(order)
        <5>1. order[i + 1] = order[j + 1] /\ i + 1 \in 1..Len(order) /\ j + 1 \in 1..Len(order)
          BY <3>5, <3>6, <4>3
        <5>2. i + 1 = j + 1
          BY <5>1 DEF CacheBounded
        <5> QED
          BY <5>2, <3>6
      <4> QED
        BY <4>1, <4>2, <4>3
    <3>8. {order'[i] : i \in 1..Len(order')} = (old \ {order[1]}) \cup {key}
      <4>1. ASSUME NEW i \in 1..Len(order') PROVE order'[i] \in (old \ {order[1]}) \cup {key}
        <5>1. CASE i = Len(order)
          BY <3>5, <5>1
        <5>2. CASE i # Len(order)
          <6>1. order'[i] = order[i + 1] /\ i + 1 \in 1..Len(order) /\ 1 \in 1..Len(order)
                  /\ i + 1 # 1
            BY <3>5, <3>6, <5>2
          <6>2. order[i + 1] # order[1]
            BY <6>1 DEF CacheBounded
          <6> QED
            BY <6>1, <6>2
        <5> QED
          BY <5>1, <5>2
      <4>2. ASSUME NEW j \in 1..Len(order), order[j] # order[1]
            PROVE  order[j] \in {order'[i] : i \in 1..Len(order')}
        <5>1. j - 1 \in 1..(Len(order) - 1) /\ (j - 1) + 1 = j
          BY <3>6, <4>2
        <5>2. order'[j - 1] = order[j] /\ j - 1 \in 1..Len(order')
          BY <3>5, <3>6, <5>1
        <5> QED
          BY <5>2
      <4>3. key \in {order'[i] : i \in 1..Len(order')}
        <5>1. Len(order) \in 1..Len(order')
          BY <3>1, <3>5, <3>6
        <5> QED
          BY <3>5, <5>1
      <4> QED
        BY <4>1, <4>2, <4>3
    <3>9. {k \in Key : entries'[k] # None}
             = ({k \in Key : entries[k] # None} \ {order[1]}) \cup {key}
      BY <2>1, <3>3, <3>4
    <3> QED
      BY <2>5, <3>6, <3>7, <3>8, <3>9 DEF CacheBounded
  <2> QED
    BY <2>6, <2>7, <2>8
<1>3. ASSUME NEW c \in Callers, NEW call \in Calls, Start(c, call) PROVE UNCHANGED cache
  BY <1>3 DEF Start
<1>4. ASSUME NEW c \in Callers, Refresh(c), ~Put(c) PROVE UNCHANGED cache
  BY <1>4 DEF Refresh, Header, Found, Read, Verify, Apply, Behind, Reorganised, Return
<1>5. ASSUME NEW c \in Callers, Fail(c) PROVE UNCHANGED cache
  BY <1>5 DEF Fail, Return
<1>6. CASE ChainMoves \/ UNCHANGED vars
  BY <1>1, <1>6 DEF ChainMoves, vars, cache
<1> QED
  BY <1>1, <1>2, <1>3, <1>4, <1>5, <1>6 DEF Next

-----------------------------------------------------------------------------
(* The calls *)

(* A step of one call leaves what the other calls know as it is. *)
LEMMA OthersKeep ==
    ASSUME SnapInv, NEW c \in Callers, NEW d \in Callers, d # c,
           UNCHANGED <<chain, pool>>,
           pc'[d] = pc[d], mode'[d] = mode[d], minimum'[d] = minimum[d],
           ref'[d] = ref[d], content'[d] = content[d], confirmed'[d] = confirmed[d],
           entity'[d] = entity[d]
    PROVE  (RefOK(d) /\ ContentOK(d) /\ ConfirmedOK(d))'
BY DEF SnapInv, CallsOK, RefOK, ContentOK, ConfirmedOK, Canonical

LEMMA CallStep == SnapInv /\ [Next]_vars => CallsOK'
<1> SUFFICES ASSUME SnapInv, [Next]_vars, NEW d \in Callers
             PROVE  (RefOK(d) /\ ContentOK(d) /\ ConfirmedOK(d))'
  BY DEF CallsOK
<1> USE DEF SnapInv
<1>0. RefOK(d) /\ ContentOK(d) /\ ConfirmedOK(d)
  BY DEF CallsOK
<1>1. CASE ChainMoves
  <2>1. PICK ch \in Chains :
           /\ chain' = ch
           /\ confirmed' = [c \in Callers |-> confirmed[c] \/ Canonical(ch, ref[c])]
           /\ UNCHANGED <<cache, pool, entity, pc, mode, minimum, prior, ref, content>>
    BY <1>1 DEF ChainMoves
  <2>2. (RefOK(d) /\ ContentOK(d))'
    BY <1>0, <2>1 DEF RefOK, ContentOK
  <2>3. confirmed'[d] <=> (confirmed[d] \/ Canonical(chain', ref[d]))
    BY <2>1
  <2>4. ConfirmedOK(d)'
    BY <1>0, <2>1, <2>3 DEF ConfirmedOK, Canonical
  <2> QED
    BY <2>2, <2>4
<1>2. ASSUME NEW c \in Callers, NEW call \in Calls, Start(c, call)
      PROVE  (RefOK(d) /\ ContentOK(d) /\ ConfirmedOK(d))'
  <2>1. CASE d = c
    <3>1. Minimum(c, call) >= entity[c].number /\ call.mode \in Mode
      BY MinimumBounds, SnapshotAssumption
    <3>2. /\ pc'[c] = IF call.mode = "single" THEN "read" ELSE "header"
          /\ mode'[c] = call.mode /\ minimum'[c] = Minimum(c, call)
          /\ entity' = entity
      BY <1>2 DEF Start, Move, TypeOK
    <3> QED
      BY <2>1, <3>1, <3>2 DEF RefOK, ContentOK, ConfirmedOK
  <2>2. CASE d # c
    BY <1>2, <2>2, OthersKeep DEF Start, Move, TypeOK
  <2> QED
    BY <2>1, <2>2
<1>3. ASSUME NEW c \in Callers, Header(c)
      PROVE  (RefOK(d) /\ ContentOK(d) /\ ConfirmedOK(d))'
  <2>1. CASE d = c
    <3>1. Tip \in Block /\ Canonical(chain, Tip)
      BY TipIsCanonical DEF TypeOK
    <3>2. /\ pc'[c] = IF prior[c][Tip] # None THEN "apply" ELSE "read"
          /\ ref'[c] = Tip /\ content'[c] = prior[c][Tip] /\ confirmed'[c] = TRUE
          /\ UNCHANGED <<pool, mode, minimum, entity>>
      BY <1>3, <3>1 DEF Header, Found, Move, TypeOK
    <3>3. prior[c][Tip] # None => prior[c][Tip] = [pool |-> pool[c], block |-> Tip]
      BY <3>1 DEF PriorOK
    <3>4. [pool |-> pool[c], block |-> Tip] \in Key
      BY <3>1 DEF TypeOK, Key
    <3>5. pc[c] = "header"
      BY <1>3 DEF Header, Found, Move
    <3> QED
      BY <1>0, <2>1, <3>1, <3>2, <3>3, <3>4, <3>5 DEF RefOK, ContentOK, ConfirmedOK
  <2>2. CASE d # c
    BY <1>3, <2>2, OthersKeep DEF Header, Found, Move, TypeOK
  <2> QED
    BY <2>1, <2>2
<1>4. ASSUME NEW c \in Callers, Read(c)
      PROVE  (RefOK(d) /\ ContentOK(d) /\ ConfirmedOK(d))'
  <2>1. CASE d = c
    <3>1. /\ pc[c] = "read"
          /\ pc'[c] = IF mode[c] = "single" THEN "apply" ELSE "verify"
          /\ content'[c] = [pool |-> pool[c], block |-> Selected(c)]
          /\ confirmed'[c] = Canonical(chain, ref[c])
          /\ UNCHANGED <<chain, pool, mode, minimum, ref, entity>>
      BY <1>4 DEF Read, Move, TypeOK
    <3>2. content'[c] \in Key
      <4>1. TypeOK'
        BY TypeStep
      <4>2. content'[c] \in Key \cup {None}
        BY <4>1 DEF TypeOK
      <4>3. [pool |-> pool[c], block |-> Selected(c)] # None
        <5>1. CASE mode[c] = "single"
          BY <5>1, TipIsCanonical, SnapshotAssumption DEF Selected, TypeOK, Key
        <5>2. CASE mode[c] = "cached"
          BY <1>0, <2>1, <3>1, <5>2, SnapshotAssumption DEF Selected, RefOK, TypeOK, Key
        <5>3. CASE mode[c] = "override"
          <6>1. ref[c].number \in 1..Len(chain)
            BY <1>0, <1>4, <2>1, <3>1, <5>3, ChainLength DEF Read, RefOK, Block, TypeOK
          <6>2. Selected(c) \in Block
            BY <5>3, <6>1, AtIsBlock DEF Selected, TypeOK
          <6> QED
            BY <6>2, SnapshotAssumption DEF TypeOK, Key
        <5> QED
          BY <1>0, <2>1, <3>1, <5>1, <5>2, <5>3 DEF RefOK, Mode
      <4> QED
        BY <3>1, <4>2, <4>3
    <3>3. RefOK(c)'
      BY <1>0, <2>1, <3>1 DEF RefOK
    <3>4. ContentOK(c)'
      <4>1. content'[c].pool = pool[c] /\ content'[c].block = Selected(c)
        BY <3>1
      <4>2. mode[c] = "cached" => Selected(c) = ref[c]
        BY DEF Selected
      <4>3. mode[c] = "override" => Selected(c).number = ref[c].number
        BY DEF Selected, At
      <4> QED
        BY <3>1, <3>2, <4>1, <4>2, <4>3 DEF ContentOK
    <3>5. ConfirmedOK(c)'
      BY <3>1 DEF ConfirmedOK, Canonical
    <3> QED
      BY <2>1, <3>3, <3>4, <3>5
  <2>2. CASE d # c
    BY <1>4, <2>2, OthersKeep DEF Read, Move, TypeOK
  <2> QED
    BY <2>1, <2>2
<1>5. ASSUME NEW c \in Callers, Verify(c)
      PROVE  (RefOK(d) /\ ContentOK(d) /\ ConfirmedOK(d))'
  <2>1. CASE d = c
    <3>1. /\ pc[c] = "verify" /\ Canonical(chain, ref[c])
          /\ pc'[c] = IF mode[c] = "cached" THEN "put" ELSE "apply"
          /\ UNCHANGED <<chain, pool, mode, minimum, ref, entity, content, confirmed>>
      BY <1>5 DEF Verify, Move, TypeOK
    <3> QED
      BY <1>0, <2>1, <3>1 DEF RefOK, ContentOK, ConfirmedOK
  <2>2. CASE d # c
    BY <1>5, <2>2, OthersKeep DEF Verify, Move, TypeOK
  <2> QED
    BY <2>1, <2>2
<1>6. ASSUME NEW c \in Callers, Put(c)
      PROVE  (RefOK(d) /\ ContentOK(d) /\ ConfirmedOK(d))'
  <2>1. CASE d = c
    <3>1. /\ pc[c] = "put" /\ pc'[c] = "apply"
          /\ UNCHANGED <<chain, pool, mode, minimum, ref, entity, content, confirmed>>
      BY <1>6 DEF Put, Move, TypeOK
    <3> QED
      BY <1>0, <2>1, <3>1 DEF RefOK, ContentOK, ConfirmedOK
  <2>2. CASE d # c
    BY <1>6, <2>2, OthersKeep DEF Put, Move, TypeOK
  <2> QED
    BY <2>1, <2>2
<1>7. ASSUME NEW c \in Callers, Apply(c) \/ Behind(c) \/ Reorganised(c) \/ Fail(c)
      PROVE  (RefOK(d) /\ ContentOK(d) /\ ConfirmedOK(d))'
  <2>1. CASE d = c
    <3>1. pc'[c] = "idle"
      BY <1>7 DEF Apply, Behind, Reorganised, Fail, Return, TypeOK
    <3> QED
      BY <2>1, <3>1 DEF RefOK, ContentOK, ConfirmedOK
  <2>2. CASE d # c
    BY <1>7, <2>2, OthersKeep DEF Apply, Behind, Reorganised, Fail, Return, TypeOK
  <2> QED
    BY <2>1, <2>2
<1>8. CASE UNCHANGED vars
  BY <1>0, <1>8 DEF vars, RefOK, ContentOK, ConfirmedOK, Canonical
<1> QED
  BY <1>1, <1>2, <1>3, <1>4, <1>5, <1>6, <1>7, <1>8 DEF Next, Refresh

LEMMA PriorStep == SnapInv /\ [Next]_vars => PriorOK'
<1> SUFFICES ASSUME SnapInv, [Next]_vars, NEW d \in Callers, NEW b \in Block,
                    prior'[d][b] # None
             PROVE  prior'[d][b] = [pool |-> pool'[d], block |-> b]
  BY DEF PriorOK
<1> USE DEF SnapInv
<1>1. pool' = pool
  BY DEF Next, ChainMoves, Start, Refresh, Header, Found, Read, Verify, Put, Apply, Behind,
         Reorganised, Fail, Return, vars
<1>2. prior'[d] \in {prior[d], NoPrior} => prior[d][b] = [pool |-> pool[d], block |-> b]
                                            /\ prior'[d] = prior[d]
  BY DEF PriorOK, NoPrior
<1>3. ASSUME NEW c \in Callers, NEW call \in Calls, Start(c, call), d = c
      PROVE  prior'[d][b] = [pool |-> pool[d], block |-> b]
  <2>1. [pool |-> pool[c], block |-> b] \in Key
    BY DEF TypeOK, Key
  <2>2. prior'[c] = Captured(c, call.mode)
    BY <1>3 DEF Start, TypeOK
  <2> QED
    BY <1>3, <2>1, <2>2 DEF Captured, CacheOK
<1>4. ASSUME ~ \E call \in Calls : Start(d, call) PROVE prior'[d] \in {prior[d], NoPrior}
  <2>1. ASSUME NEW c \in Callers, NEW call \in Calls, Start(c, call)
        PROVE  prior'[d] = prior[d]
    <3>1. c # d
      BY <1>4, <2>1
    <3> QED
      BY <2>1, <3>1 DEF Start, TypeOK
  <2>2. ASSUME NEW c \in Callers, Refresh(c) \/ Fail(c)
        PROVE  prior'[d] \in {prior[d], NoPrior}
    BY <2>2 DEF Refresh, Header, Found, Read, Verify, Put, Apply, Behind, Reorganised,
                Fail, Return, TypeOK
  <2>3. CASE ChainMoves \/ UNCHANGED vars
    BY <2>3 DEF ChainMoves, vars
  <2> QED
    BY <2>1, <2>2, <2>3 DEF Next
<1> QED
  BY <1>1, <1>2, <1>3, <1>4

-----------------------------------------------------------------------------
(* Theorems *)

(* The inductive invariant of the refreshes: what is in the cache and in   *)
(* the hands of each call of GetNewPoolState at each of its steps.         *)
THEOREM RefreshInvariant == Spec => []SnapInv
<1>1. Init => SnapInv
  <2> SUFFICES ASSUME Init PROVE SnapInv
    OBVIOUS
  <2>1. TypeOK
    BY InitTypes
  <2>2. CacheOK /\ PriorOK
    BY DEF Init, CacheOK, PriorOK, NoPrior
  <2>3. CallsOK
    BY DEF Init, CallsOK, RefOK, ContentOK, ConfirmedOK
  <2>4. CacheBounded
    BY SnapshotAssumption DEF Init, CacheBounded
  <2> QED
    BY <2>1, <2>2, <2>3, <2>4 DEF SnapInv
<1>2. SnapInv /\ [Next]_vars => SnapInv'
  BY TypeStep, CacheStep, CallStep, PriorStep DEF SnapInv
<1> QED
  BY <1>1, <1>2, PTL DEF Spec

(* The state of the tracker and its cache keeps its types. *)
THEOREM SnapshotTypeCorrect == Spec => []TypeOK
<1>1. SnapInv => TypeOK
  BY DEF SnapInv
<1> QED
  BY RefreshInvariant, <1>1, PTL

(* A state about to be published is of the pool and of the block it is     *)
(* published under, through every reorganisation and cache hit.            *)
THEOREM PureSnapshots == Spec => []SnapshotIsPure
<1>1. SnapInv => SnapshotIsPure
  BY DEF SnapInv, CallsOK, ContentOK, SnapshotIsPure
<1> QED
  BY RefreshInvariant, <1>1, PTL

(* A state published with a hash was canonical during the call, and after  *)
(* the read: snapshotCache never brings an orphaned state back.            *)
THEOREM Revalidated == Spec => []ReuseIsRevalidated
<1>1. SnapInv => ReuseIsRevalidated
  BY DEF SnapInv, CallsOK, ConfirmedOK, ReuseIsRevalidated
<1> QED
  BY RefreshInvariant, <1>1, PTL

(* snapshotCache.put keeps entries and eviction order equal, distinct and  *)
(* within the capacity.                                                    *)
THEOREM BoundedCache == Spec => []CacheBounded
<1>1. SnapInv => CacheBounded
  BY DEF SnapInv
<1> QED
  BY RefreshInvariant, <1>1, PTL

(* GetNewPoolState never takes an entity back to an older block.           *)
THEOREM OnlyForward == Spec => NeverBackwards
<1>1. SnapInv /\ [Next]_vars => [\A c \in Callers : entity'[c].number >= entity[c].number]_vars
  <2> SUFFICES ASSUME SnapInv, Next, NEW d \in Callers
               PROVE  entity'[d].number >= entity[d].number
    OBVIOUS
  <2>1. entity \in [Callers -> Entity] /\ entity[d].number \in Nat
    BY SnapshotAssumption DEF SnapInv, TypeOK, Entity
  <2>2. CASE entity'[d] = entity[d]
    BY <2>1, <2>2
  <2>3. ASSUME Apply(d) PROVE entity'[d].number >= entity[d].number
    <3>1. entity'[d].number = content[d].block.number /\ Fresh(d) /\ pc[d] = "apply"
      BY <2>1, <2>3 DEF Apply, Return, Snapshot
    <3>2. minimum[d] >= entity[d].number /\ content[d] \in Key
      BY <3>1 DEF SnapInv, CallsOK, RefOK, ContentOK
    <3>3. content[d].block.number \in Nat /\ minimum[d] \in Nat
      BY <3>2, SnapshotAssumption DEF Key, Block, SnapInv, TypeOK
    <3> QED
      BY <2>1, <3>1, <3>2, <3>3 DEF Fresh
  <2>4. ASSUME ~Apply(d) PROVE entity'[d] = entity[d]
    <3>1. ASSUME NEW c \in Callers, Apply(c) PROVE entity'[d] = entity[d]
      BY <2>1, <2>4, <3>1 DEF Apply
    <3>2. ASSUME NEW c \in Callers, Refresh(c), ~Apply(c) PROVE entity' = entity
      BY <3>2 DEF Refresh, Header, Found, Read, Verify, Put, Behind, Reorganised
    <3> QED
      BY <3>1, <3>2 DEF Next, ChainMoves, Start, Fail
  <2> QED
    BY <2>2, <2>3, <2>4
<1> QED
  BY <1>1, RefreshInvariant, PTL DEF Spec, NeverBackwards
=============================================================================
