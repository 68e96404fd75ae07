------------------------- MODULE TickTrackerProofs --------------------------
(***************************************************************************)
(* Proofs about TickTracker, for any ticks, ranges and logs and chains of  *)
(* any length.                                                             *)
(***************************************************************************)
EXTENDS TickTracker, TLAPS

Block == [event : Event \cup {None}, ticks : [Ticks -> Tick]]

(* Every block follows from the one before, and logs what it changes.      *)
(* Blocks without a log leave the ticks alone, however many there are:     *)
(* stated of any two heights, since the chain grows by one block at a time *)
(* and there is no other induction to prove it by.                         *)
Follows(ch) ==
    \A i \in 1..Len(ch) : ch[i].ticks = After(StateAt(ch, i - 1), ch[i].event)

Quiet(ch, i, j) == \A k \in i + 1..j : ch[k].event = None

Steadfast(ch) ==
    \A i, j \in 0..Len(ch) : i <= j /\ Quiet(ch, i, j) => StateAt(ch, i) = StateAt(ch, j)

(* A tick without liquidity is an untouched one. *)
Cleared(ch) ==
    \A i \in 0..Len(ch), t \in Ticks :
        StateAt(ch, i)[t].gross = 0 => StateAt(ch, i)[t] = Untouched

ChainOK(ch) ==
    /\ ch \in Seq(Block)
    /\ Len(ch) \in 0..MaxHeight
    /\ Follows(ch) /\ Steadfast(ch) /\ Cleared(ch)

EntityOK ==
    /\ Quiet(sent, entity.number, Len(sent))
    /\ clean => entity.ticks = EndState(sent)

(* The batch: where it starts, and what its first and last logs are.       *)
BatchOK ==
    /\ base <= Len(sent) /\ base <= Len(goal)
    /\ \A i \in 1..base : sent[i] = goal[i]
    /\ first # 0 => base < last
    /\ first = 0 => last = 0 /\ touched = {} /\ ~reverted /\ work = entity.ticks

(* While removed logs are read, the ticks they have not named are at the   *)
(* height reached what they were at the end.                               *)
RemovedOK ==
    /\ at \in base..Len(sent)
    /\ work = entity.ticks
    /\ ~invalid /\ steady
    /\ ~reverted => first = 0 /\ StateAt(sent, at) = EndState(sent)
    /\ \A t \in Ticks \ touched : StateAt(sent, at)[t] = EndState(sent)[t]

(* While new logs are read, without a reorganisation the ticks are those   *)
(* of the height reached; with one, the ticks not named are.               *)
NewOK ==
    /\ at \in base..Len(goal)
    /\ steady
    /\ Quiet(goal, Larger(base, last), at)
    /\ clean /\ ~reverted => work = StateAt(goal, at)
    /\ clean /\ reverted => \A t \in Ticks \ touched : work[t] = StateAt(goal, at)[t]

(* Once all logs are read, the ticks not named are right; once the named   *)
(* ones are read again, at a block of the batch, all are.                  *)
FetchOK ==
    /\ first # 0
    /\ Quiet(goal, last, Len(goal))
    /\ pc \in {"affected", "all"} => touched # {}
    /\ pc = "affected" => steady
    /\ pc = "affected" /\ clean =>
          \A t \in Ticks \ touched : work[t] = EndState(goal)[t]
    /\ pc \in {"all", "state"} /\ steady /\ clean /\ (touched = {} \/ ~Overreaches) =>
          work = EndState(goal)
    /\ (pc = "all" \/ (pc = "state" /\ reverted)) /\ steady /\ ~Overreaches =>
          \A t \in touched : work[t] = EndState(goal)[t]

TickInv ==
    /\ TypeOK
    /\ ChainOK(chain) /\ ChainOK(sent) /\ ChainOK(goal)
    /\ EntityOK
    /\ pc # "idle" => BatchOK
    /\ pc = "removed" => RemovedOK
    /\ pc = "new" => NewOK
    /\ pc \in {"affected", "all", "state"} => FetchOK
    /\ pc = "idle" => base = 0 /\ at = 0 /\ first = 0 /\ last = 0 /\ touched = {}
                      /\ ~reverted /\ ~invalid /\ steady

-----------------------------------------------------------------------------
(* Chains *)

LEMMA StateType ==
    ASSUME NEW ch, ChainOK(ch), NEW n \in 0..Len(ch)
    PROVE  StateAt(ch, n) \in [Ticks -> Tick]
<1>1. CASE n = 0
  BY <1>1 DEF StateAt, NoTicks, Untouched, Tick
<1>2. CASE n # 0
  <2>1. n \in 1..Len(ch) /\ ch[n] \in Block
    BY <1>2 DEF ChainOK
  <2> QED
    BY <1>2, <2>1 DEF StateAt, Block
<1> QED
  BY <1>1, <1>2

(* What a log does to the ticks, one tick at a time. *)
LEMMA AfterValue ==
    ASSUME NEW ticks \in [Ticks -> Tick], NEW e \in Event
    PROVE  /\ After(ticks, e) \in [Ticks -> [gross : Int, net : Int]]
           /\ e.delta \in Int /\ e.range[1] \in Ticks /\ e.range[2] \in Ticks
           /\ e.range[1] # e.range[2]
           /\ \A t \in Ticks \ {e.range[1], e.range[2]} : After(ticks, e)[t] = ticks[t]
           /\ After(ticks, e)[e.range[1]] =
                [gross |-> ticks[e.range[1]].gross + e.delta,
                 net |-> ticks[e.range[1]].net + e.delta]
           /\ After(ticks, e)[e.range[2]] =
                [gross |-> ticks[e.range[2]].gross + e.delta,
                 net |-> ticks[e.range[2]].net - e.delta]
<1>1. /\ e.delta \in Int /\ e.range[1] \in Ticks /\ e.range[2] \in Ticks
      /\ e.range[1] # e.range[2] /\ e # None
  BY TickAssumption
<1>2. \A t \in Ticks : ticks[t].gross \in Int /\ ticks[t].net \in Int
                       /\ ticks[t] \in [gross : Int, net : Int]
  BY DEF Tick
<1> QED
  BY <1>1, <1>2 DEF After

(* A log changes only the ticks it names. *)
LEMMA AfterTouches ==
    ASSUME NEW ticks \in [Ticks -> Tick], NEW e \in Event
    PROVE  \A t \in Ticks \ TouchedBy(e) : After(ticks, e)[t] = ticks[t]
<1>1. CASE e.delta # 0
  BY <1>1, AfterValue DEF TouchedBy
<1>2. CASE e.delta = 0
  <2> SUFFICES ASSUME NEW t \in Ticks PROVE After(ticks, e)[t] = ticks[t]
    OBVIOUS
  <2>1. /\ ticks[t].gross \in Int /\ ticks[t].net \in Int
        /\ ticks[t] = [gross |-> ticks[t].gross, net |-> ticks[t].net]
    BY DEF Tick
  <2>2. /\ ticks[t].gross + e.delta = ticks[t].gross
        /\ ticks[t].net + e.delta = ticks[t].net
        /\ ticks[t].net - e.delta = ticks[t].net
    BY <1>2, <2>1
  <2>3. t \in {e.range[1], e.range[2]} => After(ticks, e)[t] = ticks[t]
    <3>1. After(ticks, e)[e.range[1]] = [gross |-> ticks[e.range[1]].gross + e.delta,
                                         net |-> ticks[e.range[1]].net + e.delta]
      BY AfterValue, Zenon
    <3>2. t = e.range[1] =>
            After(ticks, e)[t] = [gross |-> ticks[t].gross + e.delta,
                                  net |-> ticks[t].net + e.delta]
      BY <3>1, Zenon
    <3>3. After(ticks, e)[e.range[2]] = [gross |-> ticks[e.range[2]].gross + e.delta,
                                         net |-> ticks[e.range[2]].net - e.delta]
      BY AfterValue, Zenon
    <3>4. t = e.range[2] =>
            After(ticks, e)[t] = [gross |-> ticks[t].gross + e.delta,
                                  net |-> ticks[t].net - e.delta]
      BY <3>3, Zenon
    <3> QED
      BY <2>1, <2>2, <3>2, <3>4, Zenon
  <2>4. t \notin {e.range[1], e.range[2]} => After(ticks, e)[t] = ticks[t]
    <3>1. \A u \in Ticks \ {e.range[1], e.range[2]} : After(ticks, e)[u] = ticks[u]
      BY AfterValue, Zenon
    <3> QED
      BY <3>1, Zenon
  <2> QED
    BY <2>3, <2>4
<1> QED
  BY <1>1, <1>2, AfterValue

(* The same change, made by the tracker to the ticks of the chain, is      *)
(* accepted and gives the ticks of the next block.                         *)
LEMMA AppliedIsAfter ==
    ASSUME NEW ticks \in [Ticks -> Tick], NEW e \in Event,
           After(ticks, e) \in [Ticks -> Tick]
    PROVE  Applied(ticks, e) = After(ticks, e) /\ ~Rejected(ticks, e)
<1> DEFINE a == e.range[1]
           b == e.range[2]
           d == e.delta
           mid == Changed(ticks, a, d, d)
<1>1. d \in Int /\ a \in Ticks /\ b \in Ticks /\ a # b
  BY AfterValue
<1>2. ticks[a].gross + d >= 0 /\ ticks[b].gross + d >= 0
  <2>1. After(ticks, e)[a].gross \in Nat /\ After(ticks, e)[b].gross \in Nat
    BY <1>1 DEF Tick
  <2>2. /\ After(ticks, e)[a].gross = ticks[a].gross + d
        /\ After(ticks, e)[b].gross = ticks[b].gross + d
    <3>1. After(ticks, e)[a] = [gross |-> ticks[a].gross + d, net |-> ticks[a].net + d]
      BY AfterValue, Zenon
    <3>2. After(ticks, e)[b] = [gross |-> ticks[b].gross + d, net |-> ticks[b].net - d]
      BY AfterValue, Zenon
    <3> QED
      BY <3>1, <3>2
  <2> QED
    BY <2>1, <2>2
<1>3. Accepts(ticks, a, d)
  BY <1>2 DEF Accepts
<1>4. mid = [ticks EXCEPT ![a] = [gross |-> ticks[a].gross + d, net |-> ticks[a].net + d]]
  BY <1>3 DEF Changed
<1>5. mid[b] = ticks[b] /\ DOMAIN mid = Ticks /\ mid[a] = [gross |-> ticks[a].gross + d, net |-> ticks[a].net + d]
      /\ \A t \in Ticks \ {a} : mid[t] = ticks[t]
  BY <1>1, <1>4
<1>6. Accepts(mid, b, d)
  BY <1>2, <1>5 DEF Accepts
<1>7. Applied(ticks, e) = [mid EXCEPT ![b] = [gross |-> mid[b].gross + d, net |-> mid[b].net + (-d)]]
  BY <1>6 DEF Applied, Changed
<1>8. ticks[b].net + (-d) = ticks[b].net - d
  BY <1>1 DEF Tick
<1>9. \A t \in Ticks : Applied(ticks, e)[t] = After(ticks, e)[t]
  <2>1. After(ticks, e)[a] = mid[a]
    BY <1>5, AfterValue, Zenon
  <2>2. After(ticks, e)[b] = [gross |-> ticks[b].gross + d, net |-> ticks[b].net - d]
    BY AfterValue, Zenon
  <2>3. \A t \in Ticks \ {a, b} : After(ticks, e)[t] = ticks[t]
    BY AfterValue, Zenon
  <2>4. Applied(ticks, e)[b] = [gross |-> ticks[b].gross + d, net |-> ticks[b].net - d]
    BY <1>1, <1>5, <1>7, <1>8
  <2>5. \A t \in Ticks \ {b} : Applied(ticks, e)[t] = mid[t]
    BY <1>5, <1>7
  <2>6. Applied(ticks, e)[a] = mid[a]
    BY <1>1, <2>5
  <2>7. \A t \in Ticks \ {a, b} : Applied(ticks, e)[t] = ticks[t]
    BY <1>5, <2>5
  <2> SUFFICES ASSUME NEW t \in Ticks PROVE Applied(ticks, e)[t] = After(ticks, e)[t]
    OBVIOUS
  <2>8. t = a => Applied(ticks, e)[t] = After(ticks, e)[t]
    BY <2>1, <2>6, Zenon
  <2>9. t = b => Applied(ticks, e)[t] = After(ticks, e)[t]
    BY <2>2, <2>4, Zenon
  <2>10. t \in Ticks \ {a, b} => Applied(ticks, e)[t] = After(ticks, e)[t]
    BY <2>3, <2>7, Zenon
  <2> QED
    BY <2>8, <2>9, <2>10
<1>10. Applied(ticks, e) = After(ticks, e)
  <2>1. Applied(ticks, e) = [t \in Ticks |-> Applied(ticks, e)[t]]
    BY <1>4, <1>7
  <2>2. After(ticks, e) = [t \in Ticks |-> After(ticks, e)[t]]
    OBVIOUS
  <2> QED
    BY <1>9, <2>1, <2>2
<1> QED
  BY <1>3, <1>6, <1>10 DEF Rejected

(* What the tracker does to any ticks keeps their liquidity natural. *)
LEMMA AppliedType ==
    ASSUME NEW ticks \in [Ticks -> Tick], NEW e \in Event
    PROVE  Applied(ticks, e) \in [Ticks -> Tick] /\ Rejected(ticks, e) \in BOOLEAN
<1>1. ASSUME NEW f \in [Ticks -> Tick], NEW t \in Ticks, NEW d \in Int, NEW n \in Int
      PROVE  Changed(f, t, d, n) \in [Ticks -> Tick]
  <2>1. f[t].gross \in Nat /\ f[t].net \in Int
    BY <1>1 DEF Tick
  <2>2. CASE Accepts(f, t, d)
    <3>1. [gross |-> f[t].gross + d, net |-> f[t].net + n] \in Tick
      BY <1>1, <2>1, <2>2 DEF Accepts, Tick
    <3> QED
      BY <1>1, <2>2, <3>1 DEF Changed
  <2>3. CASE ~Accepts(f, t, d)
    BY <1>1, <2>3 DEF Changed
  <2> QED
    BY <2>2, <2>3
<1>2. e.delta \in Int /\ e.range[1] \in Ticks /\ e.range[2] \in Ticks
  BY AfterValue
<1>3. Changed(ticks, e.range[1], e.delta, e.delta) \in [Ticks -> Tick]
  BY <1>1, <1>2
<1>4. -e.delta \in Int
  BY <1>2
<1>5. Applied(ticks, e) \in [Ticks -> Tick]
  BY <1>1, <1>2, <1>3, <1>4 DEF Applied
<1> QED
  BY <1>5 DEF Rejected, Accepts

LEMMA EmptyChain == ChainOK(<<>>)
BY TickAssumption DEF ChainOK, Follows, Steadfast, Quiet, Cleared, StateAt, NoTicks, Untouched

(* A chain keeps its shape when it is cut. *)
LEMMA CutChain ==
    ASSUME NEW ch, ChainOK(ch), NEW n \in 0..Len(ch)
    PROVE  /\ ChainOK(SubSeq(ch, 1, n))
           /\ Len(SubSeq(ch, 1, n)) = n
           /\ \A i \in 1..n : SubSeq(ch, 1, n)[i] = ch[i]
           /\ \A i \in 0..n : StateAt(SubSeq(ch, 1, n), i) = StateAt(ch, i)
<1> DEFINE s == SubSeq(ch, 1, n)
<1>1. ch \in Seq(Block) /\ Len(ch) \in 0..MaxHeight /\ Len(ch) \in Nat
  BY TickAssumption DEF ChainOK
<1>2. s \in Seq(Block) /\ Len(s) = n /\ \A i \in 1..n : s[i] = ch[i]
  BY <1>1
<1> HIDE DEF s
<1>3. \A i \in 0..n : StateAt(s, i) = StateAt(ch, i)
  BY <1>2 DEF StateAt
<1>4. Follows(s)
  <2>1. ASSUME NEW i \in 1..n PROVE s[i].ticks = After(StateAt(s, i - 1), s[i].event)
    BY <1>1, <1>2, <1>3 DEF ChainOK, Follows
  <2> QED
    BY <1>2, <2>1 DEF Follows
<1>5. Steadfast(s)
  <2>1. ASSUME NEW i \in 0..n, NEW j \in 0..n, i <= j, Quiet(s, i, j)
        PROVE  StateAt(s, i) = StateAt(s, j)
    <3>1. Quiet(ch, i, j)
      BY <1>2, <2>1 DEF Quiet
    <3>2. i \in 0..Len(ch) /\ j \in 0..Len(ch)
      BY <1>1
    <3> QED
      BY <1>3, <2>1, <3>1, <3>2 DEF ChainOK, Steadfast
  <2> QED
    BY <1>2, <2>1 DEF Steadfast
<1>6. Cleared(s)
  BY <1>1, <1>2, <1>3 DEF ChainOK, Cleared
<1>7. Len(s) \in 0..MaxHeight
  BY <1>1, <1>2, TickAssumption
<1> QED
  BY <1>2, <1>3, <1>4, <1>5, <1>6, <1>7 DEF ChainOK, s

(* The ticks after a block that can be mined. *)
LEMMA AfterType ==
    ASSUME NEW ticks \in [Ticks -> Tick], NEW e \in Event \cup {None}, Possible(ticks, e)
    PROVE  After(ticks, e) \in [Ticks -> Tick]
<1>1. CASE e = None
  BY <1>1 DEF After
<1>2. CASE e \in Event
  <2>1. After(ticks, e) \in [Ticks -> [gross : Int, net : Int]]
    BY <1>2, AfterValue
  <2>2. \A t \in Ticks : After(ticks, e)[t].gross >= 0
    BY DEF Possible
  <2>3. \A t \in Ticks : After(ticks, e)[t] \in Tick
    BY <2>1, <2>2 DEF Tick
  <2> QED
    BY <2>1, <2>3
<1> QED
  BY <1>1, <1>2

(* A chain keeps its shape when it grows. *)
LEMMA GrownChain ==
    ASSUME NEW ch, ChainOK(ch), Len(ch) < MaxHeight,
           NEW e \in Event \cup {None}, Possible(EndState(ch), e)
    PROVE  ChainOK(Append(ch, [event |-> e, ticks |-> After(EndState(ch), e)]))
<1> DEFINE b == [event |-> e, ticks |-> After(EndState(ch), e)]
           s == Append(ch, b)
           n == Len(ch)
<1>1. ch \in Seq(Block) /\ n \in Nat /\ MaxHeight \in Nat
  BY TickAssumption DEF ChainOK
<1>2. EndState(ch) \in [Ticks -> Tick]
  BY <1>1, StateType DEF EndState
<1>3. After(EndState(ch), e) \in [Ticks -> Tick]
  BY <1>2, AfterType
<1>4. b \in Block
  BY <1>3 DEF Block
<1>5. b.event = e /\ b.ticks = After(EndState(ch), e)
  OBVIOUS
<1> HIDE DEF b
<1>6. s \in Seq(Block) /\ Len(s) = n + 1 /\ s[n + 1] = b /\ \A i \in 1..n : s[i] = ch[i]
  BY <1>1, <1>4
<1> HIDE DEF s
<1>7. /\ \A i \in 0..n : StateAt(s, i) = StateAt(ch, i)
      /\ StateAt(s, n + 1) = After(EndState(ch), e)
  BY <1>1, <1>5, <1>6 DEF StateAt
<1>8. Follows(s)
  <2>1. ASSUME NEW i \in 1..n PROVE s[i].ticks = After(StateAt(s, i - 1), s[i].event)
    BY <1>1, <1>6, <1>7 DEF ChainOK, Follows
  <2>2. s[n + 1].ticks = After(StateAt(s, n), s[n + 1].event)
    BY <1>1, <1>5, <1>6, <1>7 DEF EndState
  <2>3. \A i \in 1..n + 1 : i \in 1..n \/ i = n + 1
    BY <1>1
  <2>4. n + 1 - 1 = n
    BY <1>1
  <2> QED
    BY <1>6, <2>1, <2>2, <2>3, <2>4 DEF Follows
<1>9. Steadfast(s)
  <2>1. ASSUME NEW i \in 0..n + 1, NEW j \in 0..n + 1, i <= j, Quiet(s, i, j)
        PROVE  StateAt(s, i) = StateAt(s, j)
    <3>1. ASSUME NEW k \in 0..n, i <= k, Quiet(s, i, k) PROVE StateAt(s, i) = StateAt(s, k)
      <4>1. i \in 0..n
        BY <1>1, <2>1, <3>1
      <4>2. Quiet(ch, i, k)
        BY <1>1, <1>6, <3>1, <4>1 DEF Quiet
      <4> QED
        BY <1>1, <1>7, <3>1, <4>1, <4>2 DEF ChainOK, Steadfast
    <3>2. CASE j \in 0..n
      BY <2>1, <3>1, <3>2
    <3>3. CASE j = n + 1 /\ i \in 0..n
      <4>1. Quiet(s, i, n) /\ s[n + 1].event = None
        BY <1>1, <2>1, <3>3 DEF Quiet
      <4>2. StateAt(s, n + 1) = EndState(ch)
        BY <1>5, <1>6, <1>7, <4>1 DEF After
      <4>3. StateAt(s, i) = StateAt(s, n)
        BY <1>1, <3>1, <3>3, <4>1
      <4> QED
        BY <1>1, <1>7, <3>3, <4>2, <4>3 DEF EndState
    <3> QED
      BY <1>1, <2>1, <3>2, <3>3
  <2> QED
    BY <1>6, <2>1 DEF Steadfast
<1>10. Cleared(s)
  <2>1. ASSUME NEW t \in Ticks, StateAt(s, n + 1)[t].gross = 0
        PROVE  StateAt(s, n + 1)[t] = Untouched
    <3>1. /\ After(EndState(ch), e)[t] \in Tick
          /\ After(EndState(ch), e)[t].gross = 0
          /\ After(EndState(ch), e)[t].net = 0
      BY <1>3, <1>7, <2>1 DEF Possible
    <3> QED
      BY <1>7, <3>1 DEF Untouched, Tick
  <2>2. \A i \in 0..n + 1 : i \in 0..n \/ i = n + 1
    BY <1>1
  <2> QED
    BY <1>6, <1>7, <2>1, <2>2 DEF ChainOK, Cleared
<1> QED
  BY <1>1, <1>6, <1>8, <1>9, <1>10 DEF ChainOK, s, b

(* A chain that another one continues has its ticks at every height. *)
LEMMA PrefixState ==
    ASSUME NEW s, NEW t, ChainOK(s), ChainOK(t), Prefix(s, t)
    PROVE  \A h \in 0..Len(s) : h \in 0..Len(t) /\ StateAt(s, h) = StateAt(t, h)
<1>1. Len(s) \in Nat /\ Len(t) \in Nat
  BY TickAssumption DEF ChainOK
<1> QED
  BY <1>1 DEF Prefix, StateAt

-----------------------------------------------------------------------------
(* The invariant *)

LEMMA Numbers ==
    ASSUME TickInv
    PROVE  /\ MaxHeight \in Nat
           /\ Len(chain) \in 0..MaxHeight /\ Len(sent) \in 0..MaxHeight
           /\ Len(goal) \in 0..MaxHeight
           /\ base \in 0..MaxHeight /\ at \in 0..MaxHeight
           /\ first \in 0..MaxHeight /\ last \in 0..MaxHeight
           /\ entity.number \in 0..MaxHeight /\ entity.ticks \in [Ticks -> Tick]
           /\ BatchBlock \in {first, last}
           /\ BatchBlock >= first /\ BatchBlock >= last
BY TickAssumption DEF TickInv, TypeOK, ChainOK, BatchBlock

LEMMA Initially == Init => TickInv
<1> SUFFICES ASSUME Init PROVE TickInv
  OBVIOUS
<1> USE DEF Init
<1>1. ChainOK(<<>>) /\ NoTicks \in [Ticks -> Tick] /\ <<>> \in Chain /\ MaxHeight \in Nat
  BY EmptyChain, TickAssumption DEF NoTicks, Untouched, Tick, Chain
<1>2. TypeOK
  <2>1. entity \in [ticks : [Ticks -> Tick], number : 0..MaxHeight]
    BY <1>1
  <2>2. chain \in Chain /\ sent \in Chain /\ goal \in Chain
    BY <1>1, Zenon
  <2>3. reverted \in BOOLEAN /\ invalid \in BOOLEAN /\ steady \in BOOLEAN /\ clean \in BOOLEAN
    OBVIOUS
  <2>4. 0 \in 0..MaxHeight
    BY <1>1
  <2> QED
    BY <1>1, <2>1, <2>2, <2>3, <2>4, Zenon DEF TypeOK
<1>3. EntityOK
  BY <1>1 DEF EntityOK, Quiet, EndState, StateAt
<1> QED
  BY <1>1, <1>2, <1>3 DEF TickInv

(* Steps of the chain. *)
LEMMA ChainStep ==
    ASSUME TickInv, ChainOK(chain'), UNCHANGED <<sent, entity, call, clean>>
    PROVE  TickInv'
<1>1. TypeOK'
  BY DEF TickInv, TypeOK, ChainOK, call, Chain, Block
<1>2. EntityOK'
  BY DEF TickInv, EntityOK, Quiet, EndState, StateAt
<1>3. (pc # "idle" => BatchOK)' /\ (pc = "removed" => RemovedOK)'
  BY DEF TickInv, call, BatchOK, RemovedOK, EndState, StateAt
<1>4. (pc = "new" => NewOK)' /\ (pc \in {"affected", "all", "state"} => FetchOK)'
  BY DEF TickInv, call, NewOK, FetchOK, EndState, StateAt, Quiet, Larger, Overreaches, BatchBlock
<1> QED
  BY <1>1, <1>2, <1>3, <1>4 DEF TickInv, call

LEMMA MineStep == TickInv /\ Mine => TickInv'
<1> SUFFICES ASSUME TickInv, Mine PROVE TickInv'
  OBVIOUS
<1>1. ChainOK(chain')
  BY GrownChain DEF Mine, TickInv
<1> QED
  BY <1>1, ChainStep DEF Mine

LEMMA RewindStep == TickInv /\ Rewind => TickInv'
<1> SUFFICES ASSUME TickInv, Rewind PROVE TickInv'
  OBVIOUS
<1>1. ChainOK(chain')
  <2>1. PICK n \in 0..Len(chain) - 1 : chain' = SubSeq(chain, 1, n)
    BY DEF Rewind
  <2>2. n \in 0..Len(chain)
    BY Numbers
  <2> QED
    BY <2>1, <2>2, CutChain DEF TickInv
<1> QED
  BY <1>1, ChainStep DEF Rewind

(* A call that ends leaves an entity that is right of what is sent. *)
LEMMA IdleStep ==
    ASSUME TickInv, Idle, UNCHANGED chain, ChainOK(sent'),
           entity'.ticks \in [Ticks -> Tick], entity'.number \in 0..MaxHeight,
           entity' = [ticks |-> entity'.ticks, number |-> entity'.number],
           clean' \in BOOLEAN, EntityOK'
    PROVE  TickInv'
<1>1. NoTicks \in [Ticks -> Tick] /\ <<>> \in Chain /\ ChainOK(<<>>) /\ MaxHeight \in Nat
  BY EmptyChain, TickAssumption DEF NoTicks, Untouched, Tick, Chain
<1>2. sent' \in Chain
  BY DEF ChainOK, Chain, Block
<1>3. entity' \in [ticks : [Ticks -> Tick], number : 0..MaxHeight]
  OBVIOUS
<1>4. TypeOK'
  <2>1. goal' \in Chain
    BY <1>1, Zenon DEF Idle
  <2>2. 0 \in 0..MaxHeight
    BY <1>1
  <2> QED
    BY <1>1, <1>2, <1>3, <2>1, <2>2, Zenon DEF TypeOK, TickInv, Idle
<1> QED
  BY <1>1, <1>4 DEF TickInv, Idle

LEMMA FailStep == TickInv /\ Fail => TickInv'
<1> SUFFICES ASSUME TickInv, Fail PROVE TickInv'
  OBVIOUS
<1>1. EntityOK'
  BY DEF Fail, TickInv, EntityOK, EndState, StateAt, Quiet
<1>2. entity \in [ticks : [Ticks -> Tick], number : 0..MaxHeight] /\ clean \in BOOLEAN
  BY DEF TickInv, TypeOK
<1>3. entity = [ticks |-> entity.ticks, number |-> entity.number]
  BY <1>2
<1> QED
  BY <1>1, <1>2, <1>3, IdleStep DEF Fail, TickInv

LEMMA DeliverStep ==
    ASSUME TickInv, NEW n \in 0..MaxHeight, NEW m \in 0..MaxHeight, Deliver(n, m)
    PROVE  TickInv'
<1> USE DEF Deliver
<1>1. m \in 0..Len(chain) /\ n \in 0..m /\ n <= Len(sent) /\ n <= Len(chain)
  BY Numbers DEF Agree
<1>2. /\ ChainOK(goal') /\ Len(goal') = m
      /\ \A i \in 1..m : goal'[i] = chain[i]
  BY <1>1, CutChain DEF TickInv
<1>3. TypeOK'
  <2>1. goal' \in Chain
    BY <1>2 DEF ChainOK, Chain, Block
  <2> QED
    BY <2>1, Numbers DEF TickInv, TypeOK
<1>4. EntityOK'
  BY DEF TickInv, EntityOK, Quiet, EndState, StateAt
<1>5. BatchOK'
  <2>1. \A i \in 1..n : sent[i] = goal'[i]
    BY <1>1, <1>2 DEF Agree
  <2> QED
    BY <1>1, <1>2, <2>1 DEF BatchOK, TickInv
<1>6. RemovedOK'
  BY <1>1, Numbers DEF RemovedOK, TickInv, EndState, StateAt
<1> QED
  BY <1>2, <1>3, <1>4, <1>5, <1>6 DEF TickInv

(* One block down or up a chain. *)
LEMMA OneBlock ==
    ASSUME NEW ch, ChainOK(ch), NEW n \in 1..Len(ch)
    PROVE  /\ n - 1 \in 0..Len(ch) /\ n \in 0..Len(ch)
           /\ ch[n].event \in Event \cup {None}
           /\ StateAt(ch, n) \in [Ticks -> Tick] /\ StateAt(ch, n - 1) \in [Ticks -> Tick]
           /\ StateAt(ch, n) = After(StateAt(ch, n - 1), ch[n].event)
           /\ ch[n].event = None => StateAt(ch, n) = StateAt(ch, n - 1)
           /\ ch[n].event # None =>
                \A t \in Ticks \ TouchedBy(ch[n].event) :
                    StateAt(ch, n)[t] = StateAt(ch, n - 1)[t]
<1>1. n - 1 \in 0..Len(ch) /\ n \in 0..Len(ch) /\ ch[n] \in Block /\ n # 0
  BY DEF ChainOK
<1>2. StateAt(ch, n) \in [Ticks -> Tick] /\ StateAt(ch, n - 1) \in [Ticks -> Tick]
  BY <1>1, StateType
<1>3. StateAt(ch, n) = After(StateAt(ch, n - 1), ch[n].event)
  BY <1>1 DEF ChainOK, Follows, StateAt
<1>4. ch[n].event \in Event \cup {None}
  BY <1>1 DEF Block
<1>5. ch[n].event = None => StateAt(ch, n) = StateAt(ch, n - 1)
  BY <1>3 DEF After
<1>6. ch[n].event # None =>
        \A t \in Ticks \ TouchedBy(ch[n].event) : StateAt(ch, n)[t] = StateAt(ch, n - 1)[t]
  BY <1>2, <1>3, <1>4, AfterTouches
<1> QED
  BY <1>1, <1>2, <1>3, <1>4, <1>5, <1>6

LEMMA TouchedType ==
    ASSUME NEW e \in Event PROVE TouchedBy(e) \subseteq Ticks
BY TickAssumption DEF TouchedBy

LEMMA RemovedStep ==
    ASSUME TickInv, NEW f \in 1..MaxHeight, NEW l \in 1..MaxHeight, Removed(f, l)
    PROVE  TickInv'
<1> DEFINE e == sent[at].event
<1>1. pc = "removed" /\ BatchOK /\ RemovedOK /\ pc' = "removed"
      /\ UNCHANGED <<chain, sent, entity, goal, base, work, invalid, steady, clean>>
  BY DEF Removed, TickInv
<1>2. at \in 1..Len(sent) /\ at > base /\ at' = at - 1 /\ at - 1 \in 0..MaxHeight
  BY <1>1, Numbers DEF Removed, RemovedOK
<1>3. EntityOK'
  BY <1>1 DEF TickInv, EntityOK, Quiet, EndState, StateAt
<1>4. CASE e = None
  <2>1. UNCHANGED <<first, last, touched, reverted>>
    BY <1>4 DEF Removed
  <2>2. StateAt(sent, at - 1) = StateAt(sent, at)
    BY <1>2, <1>4, OneBlock DEF TickInv
  <2>3. TypeOK' /\ BatchOK'
    BY <1>1, <1>2, <2>1 DEF TickInv, TypeOK, BatchOK
  <2>4. RemovedOK'
    <3>1. at - 1 \in base..Len(sent)
      BY <1>2, Numbers
    <3>2. StateAt(sent', at') = StateAt(sent, at) /\ EndState(sent') = EndState(sent)
      BY <1>1, <1>2, <2>2 DEF EndState
    <3> QED
      BY <1>1, <1>2, <2>1, <3>1, <3>2 DEF RemovedOK
  <2> QED
    BY <1>1, <1>3, <2>3, <2>4 DEF TickInv
<1>5. CASE e # None
  <2>1. /\ f \in {first, at} \ {0} /\ l \in {last, at} \ {0}
        /\ first' = f /\ last' = l
        /\ touched' = touched \cup TouchedBy(e) /\ reverted' = TRUE
    BY <1>5 DEF Removed
  <2>2. e \in Event /\ \A t \in Ticks \ TouchedBy(e) : StateAt(sent, at)[t] = StateAt(sent, at - 1)[t]
    BY <1>2, <1>5, OneBlock DEF TickInv
  <2>3. TypeOK'
    BY <1>1, <1>2, <2>1, <2>2, TouchedType DEF TickInv, TypeOK
  <2>4. BatchOK'
    BY <1>1, <1>2, <2>1, Numbers DEF BatchOK
  <2>5. RemovedOK'
    <3>1. at - 1 \in base..Len(sent)
      BY <1>2, Numbers
    <3>2. \A t \in Ticks \ touched' : StateAt(sent, at - 1)[t] = EndState(sent)[t]
      BY <1>1, <2>1, <2>2 DEF RemovedOK
    <3>3. EndState(sent') = EndState(sent) /\ StateAt(sent', at') = StateAt(sent, at - 1)
      BY <1>1, <1>2 DEF EndState
    <3> QED
      BY <1>1, <1>2, <2>1, <3>1, <3>2, <3>3 DEF RemovedOK
  <2> QED
    BY <1>1, <1>3, <2>3, <2>4, <2>5 DEF TickInv
<1> QED
  BY <1>4, <1>5

LEMMA RemovedDoneStep == TickInv /\ RemovedDone => TickInv'
<1> SUFFICES ASSUME TickInv, RemovedDone PROVE TickInv'
  OBVIOUS
<1>1. pc = "removed" /\ BatchOK /\ RemovedOK /\ at = base /\ pc' = "new"
      /\ UNCHANGED <<chain, sent, entity, goal, base, at, first, last, work, touched,
                     reverted, invalid, steady, clean>>
  BY DEF RemovedDone, TickInv
<1>2. EntityOK' /\ BatchOK' /\ TypeOK'
  BY <1>1 DEF TickInv, EntityOK, Quiet, EndState, StateAt, BatchOK, TypeOK
<1>3. StateAt(sent, base) = StateAt(goal, base)
  BY <1>1, Numbers DEF BatchOK, StateAt
<1>4. NewOK'
  <2>1. at \in base..Len(goal) /\ steady
    BY <1>1, Numbers DEF BatchOK, RemovedOK
  <2>2. Quiet(goal, Larger(base, last), at)
    BY <1>1, Numbers DEF Quiet, Larger
  <2>3. clean /\ ~reverted => work = StateAt(goal, at)
    BY <1>1, <1>3 DEF RemovedOK, EntityOK, TickInv
  <2>4. clean /\ reverted => \A t \in Ticks \ touched : work[t] = StateAt(goal, at)[t]
    BY <1>1, <1>3 DEF RemovedOK, EntityOK, TickInv
  <2>5. NewOK
    BY <2>1, <2>2, <2>3, <2>4 DEF NewOK
  <2> QED
    BY <1>1, <2>5 DEF NewOK, Quiet, Larger, StateAt
<1> QED
  BY <1>1, <1>2, <1>4 DEF TickInv

LEMMA NewStep == TickInv /\ New => TickInv'
<1> SUFFICES ASSUME TickInv, New PROVE TickInv'
  OBVIOUS
<1> DEFINE e == goal[at + 1].event
           n == at + 1
<1>1. pc = "new" /\ BatchOK /\ NewOK /\ pc' = "new" /\ at' = n
      /\ UNCHANGED <<chain, sent, entity, goal, base, reverted, steady, clean>>
  BY DEF New, TickInv
<1>2. n \in 1..Len(goal) /\ n - 1 = at /\ n \in 0..MaxHeight /\ n \in base..Len(goal)
      /\ at \in base..Len(goal)
  BY <1>1, Numbers DEF New, NewOK
<1>3. /\ e \in Event \cup {None}
      /\ StateAt(goal, n) \in [Ticks -> Tick] /\ StateAt(goal, at) \in [Ticks -> Tick]
      /\ StateAt(goal, n) = After(StateAt(goal, at), e)
      /\ e = None => StateAt(goal, n) = StateAt(goal, at)
      /\ e # None => \A t \in Ticks \ TouchedBy(e) : StateAt(goal, n)[t] = StateAt(goal, at)[t]
  BY <1>2, OneBlock DEF TickInv
<1>4. EntityOK'
  BY <1>1 DEF TickInv, EntityOK, Quiet, EndState, StateAt
<1>5. StateAt(goal', at') = StateAt(goal, n)
  BY <1>1
<1>6. CASE e = None
  <2>1. UNCHANGED <<first, last, touched, work, invalid>>
    BY <1>6 DEF New
  <2>2. TypeOK' /\ BatchOK'
    BY <1>1, <1>2, <2>1 DEF TickInv, TypeOK, BatchOK
  <2>3. Quiet(goal, Larger(base, last), n)
    <3> DEFINE m == Larger(base, last)
    <3>1. m \in Nat /\ at \in Nat
      BY <1>2, Numbers DEF Larger
    <3>2. Quiet(goal, m, at)
      BY <1>1 DEF NewOK
    <3>3. goal[n].event = None
      BY <1>6
    <3> HIDE DEF m
    <3>4. ASSUME NEW k \in m + 1..n PROVE goal[k].event = None
      <4>1. k \in m + 1..at \/ k = n
        BY <1>2, <3>1
      <4> QED
        BY <3>2, <3>3, <4>1 DEF Quiet
    <3> QED
      BY <3>4 DEF Quiet, m
  <2>4. NewOK'
    <3>1. Quiet(goal', Larger(base', last'), at')
      BY <1>1, <2>1, <2>3
    <3> QED
      BY <1>1, <1>2, <1>3, <1>5, <1>6, <2>1, <3>1 DEF NewOK
  <2> QED
    BY <1>1, <1>4, <2>2, <2>4 DEF TickInv
<1>7. CASE e # None
  <2>1. /\ first' = (IF first = 0 THEN n ELSE first) /\ last' = n
        /\ touched' = touched \cup TouchedBy(e)
        /\ work' = (IF reverted THEN work ELSE Applied(work, e))
        /\ invalid' = (invalid \/ (~reverted /\ Rejected(work, e)))
    BY <1>7 DEF New
  <2>2. e \in Event
    BY <1>3, <1>7
  <2>3. TypeOK'
    <3>1. work \in [Ticks -> Tick] /\ touched \subseteq Ticks
      BY DEF TickInv, TypeOK
    <3>2. work' \in [Ticks -> Tick]
      BY <2>1, <2>2, <3>1, AppliedType
    <3>3. touched' \subseteq Ticks
      BY <2>1, <2>2, <3>1, TouchedType
    <3>4. first' \in 0..MaxHeight /\ last' \in 0..MaxHeight
      BY <1>2, <2>1, Numbers
    <3>5. invalid' \in BOOLEAN
      BY <2>1
    <3> QED
      BY <1>1, <1>2, <3>2, <3>3, <3>4, <3>5 DEF TickInv, TypeOK
  <2>4. BatchOK'
    <3>1. first' # 0 /\ base < last'
      BY <1>1, <1>2, <2>1, Numbers DEF BatchOK
    <3> QED
      BY <1>1, <3>1 DEF BatchOK
  <2>5. NewOK'
    <3>1. Quiet(goal', Larger(base', last'), at')
      BY <1>1, <1>2, <2>1, Numbers DEF Quiet, Larger
    <3>2. ASSUME clean, ~reverted PROVE work' = StateAt(goal, n)
      <4>1. work = StateAt(goal, at)
        BY <1>1, <3>2 DEF NewOK
      <4>2. Applied(work, e) = After(work, e)
        BY <1>3, <2>2, <4>1, AppliedIsAfter
      <4> QED
        BY <1>3, <2>1, <3>2, <4>1, <4>2
    <3>3. ASSUME clean, reverted PROVE \A t \in Ticks \ touched' : work'[t] = StateAt(goal, n)[t]
      BY <1>1, <1>3, <1>7, <2>1, <3>3 DEF NewOK
    <3> QED
      BY <1>1, <1>2, <1>5, <3>1, <3>2, <3>3 DEF NewOK
  <2> QED
    BY <1>1, <1>4, <2>3, <2>4, <2>5 DEF TickInv
<1> QED
  BY <1>6, <1>7

LEMMA NewDoneStep == TickInv /\ NewDone => TickInv'
<1> SUFFICES ASSUME TickInv, NewDone PROVE TickInv'
  OBVIOUS
<1>1. /\ pc = "new" /\ BatchOK /\ NewOK /\ at = Len(goal) /\ first # 0
      /\ pc' \in {"state", "affected"}
      /\ pc' = "state" => touched = {} \/ ~reverted
      /\ pc' = "affected" => touched # {}
      /\ UNCHANGED <<chain, sent, entity, goal, base, at, first, last, work, touched,
                     reverted, invalid, steady, clean>>
  BY DEF NewDone, TickInv
<1>2. EntityOK' /\ BatchOK' /\ TypeOK'
  BY <1>1 DEF TickInv, EntityOK, Quiet, EndState, StateAt, BatchOK, TypeOK
<1>3. FetchOK'
  <2>1. Quiet(goal, last, Len(goal))
    BY <1>1, Numbers DEF BatchOK, NewOK, Quiet, Larger
  <2>2. work \in [Ticks -> Tick] /\ EndState(goal) \in [Ticks -> Tick]
    BY Numbers, StateType DEF TickInv, TypeOK, EndState
  <2>3. clean => \A t \in Ticks \ touched : work[t] = EndState(goal)[t]
    BY <1>1 DEF NewOK, EndState
  <2>4. clean /\ (touched = {} \/ ~reverted) => work = EndState(goal)
    <3>1. clean /\ ~reverted => work = EndState(goal)
      BY <1>1 DEF NewOK, EndState
    <3>2. clean /\ touched = {} => work = EndState(goal)
      BY <2>2, <2>3
    <3> QED
      BY <3>1, <3>2
  <2>5. steady
    BY <1>1 DEF NewOK
  <2>6. EndState(goal') = EndState(goal) /\ Quiet(goal', last', Len(goal'))
    BY <1>1, <2>1
  <2> QED
    BY <1>1, <2>3, <2>4, <2>5, <2>6 DEF FetchOK
<1> QED
  BY <1>1, <1>2, <1>3 DEF TickInv

LEMMA NoLogsStep == TickInv /\ NoLogs => TickInv'
<1> SUFFICES ASSUME TickInv, NoLogs PROVE TickInv'
  OBVIOUS
<1>1. /\ pc = "new" /\ BatchOK /\ NewOK /\ EntityOK /\ at = Len(goal) /\ first = 0
      /\ Idle /\ sent' = goal /\ UNCHANGED <<chain, entity, clean>>
  BY DEF NoLogs, TickInv
<1>2. EntityOK'
  <2>2. Quiet(goal, entity.number, Len(goal))
    <3>1. ASSUME NEW i \in entity.number + 1..Len(goal) PROVE goal[i].event = None
      <4>1. CASE i <= base
        <5>1. i \in 1..base /\ i \in entity.number + 1..Len(sent)
          BY <1>1, <4>1, Numbers DEF BatchOK
        <5> QED
          BY <1>1, <5>1 DEF BatchOK, EntityOK, Quiet
      <4>2. CASE ~(i <= base)
        <5>1. Larger(base, last) = base /\ i \in base + 1..at
          BY <1>1, <4>2, Numbers DEF BatchOK, Larger
        <5> QED
          BY <1>1, <5>1 DEF NewOK, Quiet
      <4> QED
        BY <4>1, <4>2
    <3> QED
      BY <3>1 DEF Quiet
  <2>3. clean => entity.ticks = EndState(goal)
    BY <1>1 DEF BatchOK, NewOK, EndState
  <2> QED
    BY <1>1, <2>2, <2>3 DEF EntityOK
<1>3. entity \in [ticks : [Ticks -> Tick], number : 0..MaxHeight] /\ clean \in BOOLEAN
  BY DEF TickInv, TypeOK
<1>4. entity = [ticks |-> entity.ticks, number |-> entity.number]
  BY <1>3
<1> QED
  BY <1>1, <1>2, <1>3, <1>4, IdleStep DEF TickInv

(* A refetch answered at the block it asked for, on the batch's chain and  *)
(* not beyond the batch, gives the ticks at its end: no log comes after    *)
(* that block.                                                             *)
LEMMA SoundAnswer ==
    ASSUME TickInv, pc \in {"affected", "all"}, NEW pruned \in BOOLEAN,
           Sound(goal, BatchBlock, pruned), ~Overreaches
    PROVE  Answer(BatchBlock, pruned) = EndState(goal)
<1>1. BatchOK /\ FetchOK
  BY DEF TickInv
<1>2. BatchBlock \in 0..Len(goal) /\ Len(goal) \in 0..Len(goal) /\ last <= BatchBlock
  BY <1>1, Numbers DEF Overreaches
<1>3. Quiet(goal, BatchBlock, Len(goal))
  BY <1>1, <1>2, Numbers DEF FetchOK, Quiet
<1>4. StateAt(goal, BatchBlock) = EndState(goal)
  BY <1>2, <1>3 DEF TickInv, ChainOK, Steadfast, EndState
<1>5. StateAt(chain, BatchBlock) = StateAt(goal, BatchBlock)
  BY <1>2, PrefixState DEF Sound, TickInv
<1> QED
  BY <1>4, <1>5 DEF Answer, Sound

LEMMA AnswerType ==
    ASSUME ChainOK(chain), NEW n \in 0..Len(chain), NEW pruned \in BOOLEAN
    PROVE  Answer(n, pruned) \in [Ticks -> Tick]
<1>1. Len(chain) \in 0..Len(chain)
  BY DEF ChainOK
<1> QED
  BY <1>1, StateType DEF Answer, EndState

LEMMA QueryStep ==
    ASSUME TickInv, pc \in {"affected", "all"}, NEW asked \in SUBSET Ticks,
           touched \subseteq asked, NEW pruned \in BOOLEAN, Query(asked, pruned),
           pc' \in {"all", "state"}
    PROVE  TickInv'
<1> DEFINE ans == Answer(BatchBlock, pruned)
<1>1. BatchOK /\ FetchOK
  BY DEF TickInv
<1>2. /\ work' = [t \in Ticks |-> IF t \in asked THEN ans[t] ELSE work[t]]
      /\ steady' = (steady /\ Sound(goal, BatchBlock, pruned))
      /\ BatchBlock <= Len(chain)
      /\ UNCHANGED <<chain, sent, entity, goal, base, at, first, last, touched, reverted,
                     invalid, clean>>
  BY DEF Query, Refetched
<1>3. ans \in [Ticks -> Tick] /\ work \in [Ticks -> Tick] /\ EndState(goal) \in [Ticks -> Tick]
  <2>1. BatchBlock \in 0..Len(chain) /\ Len(goal) \in 0..Len(goal)
    BY <1>2, Numbers
  <2> QED
    BY <2>1, AnswerType, StateType DEF TickInv, TypeOK, EndState
<1>4. work' \in [Ticks -> Tick] /\ steady' \in BOOLEAN
  BY <1>2, <1>3 DEF Sound
<1>5. TypeOK' /\ EntityOK'
  BY <1>2, <1>4 DEF TickInv, TypeOK, EntityOK, Quiet, EndState, StateAt
<1>6. BatchOK'
  BY <1>1, <1>2 DEF BatchOK, FetchOK
<1>7. steady' /\ ~Overreaches => \A t \in asked : work'[t] = EndState(goal)[t]
  <2>1. Sound(goal, BatchBlock, pruned) /\ ~Overreaches => ans = EndState(goal)
    BY SoundAnswer
  <2> QED
    BY <1>2, <2>1
<1>8. steady' /\ clean /\ ~Overreaches => work' = EndState(goal)
  <2> SUFFICES ASSUME steady', clean, ~Overreaches PROVE work' = EndState(goal)
    OBVIOUS
  <2>1. \A t \in Ticks \ touched : work[t] = EndState(goal)[t]
    BY <1>1, <1>2 DEF FetchOK
  <2>2. \A t \in Ticks : work'[t] = EndState(goal)[t]
    BY <1>2, <1>7, <2>1
  <2> QED
    BY <1>3, <1>4, <2>2
<1>9. FetchOK'
  <2>1. EndState(goal') = EndState(goal) /\ Quiet(goal', last', Len(goal'))
    BY <1>1, <1>2 DEF FetchOK
  <2>2. Overreaches' = Overreaches /\ touched' # {}
    BY <1>1, <1>2 DEF Overreaches, BatchBlock, FetchOK
  <2> QED
    BY <1>1, <1>2, <1>7, <1>8, <2>1, <2>2 DEF FetchOK
<1> QED
  BY <1>2, <1>5, <1>6, <1>9 DEF TickInv

LEMMA QueryAffectedStep ==
    ASSUME TickInv, NEW pruned \in BOOLEAN, QueryAffected(pruned)
    PROVE  TickInv'
<1>1. touched \in SUBSET Ticks
  BY DEF TickInv, TypeOK
<1>2. pc \in {"affected", "all"} /\ pc' \in {"all", "state"} /\ Query(touched, pruned)
  BY DEF QueryAffected
<1> QED
  BY <1>1, <1>2, QueryStep

LEMMA QueryAllStep ==
    ASSUME TickInv, NEW pruned \in BOOLEAN, QueryAll(pruned)
    PROVE  TickInv'
<1>1. touched \cup Known(entity.ticks) \in SUBSET Ticks
  BY DEF TickInv, TypeOK, Known
<1>2. pc \in {"affected", "all"} /\ pc' \in {"all", "state"}
      /\ Query(touched \cup Known(entity.ticks), pruned)
  BY DEF QueryAll
<1> QED
  BY <1>1, <1>2, QueryStep

LEMMA InitialisedType ==
    ASSUME NEW ticks \in [Ticks -> Tick]
    PROVE  Initialised(ticks) \in [Ticks -> Tick]
BY DEF Initialised, Untouched, Tick

LEMMA InitialisedChain ==
    ASSUME NEW ch, ChainOK(ch), NEW n \in 0..Len(ch)
    PROVE  Initialised(StateAt(ch, n)) = StateAt(ch, n)
<1>1. StateAt(ch, n) \in [Ticks -> Tick]
  BY StateType
<1>2. \A t \in Ticks : StateAt(ch, n)[t].gross = 0 => StateAt(ch, n)[t] = Untouched
  BY DEF ChainOK, Cleared
<1>3. \A t \in Ticks : Initialised(StateAt(ch, n))[t] = StateAt(ch, n)[t]
  BY <1>2 DEF Initialised
<1> QED
  BY <1>1, <1>3, InitialisedType

LEMMA UpdateStateStep == TickInv /\ UpdateState => TickInv'
<1> SUFFICES ASSUME TickInv, UpdateState PROVE TickInv'
  OBVIOUS
<1>1. /\ pc = "state" /\ BatchOK /\ FetchOK /\ EntityOK
      /\ entity' = [ticks |-> Initialised(work), number |-> Larger(entity.number, last)]
      /\ sent' = goal /\ Idle /\ chain' = chain
      /\ clean' = (clean /\ steady /\ (touched = {} \/ ~Overreaches))
  BY DEF UpdateState, TickInv
<1>2. entity'.ticks \in [Ticks -> Tick] /\ clean' \in BOOLEAN
  BY <1>1, InitialisedType DEF TickInv, TypeOK
<1>3. entity'.number \in 0..MaxHeight /\ last <= entity'.number
  BY <1>1, Numbers DEF Larger, EntityOK, BatchOK
<1>4. EntityOK'
  <2>1. Quiet(goal, entity'.number, Len(goal))
    BY <1>1, <1>3, Numbers DEF FetchOK, Quiet
  <2>2. clean' => entity'.ticks = EndState(goal)
    <3>1. Len(goal) \in 0..Len(goal)
      BY Numbers
    <3>2. Initialised(EndState(goal)) = EndState(goal)
      BY <3>1, InitialisedChain DEF TickInv, EndState
    <3>3. clean' => work = EndState(goal)
      BY <1>1 DEF FetchOK
    <3> QED
      BY <1>1, <3>2, <3>3
  <2> QED
    BY <1>1, <1>3, <2>1, <2>2 DEF EntityOK
<1>5. entity' = [ticks |-> entity'.ticks, number |-> entity'.number]
  BY <1>1
<1> QED
  BY <1>1, <1>2, <1>3, <1>4, <1>5, IdleStep DEF TickInv

(* The entity changes between two batches. *)
LEMMA BetweenStep ==
    ASSUME TickInv, pc = "idle", UNCHANGED <<chain, sent, call>>,
           entity' \in [ticks : [Ticks -> Tick], number : 0..MaxHeight],
           clean' \in BOOLEAN, EntityOK'
    PROVE  TickInv'
<1>1. TypeOK'
  BY DEF TickInv, TypeOK, call
<1> QED
  BY <1>1 DEF TickInv, call

LEMMA FetchPoolTicksStep ==
    ASSUME TickInv, NEW pruned \in BOOLEAN, FetchPoolTicks(pruned)
    PROVE  TickInv'
<1> DEFINE known == Known(entity.ticks)
           n == entity.number
           read == Refetched(NoTicks, known, n, pruned)
<1>1. /\ pc = "idle" /\ n <= Len(chain) /\ EntityOK
      /\ entity' = [entity EXCEPT !.ticks = Initialised(read)]
      /\ clean' = (clean /\ Sound(sent, n, pruned) /\ n <= Len(sent))
      /\ UNCHANGED <<chain, sent, call>>
  BY DEF FetchPoolTicks, TickInv
<1>2. n \in 0..Len(chain) /\ Len(sent) \in 0..Len(sent) /\ (n <= Len(sent) => n \in 0..Len(sent))
  BY <1>1, Numbers
<1>3. Answer(n, pruned) \in [Ticks -> Tick] /\ NoTicks \in [Ticks -> Tick]
  BY <1>2, AnswerType DEF TickInv, NoTicks, Untouched, Tick
<1>4. read \in [Ticks -> Tick]
  BY <1>3 DEF Refetched
<1>5. entity' \in [ticks : [Ticks -> Tick], number : 0..MaxHeight]
      /\ entity'.number = n /\ entity'.ticks = Initialised(read)
  BY <1>1, <1>4, InitialisedType DEF TickInv, TypeOK
<1>6. clean' => entity'.ticks = EndState(sent)
  <2> SUFFICES ASSUME clean' PROVE entity'.ticks = EndState(sent)
    OBVIOUS
  <2>0. n <= Len(sent)
    BY <1>1
  <2>1. entity.ticks = EndState(sent) /\ EndState(sent) \in [Ticks -> Tick]
    BY <1>1, <1>2, StateType DEF EntityOK, TickInv, EndState
  <2>2. Answer(n, pruned) = EndState(sent)
    <3>1. ChainOK(chain) /\ ChainOK(sent) /\ Prefix(sent, chain)
      BY <1>1 DEF Sound, TickInv
    <3>2. StateAt(chain, n) = StateAt(sent, n)
      BY <1>2, <2>0, <3>1, PrefixState
    <3>3. StateAt(sent, n) = EndState(sent)
      BY <1>1, <1>2, <2>0 DEF EntityOK, TickInv, ChainOK, Steadfast, EndState
    <3> QED
      BY <1>1, <3>2, <3>3 DEF Answer, Sound
  <2>3. ASSUME NEW t \in Ticks PROVE read[t] = EndState(sent)[t]
    <3>1. CASE t \in known
      BY <2>2, <3>1 DEF Refetched
    <3>2. CASE t \notin known
      <4>1. EndState(sent)[t].gross = 0
        BY <2>1, <3>2 DEF Known
      <4>2. EndState(sent)[t] = Untouched
        BY <1>2, <4>1 DEF TickInv, ChainOK, Cleared, EndState
      <4> QED
        BY <3>2, <4>2 DEF Refetched, NoTicks
    <3> QED
      BY <3>1, <3>2
  <2>4. read = EndState(sent)
    BY <1>4, <2>1, <2>3
  <2> QED
    BY <1>2, <1>5, <2>4, InitialisedChain DEF TickInv, EndState
<1>7. EntityOK'
  BY <1>1, <1>5, <1>6 DEF EntityOK
<1>8. clean' \in BOOLEAN
  BY <1>1 DEF TickInv, TypeOK, Sound
<1> QED
  BY <1>1, <1>5, <1>7, <1>8, BetweenStep

LEMMA BootstrapStep ==
    ASSUME TickInv, NEW n \in 0..MaxHeight, NEW logged \in 0..MaxHeight,
           BootstrapPoolState(n, logged)
    PROVE  TickInv'
<1>1. /\ pc = "idle" /\ EntityOK /\ n \in 0..Len(chain) /\ logged \in 0..Len(sent)
      /\ entity' = [ticks |-> StateAt(chain, n), number |-> Larger(entity.number, logged)]
      /\ clean' = (n = Len(sent) /\ logged = Len(sent) /\ Prefix(sent, chain))
      /\ UNCHANGED <<chain, sent, call>>
  BY DEF BootstrapPoolState, TickInv
<1>2. /\ Larger(entity.number, logged) \in 0..MaxHeight
      /\ entity.number <= Larger(entity.number, logged)
  BY <1>1, Numbers DEF Larger, EntityOK
<1>3. StateAt(chain, n) \in [Ticks -> Tick]
  BY <1>1, StateType DEF TickInv
<1>4. EntityOK'
  <2>1. Quiet(sent, Larger(entity.number, logged), Len(sent))
    BY <1>1, <1>2, Numbers DEF EntityOK, Quiet
  <2>2. clean' => StateAt(chain, n) = EndState(sent)
    <3>1. Len(sent) \in 0..Len(sent)
      BY Numbers
    <3>2. ChainOK(chain) /\ ChainOK(sent)
      BY DEF TickInv
    <3>3. Prefix(sent, chain) => StateAt(sent, Len(sent)) = StateAt(chain, Len(sent))
      BY <3>1, <3>2, PrefixState
    <3> QED
      BY <1>1, <3>3 DEF EndState
  <2> QED
    BY <1>1, <1>2, <2>1, <2>2 DEF EntityOK
<1>5. entity' \in [ticks : [Ticks -> Tick], number : 0..MaxHeight] /\ clean' \in BOOLEAN
  BY <1>1, <1>2, <1>3 DEF Prefix
<1> QED
  BY <1>1, <1>4, <1>5, BetweenStep

LEMMA NextStep == TickInv /\ [Next]_vars => TickInv'
<1> SUFFICES ASSUME TickInv, [Next]_vars PROVE TickInv'
  OBVIOUS
<1>1. CASE Mine
  BY <1>1, MineStep
<1>2. CASE Rewind
  BY <1>2, RewindStep
<1>3. CASE \E n, m \in 0..MaxHeight : Deliver(n, m)
  BY <1>3, DeliverStep
<1>4. CASE \E f, l \in 1..MaxHeight : Removed(f, l)
  BY <1>4, RemovedStep
<1>5. CASE RemovedDone
  BY <1>5, RemovedDoneStep
<1>6. CASE New
  BY <1>6, NewStep
<1>7. CASE NewDone
  BY <1>7, NewDoneStep
<1>8. CASE NoLogs
  BY <1>8, NoLogsStep
<1>9. CASE \E pruned \in BOOLEAN : QueryAffected(pruned)
  BY <1>9, QueryAffectedStep
<1>10. CASE \E pruned \in BOOLEAN : QueryAll(pruned)
  BY <1>10, QueryAllStep
<1>11. CASE UpdateState
  BY <1>11, UpdateStateStep
<1>12. CASE Fail
  BY <1>12, FailStep
<1>13. CASE \E pruned \in BOOLEAN : FetchPoolTicks(pruned)
  BY <1>13, FetchPoolTicksStep
<1>14. CASE \E n, logged \in 0..MaxHeight : BootstrapPoolState(n, logged)
  BY <1>14, BootstrapStep
<1>15. CASE UNCHANGED vars
  <2>1. ChainOK(chain') /\ UNCHANGED <<sent, entity, call, clean>>
    BY <1>15 DEF vars, TickInv
  <2> QED
    BY <2>1, ChainStep
<1> QED
  BY <1>1, <1>2, <1>3, <1>4, <1>5, <1>6, <1>7, <1>8, <1>9, <1>10, <1>11, <1>12, <1>13,
     <1>14, <1>15 DEF Next

-----------------------------------------------------------------------------
(* Theorems *)

(* The invariant above holds of every state of the tracker. *)
THEOREM TickInvariant == Spec => []TickInv
BY Initially, NextStep, PTL DEF Spec

(* The tracker's state keeps its types; in particular applyLiquidityChange *)
(* never leaves a tick with negative liquidity (pool_tracker.go:574-608).  *)
THEOREM TrackerTypeCorrect == Spec => []TypeOK
<1>1. TickInv => TypeOK
  BY DEF TickInv
<1> QED
  BY <1>1, TickInvariant, PTL

(* Between two batches the entity has exactly the ticks of the chain that  *)
(* was delivered, for reorganisations of any depth and batches that end    *)
(* anywhere, provided it was bootstrapped where its logs start and every   *)
(* refetch of queryTicksFromRPC was answered for a block of that chain.    *)
THEOREM ExactTicks == Spec => []TicksExact
<1>1. TickInv => TicksExact
  BY DEF TickInv, TicksExact, EntityOK
<1> QED
  BY <1>1, TickInvariant, PTL

(* After a reorganisation the ticks that its logs name come out right,     *)
(* whatever was wrong with the entity before, whenever the block that      *)
(* GetBlockNumberFromLogs picks is not beyond the batch (log.go:8-22);     *)
(* They need not when it is (README, section 3).                           *)
THEOREM RevertsHeal == Spec => []RevertHeals
<1>1. TickInv => RevertHeals
  BY DEF TickInv, RevertHeals, FetchOK
<1> QED
  BY <1>1, TickInvariant, PTL

(* No log that was applied is beyond the entity's BlockNumber, whichever   *)
(* blocks reorganisations removed since (updateState).                     *)
THEOREM NumberCurrent == Spec => []BlockNumberCurrent
<1>1. TickInv => BlockNumberCurrent
  BY DEF TickInv, BlockNumberCurrent, EntityOK, Quiet
<1> QED
  BY <1>1, TickInvariant, PTL
=============================================================================
