-------------------------- MODULE LimitOrderProofs --------------------------
(***************************************************************************)
(* Proofs about LimitOrder, for every book, number of worlds and amount.   *)
(*                                                                         *)
(* A quote is computed before it is applied and cannot book what it uses,  *)
(* so the argument has two halves.  By induction over the ranks, the fills *)
(* of a quote fit the world it was computed in: distinct orders, each      *)
(* within what is left of it, all together within what their makers hold   *)
(* (QuoteOK).  By induction over the fills, a quote that fits is applied   *)
(* without a refusal of the inventory, so that orders and inventory keep   *)
(* agreeing with the ledger.  An order without an available amount is      *)
(* bounded by its rate: it never gives more per unit taken than it offers. *)
(***************************************************************************)
EXTENDS LimitOrder, IterationProofs

OrderState == [taking : Int, making : Int, available : Nat \cup {None}]

LedgerEntry == [taking : Int, making : Int]

(* An order as its simulator has it (s), its ledger entry (l), its data (d) *)
OrderOK(s, l, d) ==
    /\ s.taking = d.filledTaking + l.taking /\ s.making = d.filledMaking + l.making
    /\ d.available = None =>
          /\ s.available = None
          /\ s.making <= d.making
          /\ s.making * d.taking <= s.taking * d.making
    /\ d.available # None =>
          /\ s.available # None
          /\ s.available = d.available - l.making

LimitOK(b, lim, led) ==
    lim # None =>
        \A k \in Keys : Tracked(b, k[1]) /\ Giving(b, k) # {} => lim[k] = Balance(b, led, k)

(* A fill that an order can take. *)
Fits(s, d, f) ==
    /\ d.available = None =>
          /\ s.making + f.making <= d.making
          /\ (s.making + f.making) * d.taking <= (s.taking + f.taking) * d.making
    /\ d.available # None => f.making <= s.available

(* What the first n fills take from maker m. *)
Drawn(b, fills, n, m) ==
    Sum([i \in 1..Len(fills) |-> IF b[fills[i].order].maker = m THEN fills[i].making ELSE 0], n)

QuoteOK(b, orders, lim, fills) ==
    /\ fills \in Seq(FillData(Int))
    /\ \A i, j \in 1..Len(fills) :
          /\ fills[i].order = fills[j].order => i = j
          /\ b[fills[i].order].give = b[fills[j].order].give
          /\ b[fills[i].order].get = b[fills[j].order].get
    /\ \A i \in 1..Len(fills) :
          LET o == fills[i].order
          IN  /\ Fits(orders[o], b[o], fills[i])
              /\ lim # None /\ Tracked(b, b[o].maker) =>
                    fills[i].making + Drawn(b, fills, i - 1, b[o].maker) <= lim[GiveKey(b[o])]

SpentOK(b, q) == q.exact = "in" => q.amount - Spent(b, q.fills) \in {0, 1}

(* The inductive invariant. *)
BookInv ==
    /\ TypeOK
    /\ \A w \in Worlds :
          /\ owner[w] = w
          /\ \A o \in Orders : OrderOK(copies[w][o], ledger[w][o], book[o])
          /\ LimitOK(book, limit[w], ledger[w])
          /\ quote[w] # None =>
                /\ QuoteOK(book, copies[w], limit[w], quote[w].fills)
                /\ SpentOK(book, quote[w])

-----------------------------------------------------------------------------
(* Rounding *)

LEMMA Cancel ==
    ASSUME NEW x \in Int, NEW y \in Int, NEW c \in Nat \ {0}
    PROVE  /\ x * c <= y * c => x <= y
           /\ x * c < y * c => x < y
           /\ x <= y => x * c <= y * c
OBVIOUS

LEMMA Floor ==
    ASSUME NEW x \in Int, NEW c \in Nat \ {0}
    PROVE  /\ x \div c \in Int
           /\ (x \div c) * c <= x
           /\ x < (x \div c) * c + c
OBVIOUS

LEMMA Ceiling ==
    ASSUME NEW x \in Int, NEW c \in Nat \ {0}
    PROVE  /\ DivCeil(x, c) \in Int
           /\ x <= DivCeil(x, c) * c
           /\ DivCeil(x, c) * c < x + c
<1> DEFINE y == x + c - 1
<1>1. y \in Int
  OBVIOUS
<1>2. y \div c \in Int /\ (y \div c) * c <= y /\ y < (y \div c) * c + c
  BY <1>1, Floor
<1>3. DivCeil(x, c) = y \div c
  BY DEF DivCeil
<1> HIDE DEF y
<1>4. (y \div c) * c \in Int
  BY <1>2
<1> QED
  BY <1>2, <1>3, <1>4 DEF y

LEMMA CeilingZero ==
    ASSUME NEW c \in Nat \ {0}
    PROVE  DivCeil(0, c) = 0
<1> DEFINE r == DivCeil(0, c)
<1>1. r \in Int /\ 0 <= r * c /\ r * c < c
  BY Ceiling
<1> HIDE DEF r
<1>2. 0 * c <= r * c /\ r * c < 1 * c
  BY <1>1
<1>3. 0 <= r /\ r < 1
  BY <1>1, <1>2, Cancel
<1> QED
  BY <1>1, <1>3 DEF r

(* What is left of an amount after the part that can be spent and the fee  *)
(* on that part, both rounded, is at most 1.                               *)
LEMMA FeeRounding ==
    ASSUME NEW amount \in Int, NEW B \in Nat \ {0}, NEW fee \in 0..(B - 1)
    PROVE  LET net == (amount * B) \div (B + fee)
           IN  amount - net - DivCeil(net * fee, B) \in {0, 1}
<1> DEFINE net == (amount * B) \div (B + fee)
           charge == DivCeil(net * fee, B)
           rest == amount - net - charge
<1>1. /\ net \in Int
      /\ net * (B + fee) <= amount * B
      /\ amount * B < net * (B + fee) + (B + fee)
  <2>1. amount * B \in Int /\ B + fee \in Nat \ {0}
    OBVIOUS
  <2> QED
    BY <2>1, Floor
<1> HIDE DEF net
<1>2. /\ charge \in Int
      /\ net * fee <= charge * B
      /\ charge * B < net * fee + B
  <2>1. net * fee \in Int
    BY <1>1
  <2> QED
    BY <2>1, Ceiling
<1> HIDE DEF charge
<1>3. rest \in Int /\ rest * B = amount * B - net * B - charge * B
  BY <1>1, <1>2
<1> HIDE DEF rest
<1>4. net * (B + fee) = net * B + net * fee
  BY <1>1
<1>5. rest * B < 2 * B /\ (-1) * B < rest * B
  <2> DEFINE p == amount * B
             q == net * B
             r == net * fee
             t == charge * B
  <2>1. p \in Int /\ q \in Int /\ r \in Int /\ t \in Int
    BY <1>1, <1>2
  <2>2. rest * B = p - q - t /\ q + r <= p /\ p < q + r + B + fee /\ r <= t /\ t < r + B
    BY <1>1, <1>2, <1>3, <1>4
  <2> HIDE DEF p, q, r, t
  <2> QED
    BY <2>1, <2>2
<1>6. rest < 2 /\ -1 < rest
  BY <1>3, <1>5, Cancel
<1> QED
  BY <1>3, <1>6 DEF rest, charge, net

-----------------------------------------------------------------------------
(* Sums over the orders *)

LEMMA TotalInt ==
    ASSUME NEW f, NEW S, \A p \in Orders : f[p] \in Int
    PROVE  Total(f, S) \in Int
<1> DEFINE F == [i \in 1..Len(Ranking) |-> IF Ranking[i] \in S THEN f[Ranking[i]] ELSE 0]
<1>1. Len(Ranking) \in Nat /\ \A i \in 1..Len(Ranking) : Ranking[i] \in Orders
  BY BookAssumption
<1>2. \A i \in 1..Len(Ranking) : F[i] \in Int
  BY <1>1
<1> HIDE DEF F
<1>3. Sum(F, Len(Ranking)) \in Int
  BY <1>1, <1>2, SumInt
<1> QED
  BY <1>3 DEF Total, F

LEMMA TotalChange ==
    ASSUME NEW f, NEW g, NEW S, NEW o \in Orders, NEW d \in Int,
           \A p \in Orders : f[p] \in Int,
           g[o] = f[o] + d,
           \A p \in Orders : p # o => g[p] = f[p]
    PROVE  Total(g, S) = Total(f, S) + (IF o \in S THEN d ELSE 0)
<1> DEFINE n == Len(Ranking)
           F == [i \in 1..n |-> IF Ranking[i] \in S THEN f[Ranking[i]] ELSE 0]
           G == [i \in 1..n |-> IF Ranking[i] \in S THEN g[Ranking[i]] ELSE 0]
           c == IF o \in S THEN d ELSE 0
<1>1. n \in Nat /\ \A i \in 1..n : Ranking[i] \in Orders
  <2>1. Ranking \in Seq(Orders)
    BY BookAssumption, Zenon
  <2> QED
    BY <2>1
<1>2. PICK r \in 1..n : Ranking[r] = o
  BY BookAssumption
<1>3. \A i \in 1..n : i # r => Ranking[i] # o
  BY <1>2, BookAssumption
<1>4. \A i \in 1..n : F[i] \in Int
  BY <1>1
<1>5. c \in Int
  OBVIOUS
<1>6. G[r] = F[r] + c
  <2>1. CASE o \in S
    BY <1>2, <2>1
  <2>2. CASE o \notin S
    BY <1>2, <2>2
  <2> QED
    BY <2>1, <2>2
<1>7. \A i \in 1..n : i # r => G[i] = F[i]
  BY <1>1, <1>3
<1>8. Sum(G, n) = Sum(F, n) + c
  <2> HIDE DEF F, G, c, n
  <2> QED
    BY <1>1, <1>4, <1>5, <1>6, <1>7, SumChange
<1> QED
  BY <1>8 DEF Total

-----------------------------------------------------------------------------
(* What the inventory should be *)

LEMMA BookFacts ==
    ASSUME NEW b \in Books, NEW o \in Orders
    PROVE  /\ b[o] \in OrderData
           /\ b[o].give # b[o].get
           /\ b[o].available # None =>
                 b[o].available \in Nat /\ b[o].available <= b[o].making - b[o].filledMaking
           /\ GiveKey(b[o]) \in Keys /\ GetKey(b[o]) \in Keys
           /\ GiveKey(b[o])[1] = b[o].maker /\ GetKey(b[o])[1] = b[o].maker
           /\ GiveKey(b[o]) # GetKey(b[o])
<1>1. b[o] \in OrderData
  BY BookAssumption
<1>2. /\ b[o].give # b[o].get
      /\ b[o].available # None => b[o].available <= b[o].making - b[o].filledMaking
  BY BookAssumption
<1>3. b[o].available # None => b[o].available \in Nat
  BY <1>1 DEF OrderData
<1>4. b[o].maker \in Makers /\ b[o].give \in Assets /\ b[o].get \in Assets
  BY <1>1 DEF OrderData
<1>5. GiveKey(b[o]) \in Keys /\ GetKey(b[o]) \in Keys
  BY <1>4 DEF GiveKey, GetKey, Keys
<1>6. /\ GiveKey(b[o])[1] = b[o].maker /\ GetKey(b[o])[1] = b[o].maker
      /\ GiveKey(b[o]) # GetKey(b[o])
  BY <1>2 DEF GiveKey, GetKey
<1> QED
  BY <1>1, <1>2, <1>3, <1>5, <1>6

LEMMA HeldInt ==
    ASSUME NEW b \in Books, NEW k \in Keys, Tracked(b, k[1]), Giving(b, k) # {}
    PROVE  CalculateLimit(b)[k] \in Nat
<1> DEFINE O == {o \in Orders : GiveKey(b[o]) = k}
           c == CHOOSE o \in O : TRUE
<1>1. O # {}
  BY DEF Giving
<1>2. c \in O
  BY <1>1
<1>3. CalculateLimit(b)[k] = b[c].allowance
  BY <1>1 DEF CalculateLimit
<1> HIDE DEF c
<1>4. c \in Orders /\ GiveKey(b[c]) = k
  BY <1>2
<1>5. b[c].maker = k[1]
  BY <1>4 DEF GiveKey
<1>6. b[c].allowance # None
  BY <1>4, <1>5 DEF Tracked
<1>7. b[c] \in OrderData
  BY <1>4, BookFacts
<1> QED
  BY <1>3, <1>6, <1>7 DEF OrderData

LEMMA BalanceChange ==
    ASSUME NEW b \in Books, NEW led \in [Orders -> LedgerEntry],
           NEW f \in FillData(Int),
           NEW k \in Keys, Tracked(b, k[1]), Giving(b, k) # {}
    PROVE  /\ Balance(b, led, k) \in Int
           /\ Balance(b, Booked(led, f), k) = Balance(b, led, k)
                 - (IF GiveKey(b[f.order]) = k THEN f.making ELSE 0)
                 + (IF GetKey(b[f.order]) = k THEN f.taking ELSE 0)
<1> DEFINE o == f.order
           making == f.making
           taking == f.taking
           new == Booked(led, f)
           gave(l) == [p \in Orders |-> l[p].making]
           took(l) == [p \in Orders |-> l[p].taking]
           c == CalculateLimit(b)[k]
           g == Total(gave(led), Giving(b, k))
           t == Total(took(led), Getting(b, k))
           x == IF GiveKey(b[o]) = k THEN making ELSE 0
           y == IF GetKey(b[o]) = k THEN taking ELSE 0
<1>0. o \in Orders /\ making \in Int /\ taking \in Int
  BY DEF FillData
<1>1. c \in Int
  BY HeldInt
<1>2. \A p \in Orders : gave(led)[p] \in Int /\ took(led)[p] \in Int
  BY DEF LedgerEntry
<1>3. g \in Int /\ t \in Int
  <2> HIDE DEF gave, took
  <2> QED
    BY <1>2, TotalInt
<1>4. /\ gave(new)[o] = gave(led)[o] + making
      /\ took(new)[o] = took(led)[o] + taking
      /\ \A p \in Orders : p # o => gave(new)[p] = gave(led)[p] /\ took(new)[p] = took(led)[p]
  BY <1>0 DEF LedgerEntry, Booked
<1>5. /\ Total(gave(new), Giving(b, k)) = g + (IF o \in Giving(b, k) THEN making ELSE 0)
      /\ Total(took(new), Getting(b, k)) = t + (IF o \in Getting(b, k) THEN taking ELSE 0)
  <2> HIDE DEF gave, took, new
  <2> QED
    BY <1>0, <1>2, <1>4, TotalChange
<1>6. /\ Total(gave(new), Giving(b, k)) = g + x
      /\ Total(took(new), Getting(b, k)) = t + y
  <2>1. o \in Giving(b, k) <=> GiveKey(b[o]) = k
    BY <1>0 DEF Giving
  <2>2. o \in Getting(b, k) <=> GetKey(b[o]) = k
    BY <1>0 DEF Getting
  <2> HIDE DEF gave, took, new, g, t
  <2> QED
    BY <1>5, <2>1, <2>2
<1>7. Balance(b, led, k) = c - g + t
  BY DEF Balance
<1>8. Balance(b, new, k) = c - (g + x) + (t + y)
  <2>1. Balance(b, new, k) = c - Total(gave(new), Giving(b, k)) + Total(took(new), Getting(b, k))
    BY DEF Balance
  <2> HIDE DEF gave, took, new, g, t, c, x, y
  <2> QED
    BY <1>6, <2>1
<1>9. x \in Int /\ y \in Int
  BY <1>0
<1> HIDE DEF g, t, c, x, y, new
<1>10. Balance(b, led, k) \in Int /\ Balance(b, new, k) = Balance(b, led, k) - x + y
  BY <1>1, <1>3, <1>7, <1>8, <1>9
<1> QED
  BY <1>10 DEF new, x, y

-----------------------------------------------------------------------------
(* Applying a quote *)

WorldData ==
    [orders : [Orders -> [taking : Int, making : Int, available : Int \cup {None}]],
     limit : [Keys -> Int \cup {None}] \cup {None},
     ledger : [Orders -> LedgerEntry]]

LEMMA LimitedIs ==
    ASSUME book \in Books, NEW lim \in [Keys -> Int \cup {None}] \cup {None}, lim # None,
           NEW f \in FillData(Int)
    PROVE  LET dec == GiveKey(book[f.order])
               inc == GetKey(book[f.order])
           IN  /\ Limited(lim, f) \in [Keys -> Int \cup {None}]
               /\ \A k \in Keys : k # dec /\ k # inc => Limited(lim, f)[k] = lim[k]
               /\ lim[dec] # None /\ f.making <= lim[dec] =>
                     /\ Limited(lim, f)[dec] = lim[dec] - f.making
                     /\ lim[inc] # None => Limited(lim, f)[inc] = lim[inc] + f.taking
<1> DEFINE dec == GiveKey(book[f.order])
           inc == GetKey(book[f.order])
           new == [lim EXCEPT ![dec] = @ - f.making,
                              ![inc] = (IF @ = None THEN 0 ELSE @) + f.taking]
<1>1. f.order \in Orders /\ f.taking \in Int /\ f.making \in Int
  BY DEF FillData
<1>2. dec \in Keys /\ inc \in Keys /\ dec # inc
  BY <1>1, BookFacts
<1>3. lim \in [Keys -> Int \cup {None}]
  OBVIOUS
<1>4. Limited(lim, f) = IF lim[dec] = None THEN lim ELSE IF lim[dec] < f.making THEN lim ELSE new
  BY DEF Limited
<1> HIDE DEF dec, inc
<1>5. CASE lim[dec] = None
  BY <1>2, <1>3, <1>4, <1>5 DEF dec, inc
<1>6. CASE lim[dec] # None /\ lim[dec] < f.making
  <2>1. lim[dec] \in Int
    BY <1>2, <1>3, <1>6
  <2>2. Limited(lim, f) = lim /\ ~ (f.making <= lim[dec])
    BY <1>1, <1>4, <1>6, <2>1
  <2> QED
    BY <1>2, <1>3, <2>2 DEF dec, inc
<1>7. CASE lim[dec] # None /\ ~ (lim[dec] < f.making)
  <2>1. lim[dec] \in Int
    BY <1>2, <1>3, <1>7
  <2>2. Limited(lim, f) = new
    BY <1>4, <1>7
  <2>3. /\ DOMAIN new = Keys
        /\ new[dec] = lim[dec] - f.making
        /\ new[inc] = (IF lim[inc] = None THEN 0 ELSE lim[inc]) + f.taking
        /\ \A k \in Keys : k # dec /\ k # inc => new[k] = lim[k]
    BY <1>2, <1>3
  <2>4. new[dec] \in Int /\ new[inc] \in Int
    <3>1. (IF lim[inc] = None THEN 0 ELSE lim[inc]) \in Int
      BY <1>2, <1>3
    <3> QED
      BY <1>1, <2>1, <2>3, <3>1
  <2>5. new \in [Keys -> Int \cup {None}]
    <3>1. \A k \in Keys : new[k] \in Int \cup {None}
      BY <1>2, <1>3, <2>3, <2>4
    <3>2. new = [k \in Keys |-> new[k]]
      BY <1>3
    <3> HIDE DEF new
    <3> QED
      BY <3>1, <3>2
  <2> HIDE DEF new
  <2> QED
    BY <2>2, <2>3, <2>5 DEF dec, inc
<1> QED
  BY <1>5, <1>6, <1>7

LEMMA ApplyType ==
    ASSUME book \in Books, NEW s \in WorldData, NEW f \in FillData(Int)
    PROVE  Apply(s, f) \in WorldData
<1>1. f.order \in Orders /\ f.taking \in Int /\ f.making \in Int
  BY DEF FillData
<1>2. [s.orders EXCEPT ![f.order] = Filled(@, f)]
         \in [Orders -> [taking : Int, making : Int, available : Int \cup {None}]]
  <2>1. s.orders \in [Orders -> [taking : Int, making : Int, available : Int \cup {None}]]
    BY DEF WorldData
  <2>2. Filled(s.orders[f.order], f) \in [taking : Int, making : Int, available : Int \cup {None}]
    BY <1>1, <2>1 DEF Filled
  <2> QED
    BY <1>1, <2>1, <2>2
<1>3. Limited(s.limit, f) \in [Keys -> Int \cup {None}] \cup {None}
  <2>1. s.limit \in [Keys -> Int \cup {None}] \cup {None}
    BY DEF WorldData
  <2>2. CASE s.limit = None
    BY <2>2 DEF Limited
  <2>3. CASE s.limit # None
    BY <2>1, <2>3, LimitedIs
  <2> QED
    BY <2>2, <2>3
<1>4. Booked(s.ledger, f) \in [Orders -> LedgerEntry]
  <2>1. s.ledger \in [Orders -> LedgerEntry]
    BY DEF WorldData
  <2>2. [taking |-> s.ledger[f.order].taking + f.taking,
         making |-> s.ledger[f.order].making + f.making] \in LedgerEntry
    BY <1>1, <2>1 DEF LedgerEntry
  <2> QED
    BY <1>1, <2>1, <2>2 DEF Booked
<1> QED
  BY <1>2, <1>3, <1>4 DEF Apply, WorldData

LEMMA UpdatingIs ==
    ASSUME TypeOK, NEW w \in Worlds, quote[w].fills \in Seq(FillData(Int))
    PROVE  LET s == Updating(w)
               n == Len(quote[w].fills)
           IN  /\ s[0] = [orders |-> copies[owner[w]], limit |-> limit[w], ledger |-> ledger[w]]
               /\ s[0] \in WorldData
               /\ \A i \in 1..n : s[i] = Apply(s[i - 1], quote[w].fills[i])
<1> DEFINE fills == quote[w].fills
           n == Len(fills)
           base == [orders |-> copies[owner[w]], limit |-> limit[w], ledger |-> ledger[w]]
           Eq(g) == g = [i \in 0..n |-> IF i = 0 THEN base ELSE Apply(g[i - 1], fills[i])]
           s == Updating(w)
<1>1. n \in Nat /\ \A i \in 1..n : fills[i] \in FillData(Int)
  OBVIOUS
<1>2. base \in WorldData
  <2>1. copies[owner[w]] \in [Orders -> [taking : Int, making : Int, available : Int \cup {None}]]
    <3>1. copies[owner[w]] \in [Orders -> OrderState]
      BY DEF TypeOK, OrderState
    <3> QED
      BY <3>1 DEF OrderState
  <2>2. limit[w] \in [Keys -> Int \cup {None}] \cup {None}
    BY DEF TypeOK
  <2>3. ledger[w] \in [Orders -> LedgerEntry]
    BY DEF TypeOK, LedgerEntry
  <2> QED
    BY <2>1, <2>2, <2>3 DEF WorldData
<1>3. PICK step \in Steps(n, WorldData) :
         \A i \in 1..n, a \in WorldData : step[i][a] = Apply(a, fills[i])
  <2> DEFINE t == [i \in 1..n |-> [a \in WorldData |-> Apply(a, fills[i])]]
  <2>1. \A i \in 1..n, a \in WorldData : Apply(a, fills[i]) \in WorldData
    BY <1>1, ApplyType DEF TypeOK
  <2>2. t \in Steps(n, WorldData) /\ \A i \in 1..n, a \in WorldData : t[i][a] = Apply(a, fills[i])
    BY <2>1 DEF Steps
  <2> HIDE DEF t
  <2> QED
    BY <2>2
<1> HIDE DEF base, n
<1>4. PICK g : Iterates(g, n, WorldData, base, step)
  BY <1>1, <1>2, Iteration, Zenon
<1>5. Eq(g)
  <2>1. \A i \in 1..n : g[i - 1] \in WorldData
    BY <1>1, <1>4 DEF Iterates
  <2>2. \A i \in 1..n : g[i] = Apply(g[i - 1], fills[i])
    BY <1>3, <1>4, <2>1 DEF Iterates
  <2> QED
    BY <1>1, <1>4, <2>2 DEF Iterates
<1>6. Eq(s)
  <2>1. s = CHOOSE h : Eq(h)
    BY DEF Updating, n, base
  <2> HIDE DEF Eq
  <2> QED
    BY <1>5, <2>1
<1> HIDE DEF s
<1>7. s[0] = base
  <2>1. 0 \in 0..n
    BY <1>1
  <2> QED
    BY <1>6, <2>1
<1>8. ASSUME NEW i \in 1..n PROVE s[i] = Apply(s[i - 1], fills[i])
  <2>1. i \in 0..n /\ i # 0
    BY <1>1
  <2> QED
    BY <1>6, <2>1
<1> QED
  BY <1>2, <1>7, <1>8 DEF s, n, base

AddsUp(b, fills, m) ==
    /\ Drawn(b, fills, 0, m) = 0
    /\ \A i \in 0..Len(fills) : Drawn(b, fills, i, m) \in Int
    /\ \A i \in 1..Len(fills) :
          Drawn(b, fills, i, m) = Drawn(b, fills, i - 1, m)
             + (IF b[fills[i].order].maker = m THEN fills[i].making ELSE 0)

LEMMA DrawnFacts ==
    ASSUME NEW b, NEW fills \in Seq(FillData(Int)), NEW m
    PROVE  AddsUp(b, fills, m)
<1> DEFINE n == Len(fills)
           F == [i \in 1..n |-> IF b[fills[i].order].maker = m THEN fills[i].making ELSE 0]
<1>1. n \in Nat /\ \A i \in 1..n : fills[i].making \in Int
  <2>1. n \in Nat /\ \A i \in 1..n : fills[i] \in FillData(Int)
    OBVIOUS
  <2> QED
    BY <2>1 DEF FillData
<1>2. \A i \in 1..n : F[i] \in Int
  BY <1>1
<1>3. \A i : Drawn(b, fills, i, m) = Sum(F, i)
  BY DEF Drawn
<1>4. \A i \in 1..n : F[i] = IF b[fills[i].order].maker = m THEN fills[i].making ELSE 0
  OBVIOUS
<1> HIDE DEF F, n
<1>5. Sum(F, 0) = 0
  BY SumZero
<1>6. ASSUME NEW i \in 0..n PROVE Sum(F, i) \in Int
  <2>1. i \in Nat /\ \A j \in 1..i : F[j] \in Int
    BY <1>1, <1>2
  <2> QED
    BY <2>1, SumInt
<1>7. ASSUME NEW i \in 1..n PROVE Sum(F, i) = Sum(F, i - 1) + F[i]
  <2>1. i \in Nat \ {0} /\ \A j \in 1..i : F[j] \in Int
    BY <1>1, <1>2
  <2> QED
    BY <2>1, SumNext
<1> QED
  BY <1>3, <1>4, <1>5, <1>6, <1>7 DEF n, AddsUp

LEMMA FilledOK ==
    ASSUME NEW s \in OrderState, NEW l \in LedgerEntry, NEW d \in OrderData,
           NEW f \in FillData(Int), OrderOK(s, l, d), Fits(s, d, f)
    PROVE  /\ Filled(s, f) \in OrderState
           /\ OrderOK(Filled(s, f),
                      [taking |-> l.taking + f.taking, making |-> l.making + f.making], d)
<1>1. /\ s.taking \in Int /\ s.making \in Int /\ s.available \in Nat \cup {None}
      /\ d.making \in Nat \ {0} /\ d.taking \in Nat \ {0} /\ d.available \in Nat \cup {None}
      /\ d.filledMaking \in Nat /\ d.filledTaking \in Nat
      /\ l.taking \in Int /\ l.making \in Int
      /\ f.taking \in Int /\ f.making \in Int
      /\ None \notin Int
  BY BookAssumption DEF OrderState, OrderData, FillData, LedgerEntry
<1> DEFINE r == Filled(s, f)
<1>2. /\ r.taking = s.taking + f.taking
      /\ r.making = s.making + f.making
      /\ r.available = IF s.available = None THEN None ELSE s.available - f.making
      /\ r = [taking |-> r.taking, making |-> r.making, available |-> r.available]
  BY DEF Filled
<1> HIDE DEF r
<1> DEFINE m == [taking |-> l.taking + f.taking, making |-> l.making + f.making]
<1>3. m.taking = l.taking + f.taking /\ m.making = l.making + f.making
  OBVIOUS
<1> HIDE DEF m
<1>4. r.taking = d.filledTaking + m.taking /\ r.making = d.filledMaking + m.making
  <2>1. s.taking = d.filledTaking + l.taking /\ s.making = d.filledMaking + l.making
    BY DEF OrderOK
  <2> QED
    BY <1>1, <1>2, <1>3, <2>1
<1>5. CASE d.available = None
  <2>1. s.available = None
    BY <1>5 DEF OrderOK
  <2>2. r.available = None
    BY <1>2, <2>1
  <2>3. r \in OrderState
    BY <1>1, <1>2, <2>2 DEF OrderState
  <2>4. r.making <= d.making /\ r.making * d.taking <= r.taking * d.making
    BY <1>2, <1>5 DEF Fits
  <2> QED
    BY <1>5, <1>4, <2>2, <2>3, <2>4 DEF OrderOK, r, m
<1>6. CASE d.available # None
  <2>1. s.available # None /\ s.available = d.available - l.making /\ f.making <= s.available
    BY <1>6 DEF OrderOK, Fits
  <2>2. r.available = s.available - f.making /\ r.available \in Nat
    BY <1>1, <1>2, <2>1
  <2>3. r \in OrderState
    BY <1>1, <1>2, <2>2 DEF OrderState
  <2>4. r.available # None /\ r.available = d.available - m.making
    BY <1>1, <1>6, <1>3, <2>1, <2>2
  <2> QED
    BY <1>6, <1>4, <2>3, <2>4 DEF OrderOK, r, m
<1> QED
  BY <1>5, <1>6

(* The inventory accepts a fill that it covers. *)
LEMMA LimitStep ==
    ASSUME book \in Books, NEW lim \in [Keys -> Int \cup {None}] \cup {None}, lim # None,
           NEW led \in [Orders -> LedgerEntry], NEW f \in FillData(Int),
           LimitOK(book, lim, led),
           Tracked(book, book[f.order].maker) => f.making <= lim[GiveKey(book[f.order])]
    PROVE  /\ LimitOK(book, Limited(lim, f), Booked(led, f))
           /\ \A k \in Keys : Tracked(book, k[1]) /\ Giving(book, k) # {} =>
                 /\ lim[k] \in Int
                 /\ Limited(lim, f)[k] = lim[k]
                       - (IF GiveKey(book[f.order]) = k THEN f.making ELSE 0)
                       + (IF GetKey(book[f.order]) = k THEN f.taking ELSE 0)
<1> DEFINE o == f.order
           dec == GiveKey(book[o])
           inc == GetKey(book[o])
           new == Booked(led, f)
           next == Limited(lim, f)
           Kept(k) == Tracked(book, k[1]) /\ Giving(book, k) # {}
           x(k) == IF dec = k THEN f.making ELSE 0
           y(k) == IF inc = k THEN f.taking ELSE 0
<1>1. o \in Orders /\ f.taking \in Int /\ f.making \in Int
  BY DEF FillData
<1>2. dec \in Keys /\ inc \in Keys /\ dec # inc /\ dec[1] = book[o].maker /\ inc[1] = book[o].maker
  BY <1>1, BookFacts
<1>3. /\ \A k \in Keys : k # dec /\ k # inc => next[k] = lim[k]
      /\ lim[dec] # None /\ f.making <= lim[dec] =>
            /\ next[dec] = lim[dec] - f.making
            /\ lim[inc] # None => next[inc] = lim[inc] + f.taking
  BY LimitedIs
<1>4. ASSUME NEW k \in Keys, Kept(k)
      PROVE  /\ lim[k] \in Int /\ lim[k] # None
             /\ lim[k] = Balance(book, led, k)
             /\ Balance(book, new, k) = Balance(book, led, k) - x(k) + y(k)
  <2>1. /\ Balance(book, led, k) \in Int
        /\ Balance(book, new, k) = Balance(book, led, k) - x(k) + y(k)
    BY <1>4, BalanceChange, Zenon
  <2>2. lim[k] = Balance(book, led, k)
    BY <1>4 DEF LimitOK
  <2>3. None \notin Int
    BY BookAssumption
  <2> HIDE DEF x, y, new, Kept
  <2> QED
    BY <2>1, <2>2, <2>3
<1>5. dec[1] = book[o].maker /\ Tracked(book, book[o].maker) => Kept(dec)
  <2>1. o \in Giving(book, dec)
    BY <1>1 DEF Giving
  <2> QED
    BY <2>1
<1>6. ASSUME NEW k \in Keys, Kept(k) PROVE next[k] = lim[k] - x(k) + y(k)
  <2>1. lim[k] \in Int /\ lim[k] # None
    BY <1>4, <1>6
  <2>2. CASE k = dec
    <3>1. f.making <= lim[dec]
      BY <1>2, <1>6, <2>2
    <3>2. next[k] = lim[k] - f.making
      <4> HIDE DEF next, dec, inc
      <4> QED
        BY <1>3, <2>1, <2>2, <3>1
    <3>3. x(k) = f.making /\ y(k) = 0
      BY <1>2, <2>2
    <3> HIDE DEF x, y, next
    <3> QED
      BY <1>1, <2>1, <3>2, <3>3
  <2>3. CASE k = inc
    <3>1. Tracked(book, book[o].maker)
      BY <1>2, <1>6, <2>3
    <3>2. f.making <= lim[dec]
      BY <3>1
    <3>3. lim[dec] # None
      BY <1>2, <1>4, <1>5, <3>1
    <3>4. next[k] = lim[k] + f.taking
      <4> HIDE DEF next, dec, inc
      <4> QED
        BY <1>3, <2>1, <2>3, <3>2, <3>3
    <3>5. x(k) = 0 /\ y(k) = f.taking
      BY <1>2, <2>3
    <3> HIDE DEF x, y, next
    <3> QED
      BY <1>1, <2>1, <3>4, <3>5
  <2>4. CASE k # dec /\ k # inc
    <3>1. next[k] = lim[k]
      BY <1>3, <2>4
    <3>2. x(k) = 0 /\ y(k) = 0
      BY <2>4
    <3> HIDE DEF x, y, next
    <3> QED
      BY <2>1, <3>1, <3>2
  <2> QED
    BY <2>2, <2>3, <2>4
<1>7. LimitOK(book, next, new)
  <2>1. ASSUME NEW k \in Keys, Kept(k) PROVE next[k] = Balance(book, new, k)
    <3> HIDE DEF next, new, x, y, Kept
    <3> QED
      BY <1>4, <1>6, <2>1
  <2> HIDE DEF next, new
  <2> QED
    BY <2>1 DEF LimitOK
<1> QED
  BY <1>4, <1>6, <1>7

(* World w once the first i fills of its quote are applied. *)
ApplyOK(w, s, i) ==
    LET fills == quote[w].fills
    IN  /\ s \in WorldData
        /\ \A o \in Orders :
              s.orders[o] \in OrderState /\ OrderOK(s.orders[o], s.ledger[o], book[o])
        /\ \A j \in 1..Len(fills) :
              i < j => s.orders[fills[j].order] = copies[w][fills[j].order]
        /\ LimitOK(book, s.limit, s.ledger)
        /\ s.limit # None =>
              /\ limit[w] # None
              /\ \A j \in 1..Len(fills) :
                    LET d == book[fills[j].order]
                    IN  Tracked(book, d.maker) =>
                           s.limit[GiveKey(d)] = limit[w][GiveKey(d)] - Drawn(book, fills, i, d.maker)

LEMMA ApplyStep ==
    ASSUME TypeOK, NEW w \in Worlds,
           QuoteOK(book, copies[w], limit[w], quote[w].fills),
           LimitOK(book, limit[w], ledger[w]),
           NEW i \in 1..Len(quote[w].fills), NEW s, ApplyOK(w, s, i - 1)
    PROVE  ApplyOK(w, Apply(s, quote[w].fills[i]), i)
<1> DEFINE fills == quote[w].fills
           n == Len(fills)
           f == fills[i]
           t == Apply(s, f)
           d(j) == book[fills[j].order]
           kept(j) == limit[w][GiveKey(d(j))]
           drawn(k, j) == Drawn(book, fills, k, d(j).maker)
<1>1. book \in Books /\ ledger[w] \in [Orders -> LedgerEntry]
  BY DEF TypeOK, LedgerEntry
<1>2. /\ fills \in Seq(FillData(Int))
      /\ \A j \in 1..n :
            /\ fills[j].order = fills[i].order => j = i
            /\ d(j).give = d(i).give /\ d(j).get = d(i).get
      /\ Fits(copies[w][fills[i].order], d(i), fills[i])
      /\ limit[w] # None /\ Tracked(book, d(i).maker) =>
            fills[i].making + drawn(i - 1, i) <= kept(i)
  BY Zenon DEF QuoteOK
<1>3. /\ s \in WorldData
      /\ \A p \in Orders : s.orders[p] \in OrderState /\ OrderOK(s.orders[p], s.ledger[p], book[p])
      /\ \A j \in 1..n : i - 1 < j => s.orders[fills[j].order] = copies[w][fills[j].order]
      /\ LimitOK(book, s.limit, s.ledger)
      /\ s.limit # None =>
            /\ limit[w] # None
            /\ \A j \in 1..n : Tracked(book, d(j).maker) =>
                  s.limit[GiveKey(d(j))] = kept(j) - drawn(i - 1, j)
  BY Zenon DEF ApplyOK
<1>4. i \in 1..n
  OBVIOUS
<1> HIDE DEF fills
<1>5. n \in Nat /\ i \in Nat /\ i - 1 \in 0..n /\ i - 1 < i /\ i \in 0..n
  BY <1>2, <1>4
<1>6. \A j \in 1..n : fills[j] \in FillData(Int)
  BY <1>2
<1> HIDE DEF n
<1>7. \A j \in 1..n : fills[j].order \in Orders /\ fills[j].making \in Int
  BY <1>6 DEF FillData
<1>8. f \in FillData(Int) /\ f.order \in Orders /\ f.making \in Int
  BY <1>4, <1>6, <1>7
<1>9. /\ t \in WorldData
      /\ t.orders = [s.orders EXCEPT ![f.order] = Filled(@, f)]
      /\ t.limit = Limited(s.limit, f)
      /\ t.ledger = Booked(s.ledger, f)
  <2> HIDE DEF f
  <2>1. t \in WorldData
    BY <1>1, <1>3, <1>8, ApplyType
  <2> QED
    BY <2>1 DEF Apply
<1> HIDE DEF t
<1>10. /\ s.orders \in [Orders -> [taking : Int, making : Int, available : Int \cup {None}]]
       /\ s.limit \in [Keys -> Int \cup {None}] \cup {None}
       /\ s.ledger \in [Orders -> LedgerEntry]
  BY <1>3 DEF WorldData
<1>11. /\ t.orders[f.order] = Filled(s.orders[f.order], f)
       /\ t.ledger[f.order] = [taking |-> s.ledger[f.order].taking + f.taking,
                               making |-> s.ledger[f.order].making + f.making]
       /\ \A p \in Orders : p # f.order => t.orders[p] = s.orders[p] /\ t.ledger[p] = s.ledger[p]
  <2> HIDE DEF f
  <2> QED
    BY <1>8, <1>9, <1>10 DEF Booked
<1>12. ASSUME NEW p \in Orders
       PROVE  t.orders[p] \in OrderState /\ OrderOK(t.orders[p], t.ledger[p], book[p])
  <2>1. CASE p = f.order
    <3> DEFINE o == f.order
    <3>1. Fits(s.orders[o], book[o], f)
      BY <1>2, <1>3, <1>4, <1>5, Zenon
    <3>2. s.orders[o] \in OrderState /\ OrderOK(s.orders[o], s.ledger[o], book[o])
      BY <1>3, <1>8, Zenon
    <3>3. book[o] \in OrderData
      BY <1>1, <1>8, BookFacts, Zenon
    <3>4. s.ledger[o] \in LedgerEntry
      <4> HIDE DEF f
      <4> QED
        BY <1>8, <1>10
    <3>5. t.orders[o] \in OrderState /\ OrderOK(t.orders[o], t.ledger[o], book[o])
      <4> HIDE DEF o
      <4> QED
        BY <1>8, <1>11, <3>1, <3>2, <3>3, <3>4, FilledOK, Zenon DEF o
    <3> QED
      BY <2>1, <3>5, Zenon
  <2>2. CASE p # f.order
    BY <1>3, <1>11, <2>2, Zenon
  <2> QED
    BY <2>1, <2>2, Zenon
<1>13. ASSUME NEW j \in 1..n, i < j
       PROVE  t.orders[fills[j].order] = copies[w][fills[j].order]
  <2>1. j # i /\ i - 1 < j
    BY <1>5, <1>13
  <2>2. fills[j].order # f.order
    BY <1>2, <2>1, Zenon
  <2>3. s.orders[fills[j].order] = copies[w][fills[j].order]
    BY <1>3, <2>1, Zenon
  <2> QED
    BY <1>7, <1>11, <2>2, <2>3, Zenon
<1>14. CASE s.limit = None
  <2>1. t.limit = None
    BY <1>9, <1>14, Zenon DEF Limited
  <2> QED
    BY <1>9, <1>12, <1>13, <2>1, Zenon DEF ApplyOK, LimitOK, t, n, fills
<1>15. CASE s.limit # None
  <2>1. limit[w] # None /\ LimitOK(book, s.limit, s.ledger)
    BY <1>3, <1>15, Zenon
  <2>2. ASSUME NEW j \in 1..n, Tracked(book, d(j).maker)
        PROVE  s.limit[GiveKey(d(j))] = kept(j) - drawn(i - 1, j)
    BY <1>3, <1>15, <2>2, Zenon
  <2>3. ASSUME NEW j \in 1..n
        PROVE  /\ drawn(i - 1, j) \in Int
               /\ drawn(i, j) = drawn(i - 1, j) + (IF d(i).maker = d(j).maker THEN f.making ELSE 0)
    <3> DEFINE m == d(j).maker
    <3>1. /\ \A k \in 0..n : Drawn(book, fills, k, m) \in Int
          /\ \A k \in 1..n : Drawn(book, fills, k, m) = Drawn(book, fills, k - 1, m)
                 + (IF book[fills[k].order].maker = m THEN fills[k].making ELSE 0)
      <4>1. fills \in Seq(FillData(Int))
        BY <1>2, Zenon
      <4>2. AddsUp(book, fills, m)
        BY <4>1, DrawnFacts, Zenon
      <4> HIDE DEF m
      <4> QED
        BY <4>2, Zenon DEF AddsUp, n
    <3> QED
      BY <1>4, <1>5, <3>1, Zenon
  <2>4. ASSUME NEW j \in 1..n, Tracked(book, d(j).maker)
        PROVE  /\ GiveKey(d(j)) \in Keys
               /\ GiveKey(d(j))[1] = d(j).maker
               /\ Giving(book, GiveKey(d(j))) # {}
    <3>1. fills[j].order \in Giving(book, GiveKey(d(j)))
      BY <1>7, Zenon DEF Giving
    <3>2. GiveKey(d(j)) \in Keys /\ GiveKey(d(j))[1] = d(j).maker
      BY <1>1, <1>7, BookFacts, Zenon
    <3> QED
      BY <3>1, <3>2, Zenon
  <2>5. ASSUME NEW j \in 1..n, Tracked(book, d(j).maker)
        PROVE  kept(j) \in Int
    <3> DEFINE k == GiveKey(d(j))
    <3>1. k \in Keys /\ Tracked(book, k[1]) /\ Giving(book, k) # {}
      BY <2>4, <2>5, Zenon
    <3>2. limit[w][k] = Balance(book, ledger[w], k)
      <4> HIDE DEF k
      <4> QED
        BY <2>1, <3>1, Zenon DEF LimitOK
    <3>3. Balance(book, ledger[w], k) \in Int
      <4> HIDE DEF k, f
      <4> QED
        BY <1>1, <1>8, <3>1, BalanceChange, Zenon
    <3> QED
      BY <3>2, <3>3, Zenon
  <2>6. ASSUME Tracked(book, d(i).maker) PROVE f.making <= s.limit[GiveKey(d(i))]
    <3>1. f.making + drawn(i - 1, i) <= kept(i)
      BY <1>2, <2>1, <2>6, Zenon
    <3>2. s.limit[GiveKey(d(i))] = kept(i) - drawn(i - 1, i)
      BY <1>4, <2>2, <2>6, Zenon
    <3>3. drawn(i - 1, i) \in Int /\ kept(i) \in Int
      BY <1>4, <2>3, <2>5, <2>6, Zenon
    <3> HIDE DEF drawn, kept, d, f
    <3> QED
      BY <1>8, <3>1, <3>2, <3>3
  <2>7. /\ LimitOK(book, t.limit, t.ledger)
        /\ \A k \in Keys : Tracked(book, k[1]) /\ Giving(book, k) # {} =>
              t.limit[k] = s.limit[k] - (IF GiveKey(d(i)) = k THEN f.making ELSE 0)
                                      + (IF GetKey(d(i)) = k THEN f.taking ELSE 0)
    <3> DEFINE lim == s.limit
               led == s.ledger
    <3>1. /\ book \in Books /\ lim \in [Keys -> Int \cup {None}] \cup {None} /\ lim # None
          /\ led \in [Orders -> LedgerEntry] /\ f \in FillData(Int)
          /\ LimitOK(book, lim, led)
          /\ Tracked(book, book[f.order].maker) => f.making <= lim[GiveKey(book[f.order])]
      BY <1>1, <1>8, <1>10, <1>15, <2>1, <2>6, Zenon
    <3>2. t.limit = Limited(lim, f) /\ t.ledger = Booked(led, f)
      BY <1>9, Zenon
    <3>3. /\ LimitOK(book, Limited(lim, f), Booked(led, f))
          /\ \A k \in Keys : Tracked(book, k[1]) /\ Giving(book, k) # {} =>
                Limited(lim, f)[k] = lim[k]
                      - (IF GiveKey(book[f.order]) = k THEN f.making ELSE 0)
                      + (IF GetKey(book[f.order]) = k THEN f.taking ELSE 0)
      <4> HIDE DEF lim, led, f
      <4> QED
        BY <3>1, LimitStep, Zenon
    <3> QED
      BY <3>2, <3>3, Zenon
  <2>8. ASSUME NEW j \in 1..n, Tracked(book, d(j).maker)
        PROVE  t.limit[GiveKey(d(j))] = kept(j) - drawn(i, j)
    <3> DEFINE k == GiveKey(d(j))
               c == IF d(i).maker = d(j).maker THEN f.making ELSE 0
               a == t.limit[k]
               b == s.limit[k]
    <3>1. d(j).give = d(i).give /\ d(j).get = d(i).get /\ d(i).give # d(i).get
      BY <1>1, <1>2, <1>8, BookFacts, Zenon
    <3>2. GetKey(d(i)) # k /\ (GiveKey(d(i)) = k <=> d(i).maker = d(j).maker)
      <4> HIDE DEF d
      <4> QED
        BY <3>1 DEF GiveKey, GetKey
    <3>3. a = b - c + 0
      <4>1. k \in Keys /\ Tracked(book, k[1]) /\ Giving(book, k) # {}
        BY <2>4, <2>8, Zenon
      <4>2. a = b - (IF GiveKey(d(i)) = k THEN f.making ELSE 0)
                  + (IF GetKey(d(i)) = k THEN f.taking ELSE 0)
        <5> HIDE DEF k
        <5> QED
          BY <2>7, <4>1, Zenon
      <4>3. /\ (IF GiveKey(d(i)) = k THEN f.making ELSE 0) = c
            /\ (IF GetKey(d(i)) = k THEN f.taking ELSE 0) = 0
        <5> HIDE DEF k, d, f
        <5> QED
          BY <3>2
      <4> HIDE DEF a, b, c, k
      <4> QED
        BY <4>2, <4>3, Zenon
    <3>4. b = kept(j) - drawn(i - 1, j)
      BY <2>2, <2>8, Zenon
    <3>5. drawn(i - 1, j) \in Int /\ kept(j) \in Int /\ drawn(i, j) = drawn(i - 1, j) + c
      BY <2>3, <2>5, <2>8, Zenon
    <3>6. c \in Int
      <4> HIDE DEF d, f
      <4> QED
        BY <1>8
    <3>7. a = kept(j) - drawn(i, j)
      <4> HIDE DEF drawn, kept, a, b, c
      <4> QED
        BY <3>3, <3>4, <3>5, <3>6
    <3> QED
      BY <3>7, Zenon
  <2> QED
    BY <1>9, <1>12, <1>13, <2>1, <2>7, <2>8, Zenon DEF ApplyOK, t, n, fills
<1> QED
  BY <1>14, <1>15, Zenon

LEMMA UpdateOK ==
    ASSUME BookInv, NEW w \in Worlds, quote[w] # None
    PROVE  ApplyOK(w, Updating(w)[Len(quote[w].fills)], Len(quote[w].fills))
<1> DEFINE fills == quote[w].fills
           n == Len(fills)
           s == Updating(w)
           S == {i \in 0..n : ApplyOK(w, s[i], i)}
<1>1. /\ TypeOK
      /\ owner[w] = w
      /\ \A o \in Orders : OrderOK(copies[w][o], ledger[w][o], book[o])
      /\ LimitOK(book, limit[w], ledger[w])
      /\ QuoteOK(book, copies[w], limit[w], fills)
  BY DEF BookInv
<1>2. fills \in Seq(FillData(Int)) /\ n \in Nat
  BY <1>1 DEF QuoteOK
<1>3. /\ s[0] = [orders |-> copies[w], limit |-> limit[w], ledger |-> ledger[w]]
      /\ s[0] \in WorldData
      /\ \A i \in 1..n : s[i] = Apply(s[i - 1], fills[i])
  BY <1>1, <1>2, UpdatingIs, Zenon
<1> HIDE DEF s
<1>4. ApplyOK(w, s[0], 0)
  <2>1. s[0].orders = copies[w] /\ s[0].limit = limit[w] /\ s[0].ledger = ledger[w]
    BY <1>3
  <2>2. \A o \in Orders : copies[w][o] \in OrderState
    BY <1>1 DEF TypeOK, OrderState
  <2>3. \A m : Drawn(book, fills, 0, m) = 0
    <3>1. \A m : AddsUp(book, fills, m)
      BY <1>2, DrawnFacts, Zenon
    <3> QED
      BY <3>1, Zenon DEF AddsUp
  <2>4. ASSUME NEW j \in 1..n, limit[w] # None, Tracked(book, book[fills[j].order].maker)
        PROVE  LET d == book[fills[j].order]
               IN  limit[w][GiveKey(d)] = limit[w][GiveKey(d)] - Drawn(book, fills, 0, d.maker)
    <3> DEFINE o == fills[j].order
               k == GiveKey(book[o])
    <3>1. fills[j] \in FillData(Int) /\ book \in Books
      BY <1>1, <1>2 DEF TypeOK
    <3>2. o \in Orders
      BY <3>1 DEF FillData
    <3>3. k \in Keys /\ k[1] = book[o].maker
      BY <3>1, <3>2, BookFacts, Zenon
    <3>4. Giving(book, k) # {}
      BY <3>2, Zenon DEF Giving
    <3>5. limit[w][k] = Balance(book, ledger[w], k)
      BY <1>1, <2>4, <3>3, <3>4 DEF LimitOK
    <3>6. ledger[w] \in [Orders -> LedgerEntry]
      BY <1>1 DEF TypeOK, LedgerEntry
    <3>7. Balance(book, ledger[w], k) \in Int
      <4> HIDE DEF k
      <4> QED
        BY <2>4, <3>1, <3>3, <3>4, <3>6, BalanceChange
    <3>8. limit[w][k] \in Int
      BY <3>5, <3>7
    <3> HIDE DEF k
    <3>9. limit[w][k] = limit[w][k] - Drawn(book, fills, 0, book[o].maker)
      BY <2>3, <3>8
    <3> QED
      BY <3>9 DEF k
  <2> QED
    BY <1>1, <1>3, <2>1, <2>2, <2>4 DEF ApplyOK
<1>5. 0 \in S
  BY <1>2, <1>4
<1>6. ASSUME NEW i \in 1..n, i - 1 \in S PROVE i \in S
  <2>1. ApplyOK(w, s[i - 1], i - 1) /\ i \in 0..n
    BY <1>2, <1>6
  <2>2. ApplyOK(w, Apply(s[i - 1], fills[i]), i)
    BY <1>1, <2>1, ApplyStep
  <2>3. ApplyOK(w, s[i], i)
    BY <1>3, <2>2
  <2> QED
    BY <2>1, <2>3
<1>7. \A i \in 0..n : i \in S
  <2> HIDE DEF S, n
  <2> QED
    BY <1>2, <1>5, <1>6, Induction
<1>8. n \in S
  BY <1>2, <1>7
<1> QED
  BY <1>8 DEF s

-----------------------------------------------------------------------------
(* One order of a quote *)

AccData ==
    [left : Int, fills : Seq(FillData(Int)), used : [Makers -> Int], depth : Int,
     done : BOOLEAN, out : Int, aim : Int]

LEMMA FeeTypes ==
    ASSUME NEW d \in OrderData, NEW x \in Int
    PROVE  /\ MakerFee(d, x) \in Int /\ MakingBeforeFee(d, x) \in Int
           /\ TakerFee(d, x) \in Int /\ TakingAfterFee(d, x) \in Int
<1>1. BasisPoint \in Nat \ {0}
  BY BookAssumption
<1>2. d.fee \in 0..(BasisPoint - 1)
  BY DEF OrderData
<1> DEFINE fee == d.fee
<1>3. fee \in Nat /\ BasisPoint - fee \in Nat \ {0} /\ BasisPoint + fee \in Nat \ {0}
  BY <1>1, <1>2
<1> HIDE DEF fee
<1>4. x * fee \in Int /\ x * BasisPoint \in Int
  BY <1>1, <1>3
<1>5. DivCeil(x * fee, BasisPoint) \in Int
  BY <1>1, <1>4, Ceiling
<1>6. DivCeil(x * BasisPoint, BasisPoint - fee) \in Int
  BY <1>3, <1>4, Ceiling
<1>7. (x * BasisPoint) \div (BasisPoint + fee) \in Int
  BY <1>3, <1>4, Floor
<1> QED
  BY <1>5, <1>6, <1>7 DEF MakerFee, MakingBeforeFee, TakerFee, TakingAfterFee, fee

(* What a fill adds to the accumulator. *)
Adds(acc, new, f) ==
    /\ new \in AccData
    /\ new.fills = Append(acc.fills, f)
    /\ new.used = [acc.used EXCEPT ![book[f.order].maker] = @ + f.making]

LEMMA FillIs ==
    ASSUME book \in Books, NEW acc \in AccData, NEW o \in Orders,
           NEW taking \in Int, NEW making \in Int
    PROVE  /\ Adds(acc, Fill(acc, o, taking, making),
                   [order |-> o, taking |-> taking, making |-> making])
           /\ Fill(acc, o, taking, making).left = acc.left
           /\ Fill(acc, o, taking, making).done = acc.done
           /\ Fill(acc, o, taking, making).depth = acc.depth
           /\ Fill(acc, o, taking, making).out \in Int
<1> DEFINE f == [order |-> o, taking |-> taking, making |-> making]
           new == Fill(acc, o, taking, making)
           m == book[o].maker
<1>1. book[o] \in OrderData
  BY BookFacts
<1>2. m \in Makers
  BY <1>1 DEF OrderData
<1>3. MakerFee(book[o], making) \in Int
  BY <1>1, FeeTypes
<1>4. f \in FillData(Int)
  BY DEF FillData
<1>5. /\ acc.left \in Int /\ acc.fills \in Seq(FillData(Int)) /\ acc.used \in [Makers -> Int]
      /\ acc.depth \in Int /\ acc.done \in BOOLEAN /\ acc.out \in Int /\ acc.aim \in Int
  BY DEF AccData
<1>6. Append(acc.fills, f) \in Seq(FillData(Int))
  <2> HIDE DEF f
  <2> QED
    BY <1>4, <1>5
<1>7. [acc.used EXCEPT ![m] = @ + making] \in [Makers -> Int]
  BY <1>2, <1>5
<1>8. acc.out + making - MakerFee(book[o], making) \in Int
  BY <1>3, <1>5
<1> DEFINE F == Append(acc.fills, f)
           U == [acc.used EXCEPT ![m] = @ + making]
           O == acc.out + making - MakerFee(book[o], making)
<1>9. new = [acc EXCEPT !.fills = F, !.used = U, !.out = O]
  BY DEF Fill, AccData
<1> HIDE DEF F, U, O, new
<1>10. /\ new.fills = F /\ new.used = U /\ new.out = O
       /\ new.left = acc.left /\ new.done = acc.done /\ new.depth = acc.depth
  BY <1>9 DEF AccData
<1>11. new \in AccData
  BY <1>6, <1>7, <1>8, <1>9 DEF AccData, F, U, O
<1> QED
  BY <1>8, <1>10, <1>11 DEF Adds, F, U, O, new

(* What is left of an order in a quote, as the quote sees it. *)
LEMMA RemainingFacts ==
    ASSUME BookInv, NEW w \in Worlds, NEW o \in Orders, NEW used \in [Makers -> Int]
    PROVE  LET making == RemainingMaking(w, o, used)
               taking == RemainingTaking(w, o, making)
               s == copies[w][o]
               d == book[o]
           IN  /\ making \in Int /\ taking \in Int
               /\ d.available = None =>
                     making = d.making - s.making /\ taking = d.taking - s.taking
               /\ d.available # None =>
                     making <= s.available /\ taking * d.making <= making * d.taking
               /\ limit[w] # None /\ Tracked(book, d.maker) =>
                     limit[w][GiveKey(d)] \in Int /\ making + used[d.maker] <= limit[w][GiveKey(d)]
<1> DEFINE making == RemainingMaking(w, o, used)
           taking == RemainingTaking(w, o, making)
           s == copies[w][o]
           d == book[o]
           k == GiveKey(d)
           rest == MakerRemaining(w, d, used)
<1>1. /\ TypeOK
      /\ owner[w] = w
      /\ OrderOK(s, ledger[w][o], d)
      /\ LimitOK(book, limit[w], ledger[w])
  BY DEF BookInv
<1>2. State(w, o) = s
  BY <1>1 DEF State
<1>3. /\ s.taking \in Int /\ s.making \in Int /\ s.available \in Nat \cup {None}
      /\ book \in Books /\ None \notin Int
  <2>1. s \in OrderState /\ book \in Books
    BY <1>1 DEF TypeOK, OrderState
  <2> QED
    BY <2>1, BookAssumption DEF OrderState
<1>4. d \in OrderData /\ k \in Keys /\ k[1] = d.maker
  BY <1>3, BookFacts
<1>5. d.making \in Nat \ {0} /\ d.taking \in Nat \ {0} /\ d.maker \in Makers
  BY <1>4 DEF OrderData
<1>6. used[d.maker] \in Int
  BY <1>5
<1>7. limit[w] # None => rest \in Int
  <2> SUFFICES ASSUME limit[w] # None PROVE rest \in Int
    OBVIOUS
  <2>1. limit[w] \in [Keys -> Int \cup {None}]
    BY <1>1 DEF TypeOK
  <2>2. limit[w][k] \in Int \cup {None}
    BY <1>4, <2>1
  <2> HIDE DEF k, d
  <2> QED
    BY <1>6, <2>2 DEF MakerRemaining, k
<1>8. ASSUME limit[w] # None, Tracked(book, d.maker)
      PROVE  limit[w][k] \in Int /\ rest = limit[w][k] - used[d.maker]
  <2>1. Giving(book, k) # {}
    BY DEF Giving
  <2>2. limit[w][k] = Balance(book, ledger[w], k)
    BY <1>1, <1>4, <1>8, <2>1 DEF LimitOK
  <2>3. ledger[w] \in [Orders -> LedgerEntry]
    BY <1>1 DEF TypeOK, LedgerEntry
  <2>4. [order |-> o, taking |-> 0, making |-> 0] \in FillData(Int)
    BY DEF FillData
  <2>5. Balance(book, ledger[w], k) \in Int
    <3> HIDE DEF k
    <3> QED
      BY <1>3, <1>4, <1>8, <2>1, <2>3, <2>4, BalanceChange
  <2> QED
    BY <1>3, <2>2, <2>5 DEF MakerRemaining
<1>9. CASE d.available = None
  <2>1. s.available = None
    BY <1>1, <1>9 DEF OrderOK
  <2>2. making = d.making - s.making
    BY <1>2, <2>1 DEF RemainingMaking
  <2>3. taking = d.taking - s.taking
    BY <1>2, <2>1 DEF RemainingTaking
  <2>4. ~ Tracked(book, d.maker)
    BY <1>9 DEF Tracked
  <2> HIDE DEF making, taking
  <2> QED
    BY <1>3, <1>5, <1>9, <2>2, <2>3, <2>4 DEF making, taking
<1>10. CASE d.available # None
  <2>1. s.available # None
    BY <1>1, <1>10 DEF OrderOK
  <2>2. making = IF limit[w] = None THEN s.available ELSE Smaller(s.available, rest)
    BY <1>2, <2>1 DEF RemainingMaking
  <2>3. taking = (making * d.taking) \div d.making
    BY <1>2, <2>1 DEF RemainingTaking
  <2> HIDE DEF making, rest
  <2>4. making \in Int /\ making <= s.available /\ (limit[w] # None => making <= rest)
    BY <1>3, <1>7, <2>1, <2>2 DEF Smaller
  <2>5. making * d.taking \in Int
    BY <1>5, <2>4
  <2>6. taking \in Int /\ taking * d.making <= making * d.taking
    BY <1>5, <2>3, <2>5, Floor
  <2>7. ASSUME limit[w] # None, Tracked(book, d.maker)
        PROVE  limit[w][k] \in Int /\ making + used[d.maker] <= limit[w][k]
    <3>1. limit[w][k] \in Int /\ rest = limit[w][k] - used[d.maker] /\ making <= rest
      BY <1>8, <2>4, <2>7
    <3> HIDE DEF k, d
    <3> QED
      BY <1>6, <2>4, <3>1
  <2> QED
    BY <1>10, <2>4, <2>6, <2>7 DEF making
<1> QED
  BY <1>9, <1>10

(* A fill that fits the world, after what the quote used so far. *)
Accepts(w, used, f) ==
    LET d == book[f.order]
    IN  /\ Fits(copies[w][f.order], d, f)
        /\ limit[w] # None /\ Tracked(book, d.maker) =>
              f.making + used[d.maker] <= limit[w][GiveKey(d)]

(* A fill fits if it gives no more than what is left, and an order without *)
(* an available amount keeps its rate.                                     *)
LEMMA AcceptsIf ==
    ASSUME BookInv, NEW w \in Worlds, NEW o \in Orders, NEW used \in [Makers -> Int],
           NEW taking \in Int, NEW making \in Int,
           making <= RemainingMaking(w, o, used),
           book[o].available = None =>
              (copies[w][o].making + making) * book[o].taking
                 <= (copies[w][o].taking + taking) * book[o].making
    PROVE  Accepts(w, used, [order |-> o, taking |-> taking, making |-> making])
<1> DEFINE f == [order |-> o, taking |-> taking, making |-> making]
           s == copies[w][o]
           d == book[o]
           left == RemainingMaking(w, o, used)
<1>1. /\ left \in Int
      /\ d.available = None => left = d.making - s.making
      /\ d.available # None => left <= s.available
      /\ limit[w] # None /\ Tracked(book, d.maker) =>
            limit[w][GiveKey(d)] \in Int /\ left + used[d.maker] <= limit[w][GiveKey(d)]
  BY RemainingFacts
<1>2. /\ s \in OrderState /\ d \in OrderData /\ OrderOK(s, ledger[w][o], d)
      /\ None \notin Int
  BY BookAssumption, BookFacts DEF BookInv, TypeOK, OrderState
<1>3. /\ s.making \in Int /\ s.available \in Nat \cup {None} /\ d.making \in Int
      /\ d.maker \in Makers
  BY <1>2 DEF OrderState, OrderData
<1>4. used[d.maker] \in Int
  BY <1>3
<1>5. f.order = o /\ f.taking = taking /\ f.making = making
  OBVIOUS
<1>6. d.available = None => s.making + making <= d.making
  <2> HIDE DEF left, s, d
  <2> QED
    BY <1>1, <1>3 DEF left
<1>7. d.available # None => making <= s.available
  <2> SUFFICES ASSUME d.available # None PROVE making <= s.available
    OBVIOUS
  <2>1. s.available \in Nat
    BY <1>2, <1>3 DEF OrderOK
  <2> HIDE DEF left, s, d
  <2> QED
    BY <1>1, <2>1 DEF left
<1>8. ASSUME limit[w] # None, Tracked(book, d.maker)
      PROVE  making + used[d.maker] <= limit[w][GiveKey(d)]
  <2>1. limit[w][GiveKey(d)] \in Int /\ left + used[d.maker] <= limit[w][GiveKey(d)]
    BY <1>1, <1>8
  <2> HIDE DEF left, s, d
  <2> QED
    BY <1>1, <1>4, <2>1 DEF left
<1> HIDE DEF f
<1>9. Fits(s, d, f)
  BY <1>5, <1>6, <1>7 DEF Fits
<1> QED
  BY <1>5, <1>8, <1>9 DEF Accepts, f

LEMMA AcceptsNothing ==
    ASSUME BookInv, NEW w \in Worlds, NEW o \in Orders, NEW used \in [Makers -> Int],
           0 < RemainingMaking(w, o, used)
    PROVE  Accepts(w, used, [order |-> o, taking |-> 0, making |-> 0])
<1> DEFINE s == copies[w][o]
           d == book[o]
           left == RemainingMaking(w, o, used)
<1>1. left \in Int
  BY RemainingFacts
<1>2. s \in OrderState /\ d \in OrderData /\ OrderOK(s, ledger[w][o], d)
  BY BookFacts DEF BookInv, TypeOK, OrderState
<1>3. d.available = None => (s.making + 0) * d.taking <= (s.taking + 0) * d.making
  <2>1. s.making + 0 = s.making /\ s.taking + 0 = s.taking
    BY <1>2 DEF OrderState
  <2> QED
    BY <1>2, <2>1 DEF OrderOK
<1>4. 0 <= left /\ 0 \in Int
  BY <1>1
<1> HIDE DEF s, d, left
<1> QED
  BY <1>3, <1>4, AcceptsIf DEF s, d, left

(* An order used up. *)
LEMMA AcceptsWhole ==
    ASSUME BookInv, NEW w \in Worlds, NEW o \in Orders, NEW used \in [Makers -> Int]
    PROVE  LET making == RemainingMaking(w, o, used)
               taking == RemainingTaking(w, o, making)
           IN  Accepts(w, used, [order |-> o, taking |-> taking, making |-> making])
<1> DEFINE s == copies[w][o]
           d == book[o]
           making == RemainingMaking(w, o, used)
           taking == RemainingTaking(w, o, making)
<1>1. /\ making \in Int /\ taking \in Int
      /\ d.available = None => making = d.making - s.making /\ taking = d.taking - s.taking
  BY RemainingFacts
<1>2. s \in OrderState /\ d \in OrderData
  BY BookFacts DEF BookInv, TypeOK, OrderState
<1>3. s.making \in Int /\ s.taking \in Int /\ d.making \in Int /\ d.taking \in Int
  BY <1>2 DEF OrderState, OrderData
<1>4. d.available = None => (s.making + making) * d.taking <= (s.taking + taking) * d.making
  <2> SUFFICES ASSUME d.available = None
               PROVE  (s.making + making) * d.taking <= (s.taking + taking) * d.making
    OBVIOUS
  <2> HIDE DEF s, d, making, taking
  <2>1. s.making + making = d.making /\ s.taking + taking = d.taking
    BY <1>1, <1>3
  <2>2. d.making * d.taking <= d.taking * d.making
    BY <1>3
  <2> QED
    BY <2>1, <2>2
<1>5. making <= making
  BY <1>1
<1> HIDE DEF s, d, taking
<1> QED
  BY <1>1, <1>4, <1>5, AcceptsIf DEF s, d, taking

(* A part of an order, for net of what the taker pays. *)
LEMMA AcceptsPart ==
    ASSUME BookInv, NEW w \in Worlds, NEW o \in Orders, NEW used \in [Makers -> Int],
           NEW net \in Int,
           net <= RemainingTaking(w, o, RemainingMaking(w, o, used))
    PROVE  Accepts(w, used, [order |-> o, taking |-> net,
                             making |-> (net * book[o].making) \div book[o].taking])
<1> DEFINE s == copies[w][o]
           d == book[o]
           making == RemainingMaking(w, o, used)
           taking == RemainingTaking(w, o, making)
           part == (net * d.making) \div d.taking
<1>1. /\ making \in Int /\ taking \in Int
      /\ d.available = None => making = d.making - s.making /\ taking = d.taking - s.taking
      /\ d.available # None => taking * d.making <= making * d.taking
  BY RemainingFacts
<1>2. s \in OrderState /\ d \in OrderData /\ OrderOK(s, ledger[w][o], d)
  BY BookFacts DEF BookInv, TypeOK, OrderState
<1>3. /\ s.making \in Int /\ s.taking \in Int
      /\ d.making \in Nat \ {0} /\ d.taking \in Nat \ {0}
  BY <1>2 DEF OrderState, OrderData
<1> HIDE DEF making, taking, s, d
<1>4. net <= taking
  BY DEF taking, making
<1>5. net * d.making \in Int /\ net * d.making <= taking * d.making
  BY <1>1, <1>3, <1>4, Cancel
<1>6. part \in Int /\ part * d.taking <= net * d.making
  BY <1>3, <1>5, Floor
<1> HIDE DEF part
<1>7. d.available = None => (s.making + part) * d.taking <= (s.taking + net) * d.making
  <2> SUFFICES ASSUME d.available = None
               PROVE  (s.making + part) * d.taking <= (s.taking + net) * d.making
    OBVIOUS
  <2>1. s.making * d.taking <= s.taking * d.making
    BY <1>2 DEF OrderOK
  <2>2. /\ (s.making + part) * d.taking = s.making * d.taking + part * d.taking
        /\ (s.taking + net) * d.making = s.taking * d.making + net * d.making
    BY <1>3, <1>6
  <2> DEFINE a == s.making * d.taking
             b == s.taking * d.making
             x == part * d.taking
             y == net * d.making
  <2>3. a \in Int /\ b \in Int /\ x \in Int /\ y \in Int /\ a <= b /\ x <= y
    BY <1>3, <1>5, <1>6, <2>1
  <2>4. a + x <= b + y
    <3> HIDE DEF a, b, x, y
    <3> QED
      BY <2>3
  <2> QED
    BY <2>2, <2>4
<1>8. part <= making
  <2>1. CASE d.available = None
    <3>1. s.taking + net <= d.taking
      BY <1>1, <1>3, <1>4, <2>1
    <3>2. (s.taking + net) * d.making <= d.taking * d.making
      <4>1. s.taking + net \in Int
        BY <1>3
      <4> QED
        BY <1>3, <3>1, <4>1, Cancel
    <3>3. s.making + part \in Int /\ d.making \in Int
      BY <1>3, <1>6
    <3>4. (s.making + part) * d.taking <= d.making * d.taking
      <4> DEFINE a == (s.making + part) * d.taking
                 b == (s.taking + net) * d.making
                 c == d.taking * d.making
      <4>1. a \in Int /\ b \in Int /\ c \in Int /\ c = d.making * d.taking /\ a <= b /\ b <= c
        BY <1>3, <1>6, <1>7, <2>1, <3>2
      <4>2. a <= c
        <5> HIDE DEF a, b, c
        <5> QED
          BY <4>1
      <4> QED
        BY <4>1, <4>2
    <3>5. s.making + part <= d.making
      BY <1>3, <3>3, <3>4, Cancel
    <3> QED
      BY <1>1, <1>3, <1>6, <2>1, <3>5
  <2>2. CASE d.available # None
    <3>1. part * d.taking <= making * d.taking
      <4> DEFINE a == part * d.taking
                 b == net * d.making
                 c == taking * d.making
                 e == making * d.taking
      <4>1. /\ a \in Int /\ b \in Int /\ c \in Int /\ e \in Int
            /\ a <= b /\ b <= c /\ c <= e
        BY <1>1, <1>3, <1>5, <1>6, <2>2
      <4>2. a <= e
        <5> HIDE DEF a, b, c, e
        <5> QED
          BY <4>1
      <4> QED
        BY <4>2
    <3> QED
      BY <1>1, <1>3, <1>6, <3>1, Cancel
  <2> QED
    BY <2>1, <2>2
<1>9. Accepts(w, used, [order |-> o, taking |-> net, making |-> part])
  BY <1>6, <1>7, <1>8, AcceptsIf DEF s, d, making
<1> QED
  BY <1>9 DEF part, d

(* A part of an order, at its price rounded up. *)
LEMMA AcceptsPriced ==
    ASSUME BookInv, NEW w \in Worlds, NEW o \in Orders, NEW used \in [Makers -> Int],
           NEW gross \in Int, gross <= RemainingMaking(w, o, used)
    PROVE  /\ DivCeil(gross * book[o].taking, book[o].making) \in Int
           /\ Accepts(w, used, [order |-> o, making |-> gross,
                                taking |-> DivCeil(gross * book[o].taking, book[o].making)])
<1> DEFINE s == copies[w][o]
           d == book[o]
           price == DivCeil(gross * d.taking, d.making)
<1>1. s \in OrderState /\ d \in OrderData /\ OrderOK(s, ledger[w][o], d)
  BY BookFacts DEF BookInv, TypeOK, OrderState
<1>2. /\ s.making \in Int /\ s.taking \in Int
      /\ d.making \in Nat \ {0} /\ d.taking \in Nat \ {0}
  BY <1>1 DEF OrderState, OrderData
<1> HIDE DEF s, d
<1>3. gross * d.taking \in Int
  BY <1>2
<1>4. price \in Int /\ gross * d.taking <= price * d.making
  BY <1>2, <1>3, Ceiling
<1> HIDE DEF price
<1>5. d.available = None => (s.making + gross) * d.taking <= (s.taking + price) * d.making
  <2> SUFFICES ASSUME d.available = None
               PROVE  (s.making + gross) * d.taking <= (s.taking + price) * d.making
    OBVIOUS
  <2>1. s.making * d.taking <= s.taking * d.making
    BY <1>1 DEF OrderOK
  <2>2. /\ (s.making + gross) * d.taking = s.making * d.taking + gross * d.taking
        /\ (s.taking + price) * d.making = s.taking * d.making + price * d.making
    BY <1>2, <1>4
  <2> DEFINE a == s.making * d.taking
             b == s.taking * d.making
             x == gross * d.taking
             y == price * d.making
  <2>3. a \in Int /\ b \in Int /\ x \in Int /\ y \in Int /\ a <= b /\ x <= y
    BY <1>2, <1>3, <1>4, <2>1
  <2>4. a + x <= b + y
    <3> HIDE DEF a, b, x, y
    <3> QED
      BY <2>3
  <2> QED
    BY <2>2, <2>4
<1>6. Accepts(w, used, [order |-> o, taking |-> price, making |-> gross])
  BY <1>4, <1>5, AcceptsIf DEF s, d
<1> QED
  BY <1>4, <1>6 DEF price, d

Keeps(acc, new) ==
    /\ new \in AccData
    /\ new.fills = acc.fills /\ new.used = acc.used /\ new.left = acc.left
    /\ new.done <=> acc.done

(* SpendOn leaves the fills alone or adds one that is accepted: a spare    *)
(* one, one that uses the order up, or the last, which leaves at most 1.   *)
SpendOnAdds(w, acc, o, new, f) ==
    /\ f.order = o /\ Accepts(w, acc.used, f) /\ Adds(acc, new, f)
    /\ \/ acc.done /\ new.done /\ f.taking = 0
       \/ ~ acc.done /\ ~ new.done /\ new.left = acc.left - Charge(book, f)
       \/ ~ acc.done /\ new.done /\ acc.left - Charge(book, f) \in {0, 1}

LEMMA DepthSet ==
    ASSUME NEW acc \in AccData, NEW x \in Int, NEW new, new = [acc EXCEPT !.depth = x]
    PROVE  Keeps(acc, new)
<1>1. new \in AccData
  BY DEF AccData
<1>2. /\ new.fills = acc.fills /\ new.used = acc.used /\ new.left = acc.left
      /\ new.done = acc.done
  BY DEF AccData
<1> QED
  BY <1>1, <1>2 DEF Keeps

LEMMA LeftSet ==
    ASSUME NEW acc \in AccData, NEW x \in Int, NEW new, new = [acc EXCEPT !.left = x]
    PROVE  /\ new \in AccData
           /\ new.fills = acc.fills /\ new.used = acc.used /\ new.left = x
           /\ new.done = acc.done
<1>1. new \in AccData
  BY DEF AccData
<1>2. /\ new.fills = acc.fills /\ new.used = acc.used /\ new.left = x
      /\ new.done = acc.done
  BY DEF AccData
<1> QED
  BY <1>1, <1>2

LEMMA DoneSet ==
    ASSUME NEW acc \in AccData, NEW x \in Int, NEW new,
           new = [acc EXCEPT !.done = TRUE, !.aim = x]
    PROVE  /\ new \in AccData
           /\ new.fills = acc.fills /\ new.used = acc.used /\ new.done
<1>1. new \in AccData
  BY DEF AccData
<1>2. new.fills = acc.fills /\ new.used = acc.used /\ new.done = TRUE
  BY DEF AccData
<1> QED
  BY <1>1, <1>2

LEMMA FallbackIs ==
    ASSUME BookInv, NEW w \in Worlds, NEW o \in Orders, NEW acc \in AccData, acc.done,
           0 < RemainingMaking(w, o, acc.used)
    PROVE  LET new == Fallback(acc, o, RemainingMaking(w, o, acc.used))
               f == [order |-> o, taking |-> 0, making |-> 0]
           IN  \/ new = acc
               \/ Accepts(w, acc.used, f) /\ Adds(acc, new, f) /\ new.done
<1> DEFINE making == RemainingMaking(w, o, acc.used)
           f == [order |-> o, taking |-> 0, making |-> 0]
           fill == Fill(acc, o, 0, 0)
           new == [fill EXCEPT !.depth = @ + making]
<1>1. book \in Books /\ acc.used \in [Makers -> Int]
  BY DEF BookInv, TypeOK, AccData
<1>2. making \in Int
  BY <1>1, RemainingFacts
<1>3. Accepts(w, acc.used, f)
  BY <1>1, AcceptsNothing
<1>4. 0 \in Int
  OBVIOUS
<1>5. Adds(acc, fill, f) /\ fill.done = acc.done
  BY <1>1, <1>4, FillIs
<1> HIDE DEF making, fill
<1>6. Adds(acc, new, f) /\ new.done
  <2>1. fill \in AccData
    BY <1>5 DEF Adds
  <2>2. Keeps(fill, new)
    <3>1. fill.depth + making \in Int
      BY <1>2, <2>1 DEF AccData
    <3> QED
      BY <2>1, <3>1, DepthSet
  <2> HIDE DEF new
  <2> QED
    BY <1>5, <2>2 DEF Adds, Keeps
<1>7. Fallback(acc, o, making) = IF 10 * acc.depth >= 13 * acc.aim THEN acc ELSE new
  BY DEF Fallback, fill
<1> HIDE DEF new, f
<1>8. Fallback(acc, o, making) = acc \/ Fallback(acc, o, making) = new
  BY <1>7
<1> QED
  BY <1>3, <1>6, <1>8 DEF making, f

LEMMA ChargeFacts ==
    ASSUME NEW b \in Books, NEW f \in FillData(Int)
    PROVE  /\ Charge(b, f) \in Int
           /\ Charge(b, f) = f.taking + TakerFee(b[f.order], f.taking)
           /\ f.taking = 0 => Charge(b, f) = 0
<1>1. f.order \in Orders /\ f.taking \in Int
  BY DEF FillData
<1>2. b[f.order] \in OrderData
  BY <1>1, BookFacts
<1>3. TakerFee(b[f.order], f.taking) \in Int
  BY <1>1, <1>2, FeeTypes
<1>4. BasisPoint \in Nat \ {0} /\ b[f.order].fee \in Int
  <2>1. BasisPoint \in Nat \ {0}
    BY BookAssumption
  <2>2. b[f.order].fee \in 0..(BasisPoint - 1)
    BY <1>2 DEF OrderData
  <2> QED
    BY <2>1, <2>2
<1>5. f.taking = 0 => TakerFee(b[f.order], f.taking) = 0
  <2> SUFFICES ASSUME f.taking = 0 PROVE TakerFee(b[f.order], 0) = 0
    OBVIOUS
  <2>1. 0 * b[f.order].fee = 0
    BY <1>4
  <2>2. DivCeil(0, BasisPoint) = 0
    BY <1>4, CeilingZero
  <2> QED
    BY <2>1, <2>2 DEF TakerFee
<1>6. Charge(b, f) = f.taking + TakerFee(b[f.order], f.taking)
  BY DEF Charge
<1> QED
  BY <1>1, <1>3, <1>5, <1>6

(* The last order of an exact input takes all but at most 1. *)
LEMMA LastCharge ==
    ASSUME NEW b \in Books, NEW o \in Orders, NEW left \in Int, NEW making \in Int
    PROVE  LET net == TakingAfterFee(b[o], left)
           IN  left - Charge(b, [order |-> o, taking |-> net, making |-> making]) \in {0, 1}
<1> DEFINE d == b[o]
           net == TakingAfterFee(d, left)
           f == [order |-> o, taking |-> net, making |-> making]
           fee == d.fee
<1>1. d \in OrderData
  BY BookFacts
<1>2. BasisPoint \in Nat \ {0} /\ fee \in 0..(BasisPoint - 1)
  BY <1>1, BookAssumption DEF OrderData
<1>3. net \in Int /\ TakerFee(d, net) \in Int
  BY <1>1, FeeTypes
<1>4. Charge(b, f) = net + TakerFee(d, net)
  BY DEF Charge
<1>5. CASE d.takerFee
  <2>1. net = (left * BasisPoint) \div (BasisPoint + fee)
    BY <1>5 DEF TakingAfterFee
  <2>2. TakerFee(d, net) = DivCeil(net * fee, BasisPoint)
    BY <1>5 DEF TakerFee
  <2> HIDE DEF net, fee, d
  <2>3. left - net - DivCeil(net * fee, BasisPoint) \in {0, 1}
    BY <1>2, <2>1, FeeRounding
  <2>4. left - net - TakerFee(d, net) = left - (net + TakerFee(d, net))
    BY <1>3
  <2> QED
    BY <1>4, <2>2, <2>3, <2>4 DEF net, d
<1>6. CASE ~ d.takerFee
  <2>1. net = left
    BY <1>6 DEF TakingAfterFee
  <2>2. TakerFee(d, net) = 0
    BY <1>6 DEF TakerFee
  <2>3. left - (net + 0) = 0
    <3> HIDE DEF net
    <3> QED
      BY <1>3, <2>1
  <2> QED
    BY <1>4, <2>2, <2>3
<1> QED
  BY <1>5, <1>6

LEMMA SpendOnIs ==
    ASSUME BookInv, NEW w \in Worlds, NEW o \in Orders, NEW acc \in AccData
    PROVE  \/ Keeps(acc, SpendOn(w, acc, o))
           \/ \E f \in FillData(Nat) : SpendOnAdds(w, acc, o, SpendOn(w, acc, o), f)
<1> DEFINE d == book[o]
           used == acc.used
           making == RemainingMaking(w, o, used)
           taking == RemainingTaking(w, o, making)
           net == TakingAfterFee(d, acc.left)
           part == (net * d.making) \div d.taking
           seen == [acc EXCEPT !.depth = @ + making]
           last == Fill(seen, o, net, part)
           whole == Fill(seen, o, taking, making)
           rest == whole.left - TakerFee(d, taking) - taking
           new == SpendOn(w, acc, o)
<1>1. /\ book \in Books /\ used \in [Makers -> Int] /\ acc.left \in Int /\ acc.depth \in Int
      /\ acc.done \in BOOLEAN
  BY DEF BookInv, TypeOK, AccData
<1>2. d \in OrderData
  BY <1>1, BookFacts
<1>3. d.making \in Nat \ {0} /\ d.taking \in Nat \ {0}
  BY <1>2 DEF OrderData
<1>4. making \in Int /\ taking \in Int
  BY <1>1, RemainingFacts
<1>5. net \in Int /\ TakerFee(d, taking) \in Int
  BY <1>1, <1>2, <1>4, FeeTypes
<1>6. new = IF making <= 0 \/ taking <= 0 THEN acc
            ELSE IF acc.done THEN Fallback(acc, o, making)
            ELSE IF net <= 0 THEN acc
            ELSE IF taking < net THEN [whole EXCEPT !.left = rest]
            ELSE IF part <= 0 THEN seen
            ELSE [last EXCEPT !.done = TRUE, !.aim = last.out]
  BY DEF SpendOn
<1>7. Keeps(acc, acc)
  BY DEF Keeps
<1>8. Keeps(acc, seen)
  <2>1. acc.depth + making \in Int
    BY <1>1, <1>4
  <2> HIDE DEF making
  <2> QED
    BY <2>1, DepthSet
<1>9. CASE acc.done /\ 0 < making /\ new = Fallback(acc, o, making)
  <2> DEFINE f == [order |-> o, taking |-> 0, making |-> 0]
  <2>1. f \in FillData(Nat) /\ f.order = o /\ f.taking = 0
    BY DEF FillData
  <2>2. \/ new = acc
        \/ Accepts(w, acc.used, f) /\ Adds(acc, new, f) /\ new.done
    BY <1>9, FallbackIs
  <2> HIDE DEF new, f
  <2> QED
    BY <1>7, <1>9, <2>1, <2>2 DEF SpendOnAdds, new
<1>10. CASE ~ acc.done /\ 0 < making /\ 0 < taking /\ new = [whole EXCEPT !.left = rest]
  <2> DEFINE f == [order |-> o, taking |-> taking, making |-> making]
  <2>1. f \in FillData(Nat) /\ f.order = o
    BY <1>4, <1>10 DEF FillData
  <2>2. Accepts(w, acc.used, f)
    BY <1>1, AcceptsWhole
  <2>3. seen \in AccData /\ seen.fills = acc.fills /\ seen.used = acc.used /\ seen.left = acc.left
           /\ (seen.done <=> acc.done)
    BY <1>8 DEF Keeps
  <2> HIDE DEF seen, making, taking, d
  <2>4. Adds(seen, whole, f) /\ whole.left = seen.left /\ whole.done = seen.done
    BY <1>1, <1>4, <2>3, FillIs
  <2> HIDE DEF whole
  <2>5. whole \in AccData
    BY <2>4 DEF Adds
  <2>6. rest \in Int
    BY <1>1, <1>4, <1>5, <2>3, <2>4
  <2> HIDE DEF rest, new
  <2>7. /\ new \in AccData /\ new.fills = whole.fills /\ new.used = whole.used
        /\ new.left = rest /\ new.done = whole.done
    <3>1. new = [whole EXCEPT !.left = rest]
      BY <1>10
    <3> QED
      BY <2>5, <2>6, <3>1, LeftSet
  <2>8. Adds(acc, new, f)
    BY <2>3, <2>4, <2>7 DEF Adds
  <2>9. ~ new.done
    BY <1>10, <2>3, <2>4, <2>7
  <2>10. new.left = acc.left - Charge(book, f)
    <3>1. f.taking = taking /\ f.order = o
      OBVIOUS
    <3> HIDE DEF f
    <3>2. Charge(book, f) = taking + TakerFee(d, taking)
      BY <3>1 DEF Charge, d
    <3> QED
      BY <1>1, <1>4, <1>5, <2>3, <2>4, <2>7, <3>2 DEF rest
  <2> HIDE DEF f
  <2> QED
    BY <1>10, <2>1, <2>2, <2>8, <2>9, <2>10 DEF SpendOnAdds, new
<1>11. CASE /\ ~ acc.done /\ 0 < net /\ ~ (taking < net) /\ 0 < part
            /\ new = [last EXCEPT !.done = TRUE, !.aim = last.out]
  <2> DEFINE f == [order |-> o, taking |-> net, making |-> part]
  <2>1. part \in Int
    <3>1. net * d.making \in Int
      BY <1>3, <1>5
    <3> QED
      BY <1>3, <3>1, Floor
  <2>2. f \in FillData(Nat) /\ f.order = o
    <3> HIDE DEF net, part
    <3> QED
      BY <1>5, <1>11, <2>1 DEF FillData
  <2>3. net <= taking
    <3> HIDE DEF net, taking
    <3> QED
      BY <1>4, <1>5, <1>11
  <2>4. Accepts(w, acc.used, f)
    BY <1>1, <1>5, <2>3, AcceptsPart
  <2>5. acc.left - Charge(book, f) \in {0, 1}
    BY <1>1, <2>1, LastCharge
  <2>6. seen \in AccData /\ seen.fills = acc.fills /\ seen.used = acc.used
    BY <1>8 DEF Keeps
  <2> HIDE DEF seen, net, part
  <2>7. Adds(seen, last, f) /\ last.out \in Int
    BY <1>1, <1>5, <2>1, <2>6, FillIs
  <2> HIDE DEF last
  <2>8. last \in AccData
    BY <2>7 DEF Adds
  <2>9. new \in AccData /\ new.fills = last.fills /\ new.used = last.used /\ new.done
    <3> HIDE DEF new
    <3>1. new = [last EXCEPT !.done = TRUE, !.aim = last.out]
      BY <1>11
    <3> QED
      BY <2>7, <2>8, <3>1, DoneSet
  <2> HIDE DEF new, f
  <2>10. Adds(acc, new, f)
    BY <2>6, <2>7, <2>9 DEF Adds
  <2> QED
    BY <1>11, <2>2, <2>4, <2>5, <2>9, <2>10 DEF SpendOnAdds, new
<1>12. CASE new = acc \/ new = seen
  <2> HIDE DEF new, seen
  <2> QED
    BY <1>7, <1>8, <1>12 DEF new
<1>13. part \in Int
  <2>1. net * d.making \in Int
    BY <1>3, <1>5
  <2> QED
    BY <1>3, <2>1, Floor
<1> HIDE DEF new, making, taking, net, part, seen, last, whole, rest
<1> QED
  BY <1>4, <1>5, <1>6, <1>9, <1>10, <1>11, <1>12, <1>13 DEF new

LEMMA TakeFromIs ==
    ASSUME BookInv, NEW w \in Worlds, NEW o \in Orders, NEW acc \in AccData
    PROVE  \/ Keeps(acc, TakeFrom(w, acc, o))
           \/ \E f \in FillData(Int) :
                 f.order = o /\ Accepts(w, acc.used, f) /\ Adds(acc, TakeFrom(w, acc, o), f)
<1> DEFINE d == book[o]
           used == acc.used
           making == RemainingMaking(w, o, used)
           taking == RemainingTaking(w, o, making)
           gross == MakingBeforeFee(d, acc.left)
           price == DivCeil(gross * d.taking, d.making)
           seen == [acc EXCEPT !.depth = @ + making]
           whole == Fill(seen, o, taking, making)
           part == Fill(seen, o, price, gross)
           rest == whole.left - making
           new == TakeFrom(w, acc, o)
<1>1. /\ book \in Books /\ used \in [Makers -> Int] /\ acc.left \in Int /\ acc.depth \in Int
  BY DEF BookInv, TypeOK, AccData
<1>2. d \in OrderData
  BY <1>1, BookFacts
<1>3. making \in Int /\ taking \in Int
  BY <1>1, RemainingFacts
<1>4. gross \in Int
  BY <1>1, <1>2, FeeTypes
<1>5. new = IF making <= 0 \/ taking <= 0 THEN acc
            ELSE IF acc.done THEN Fallback(acc, o, making)
            ELSE IF making < gross THEN [whole EXCEPT !.left = rest]
            ELSE IF price = 0 THEN seen
            ELSE [part EXCEPT !.done = TRUE, !.aim = gross]
  BY DEF TakeFrom
<1>6. Keeps(acc, acc)
  BY DEF Keeps
<1>7. Keeps(acc, seen)
  <2>1. acc.depth + making \in Int
    BY <1>1, <1>3
  <2> HIDE DEF making
  <2> QED
    BY <2>1, DepthSet
<1>8. seen \in AccData /\ seen.fills = acc.fills /\ seen.used = acc.used /\ seen.left = acc.left
  BY <1>7 DEF Keeps
<1>9. CASE acc.done /\ 0 < making /\ new = Fallback(acc, o, making)
  <2> DEFINE f == [order |-> o, taking |-> 0, making |-> 0]
  <2>1. f \in FillData(Int) /\ f.order = o
    BY DEF FillData
  <2>2. \/ new = acc
        \/ Accepts(w, acc.used, f) /\ Adds(acc, new, f) /\ new.done
    BY <1>9, FallbackIs
  <2> HIDE DEF new, f
  <2> QED
    BY <1>6, <2>1, <2>2 DEF new
<1>10. CASE new = [whole EXCEPT !.left = rest]
  <2> DEFINE f == [order |-> o, taking |-> taking, making |-> making]
  <2>1. f \in FillData(Int) /\ f.order = o
    BY <1>3 DEF FillData
  <2>2. Accepts(w, acc.used, f)
    BY <1>1, AcceptsWhole
  <2> HIDE DEF seen, making, taking, d
  <2>3. Adds(seen, whole, f) /\ whole.left = seen.left
    BY <1>1, <1>3, <1>8, FillIs
  <2> HIDE DEF whole
  <2>4. whole \in AccData
    BY <2>3 DEF Adds
  <2>5. rest \in Int
    BY <1>1, <1>3, <1>8, <2>3
  <2> HIDE DEF rest, new, f
  <2>6. new \in AccData /\ new.fills = whole.fills /\ new.used = whole.used
    BY <1>10, <2>4, <2>5, LeftSet
  <2>7. Adds(acc, new, f)
    BY <1>8, <2>3, <2>6 DEF Adds
  <2> QED
    BY <2>1, <2>2, <2>7 DEF new
<1>11. CASE ~ (making < gross) /\ new = [part EXCEPT !.done = TRUE, !.aim = gross]
  <2> DEFINE f == [order |-> o, taking |-> price, making |-> gross]
  <2>1. gross <= making
    <3> HIDE DEF gross, making
    <3> QED
      BY <1>3, <1>4, <1>11
  <2>2. price \in Int /\ Accepts(w, acc.used, f)
    <3> HIDE DEF gross
    <3> QED
      BY <1>1, <1>4, <2>1, AcceptsPriced
  <2>3. f \in FillData(Int) /\ f.order = o
    <3> HIDE DEF gross, price
    <3> QED
      BY <1>4, <2>2 DEF FillData
  <2> HIDE DEF seen, gross, price
  <2>4. Adds(seen, part, f)
    BY <1>1, <1>4, <1>8, <2>2, FillIs
  <2> HIDE DEF part
  <2>5. part \in AccData
    BY <2>4 DEF Adds
  <2> HIDE DEF new, f
  <2>6. new \in AccData /\ new.fills = part.fills /\ new.used = part.used
    BY <1>4, <1>11, <2>5, DoneSet
  <2>7. Adds(acc, new, f)
    BY <1>8, <2>4, <2>6 DEF Adds
  <2> QED
    BY <2>2, <2>3, <2>7 DEF new
<1>12. CASE new = acc \/ new = seen
  <2> HIDE DEF new, seen
  <2> QED
    BY <1>6, <1>7, <1>12 DEF new
<1> HIDE DEF new, making, taking, gross, price, seen, part, whole, rest
<1> QED
  BY <1>3, <1>4, <1>5, <1>9, <1>10, <1>11, <1>12

-----------------------------------------------------------------------------
(* A whole quote *)

LEMMA AppendIs ==
    ASSUME NEW T, NEW seq \in Seq(T), NEW e \in T
    PROVE  /\ Append(seq, e) \in Seq(T)
           /\ Len(seq) \in Nat /\ Len(Append(seq, e)) = Len(seq) + 1
           /\ \A j \in 1..Len(seq) : Append(seq, e)[j] = seq[j]
           /\ Append(seq, e)[Len(seq) + 1] = e
OBVIOUS

LEMMA DrawnAppend ==
    ASSUME NEW b, NEW fills \in Seq(FillData(Int)), NEW f \in FillData(Int),
           NEW i \in 0..Len(fills), NEW m
    PROVE  Drawn(b, Append(fills, f), i, m) = Drawn(b, fills, i, m)
<1> DEFINE more == Append(fills, f)
           n == Len(fills)
           F == [j \in 1..n |-> IF b[fills[j].order].maker = m THEN fills[j].making ELSE 0]
           G == [j \in 1..Len(more) |-> IF b[more[j].order].maker = m THEN more[j].making ELSE 0]
<1>1. /\ n \in Nat /\ Len(more) = n + 1 /\ \A j \in 1..n : more[j] = fills[j]
      /\ \A j \in 1..n : fills[j] \in FillData(Int)
  BY AppendIs
<1>2. \A j \in 1..n : fills[j].making \in Int
  BY <1>1 DEF FillData
<1>3. i \in Nat /\ \A j \in 1..i : j \in 1..n /\ j \in 1..Len(more)
  BY <1>1
<1> HIDE DEF more, n
<1>4. \A j \in 1..i : F[j] \in Int
  BY <1>2, <1>3
<1>5. \A j \in 1..i : G[j] = F[j]
  BY <1>1, <1>3
<1>6. Sum(G, i) = Sum(F, i)
  <2> HIDE DEF F, G
  <2> QED
    BY <1>3, <1>4, <1>5, SumSame
<1> QED
  BY <1>6 DEF Drawn, more, n

LEMMA SpentAppend ==
    ASSUME NEW b \in Books, NEW fills \in Seq(FillData(Int)), NEW f \in FillData(Int)
    PROVE  /\ Spent(b, fills) \in Int
           /\ Spent(b, Append(fills, f)) = Spent(b, fills) + Charge(b, f)
<1> DEFINE more == Append(fills, f)
           n == Len(fills)
           F == [j \in 1..n |-> Charge(b, fills[j])]
           G == [j \in 1..Len(more) |-> Charge(b, more[j])]
<1>1. /\ n \in Nat /\ Len(more) = n + 1 /\ \A j \in 1..n : more[j] = fills[j]
      /\ more[n + 1] = f
      /\ \A j \in 1..n : fills[j] \in FillData(Int)
  BY AppendIs
<1>2. \A j \in 1..n : Charge(b, fills[j]) \in Int
  BY <1>1, ChargeFacts
<1>3. Charge(b, f) \in Int
  BY ChargeFacts
<1> HIDE DEF more, n
<1>4. \A j \in 1..n : F[j] \in Int /\ G[j] = F[j]
  BY <1>1, <1>2
<1>5. G[n + 1] = Charge(b, f) /\ (n + 1) - 1 = n /\ n + 1 \in Nat \ {0}
  BY <1>1
<1> HIDE DEF F, G
<1>6. \A j \in 1..(n + 1) : G[j] \in Int
  <2> TAKE j \in 1..(n + 1)
  <2>1. j \in 1..n \/ j = n + 1
    BY <1>1
  <2>2. CASE j \in 1..n
    BY <1>4, <2>2, Zenon
  <2>3. CASE j = n + 1
    BY <1>3, <1>5, <2>3, Zenon
  <2> QED
    BY <2>1, <2>2, <2>3
<1>7. Sum(G, n + 1) = Sum(G, n) + Charge(b, f)
  <2>1. Sum(G, n + 1) = Sum(G, (n + 1) - 1) + G[n + 1]
    BY <1>5, <1>6, SumNext
  <2> QED
    BY <1>5, <2>1
<1>8. Sum(G, n) = Sum(F, n) /\ Sum(F, n) \in Int
  BY <1>1, <1>4, SumSame, SumInt
<1>9. Spent(b, fills) = Sum(F, n)
  BY DEF Spent, F, n
<1>10. Spent(b, more) = Sum(G, n + 1)
  BY <1>1 DEF Spent, G
<1> QED
  BY <1>7, <1>8, <1>9, <1>10 DEF more

LEMMA SpentNothing ==
    ASSUME NEW b
    PROVE  Spent(b, << >>) = 0
<1> DEFINE F == [j \in 1..Len(<< >>) |-> Charge(b, << >>[j])]
<1>1. Spent(b, << >>) = Sum(F, Len(<< >>))
  BY DEF Spent
<1>2. Len(<< >>) = 0
  OBVIOUS
<1> HIDE DEF F
<1> QED
  BY <1>1, <1>2, SumZero

(* The accumulator after rank i. *)
QuotedOK(w, in, out, acc, i) ==
    /\ acc \in AccData
    /\ QuoteOK(book, copies[w], limit[w], acc.fills)
    /\ \A j \in 1..Len(acc.fills) :
          /\ acc.fills[j].order \in Listed(w, in, out)
          /\ \E r \in 1..i : Ranking[r] = acc.fills[j].order
    /\ \A m \in Makers : acc.used[m] = Drawn(book, acc.fills, Len(acc.fills), m)

LEMMA QuotedStart ==
    ASSUME BookInv, NEW w \in Worlds, NEW in, NEW out, NEW amount \in Int
    PROVE  QuotedOK(w, in, out, Start(amount), 0)
<1> DEFINE acc == Start(amount)
<1>1. /\ acc.fills = << >> /\ acc.left = amount /\ acc.depth = 0 /\ acc.done = FALSE
      /\ acc.used = [m \in Makers |-> 0]
  BY DEF Start
<1>2. acc \in AccData
  BY DEF Start, AccData
<1>3. << >> \in Seq(FillData(Int)) /\ Len(<< >>) = 0 /\ \A j \in 1..Len(<< >>) : FALSE
  OBVIOUS
<1> HIDE DEF acc
<1>4. QuoteOK(book, copies[w], limit[w], << >>)
  BY <1>3 DEF QuoteOK
<1>5. \A m \in Makers : acc.used[m] = Drawn(book, << >>, 0, m)
  <2> DEFINE none == << >>
  <2>1. none \in Seq(FillData(Int))
    BY <1>3
  <2> HIDE DEF none
  <2>2. \A m : Drawn(book, none, 0, m) = 0
    <3>1. \A m : AddsUp(book, none, m)
      BY <2>1, DrawnFacts, Zenon
    <3> QED
      BY <3>1, Zenon DEF AddsUp
  <2> QED
    BY <1>1, <2>2 DEF none
<1> QED
  BY <1>1, <1>2, <1>3, <1>4, <1>5 DEF QuotedOK, acc

LEMMA QuotedKeeps ==
    ASSUME NEW w, NEW in, NEW out, NEW i \in 1..Len(Ranking), NEW acc, NEW new,
           QuotedOK(w, in, out, acc, i - 1),
           new \in AccData, new.fills = acc.fills, new.used = acc.used
    PROVE  QuotedOK(w, in, out, new, i)
<1>1. \A r \in 1..(i - 1) : r \in 1..i
  OBVIOUS
<1> QED
  BY <1>1 DEF QuotedOK

LEMMA QuotedAdds ==
    ASSUME BookInv, NEW w \in Worlds, NEW in, NEW out, NEW i \in 1..Len(Ranking),
           NEW acc, QuotedOK(w, in, out, acc, i - 1),
           NEW f \in FillData(Int), f.order = Ranking[i], f.order \in Listed(w, in, out),
           Accepts(w, acc.used, f), NEW new, Adds(acc, new, f)
    PROVE  QuotedOK(w, in, out, new, i)
<1> DEFINE fills == acc.fills
           more == new.fills
           n == Len(fills)
           maker(j) == book[more[j].order].maker
<1>1. book \in Books
  BY DEF BookInv, TypeOK
<1>2. /\ acc \in AccData
      /\ QuoteOK(book, copies[w], limit[w], fills)
      /\ \A j \in 1..n : /\ fills[j].order \in Listed(w, in, out)
                         /\ \E r \in 1..(i - 1) : Ranking[r] = fills[j].order
      /\ \A m \in Makers : acc.used[m] = Drawn(book, fills, n, m)
  BY DEF QuotedOK
<1>3. fills \in Seq(FillData(Int)) /\ acc.used \in [Makers -> Int]
  BY <1>2 DEF AccData
<1>4. more = Append(fills, f) /\ new \in AccData
  BY DEF Adds
<1>5. /\ more \in Seq(FillData(Int))
      /\ n \in Nat /\ Len(more) = n + 1
      /\ \A j \in 1..n : more[j] = fills[j]
      /\ more[n + 1] = f
  BY <1>3, <1>4, AppendIs
<1>6. f.order \in Orders /\ f.making \in Int /\ book[f.order].maker \in Makers
  <2>1. f.order \in Orders /\ f.making \in Int
    BY DEF FillData
  <2>2. book[f.order] \in OrderData
    BY <1>1, <2>1, BookFacts
  <2> QED
    BY <2>1, <2>2 DEF OrderData
<1>7. \A j \in 1..(n + 1) : j \in 1..n \/ j = n + 1
  BY <1>5
<1>8. \A j \in 1..(n + 1) : \A m : Drawn(book, more, j - 1, m) = Drawn(book, fills, j - 1, m)
  <2> TAKE j \in 1..(n + 1)
  <2> TAKE m
  <2>1. j - 1 \in 0..n
    BY <1>5
  <2> QED
    BY <1>3, <1>4, <2>1, DrawnAppend
<1>9. \A j \in 1..n : fills[j].order # f.order
  <2> SUFFICES ASSUME NEW j \in 1..n, fills[j].order = f.order PROVE FALSE
    OBVIOUS
  <2>1. PICK r \in 1..(i - 1) : Ranking[r] = fills[j].order
    BY <1>2
  <2>2. r \in 1..Len(Ranking) /\ r # i
    <3>1. Len(Ranking) \in Nat
      BY BookAssumption
    <3> QED
      BY <3>1
  <2>3. Ranking[r] = Ranking[i]
    BY <2>1
  <2> QED
    BY <2>2, <2>3, BookAssumption
<1>10. \A j \in 1..(n + 1) :
          /\ more[j].order \in Listed(w, in, out)
          /\ \E r \in 1..i : Ranking[r] = more[j].order
  <2>1. ASSUME NEW j \in 1..n
        PROVE  /\ more[j].order \in Listed(w, in, out)
               /\ \E r \in 1..i : Ranking[r] = more[j].order
    <3>1. PICK r \in 1..(i - 1) : Ranking[r] = fills[j].order
      BY <1>2
    <3>2. r \in 1..i
      OBVIOUS
    <3> QED
      BY <1>2, <1>5, <3>1, <3>2
  <2>2. /\ more[n + 1].order \in Listed(w, in, out)
        /\ \E r \in 1..i : Ranking[r] = more[n + 1].order
    <3>1. i \in 1..i
      OBVIOUS
    <3> QED
      BY <1>5, <3>1
  <2> HIDE DEF more, n
  <2> QED
    BY <1>7, <2>1, <2>2
<1>11. QuoteOK(book, copies[w], limit[w], more)
  <2>1. ASSUME NEW j \in 1..Len(more), NEW k \in 1..Len(more)
        PROVE  /\ more[j].order = more[k].order => j = k
               /\ book[more[j].order].give = book[more[k].order].give
               /\ book[more[j].order].get = book[more[k].order].get
    <3>1. j \in 1..(n + 1) /\ k \in 1..(n + 1)
      BY <1>5
    <3>2. more[j].order = more[k].order => j = k
      <4>1. (j \in 1..n \/ j = n + 1) /\ (k \in 1..n \/ k = n + 1)
        BY <1>7, <3>1
      <4>2. CASE j \in 1..n /\ k \in 1..n
        <5>1. fills[j].order = fills[k].order => j = k
          BY <1>2, <4>2 DEF QuoteOK
        <5>2. more[j] = fills[j] /\ more[k] = fills[k]
          BY <1>5, <4>2
        <5> HIDE DEF more, fills
        <5> QED
          BY <5>1, <5>2
      <4>3. CASE j = n + 1 /\ k \in 1..n
        BY <1>5, <1>9, <4>3
      <4>4. CASE j \in 1..n /\ k = n + 1
        BY <1>5, <1>9, <4>4
      <4> HIDE DEF more, n
      <4> QED
        BY <4>1, <4>2, <4>3, <4>4
    <3>3. more[j].order \in Listed(w, in, out) /\ more[k].order \in Listed(w, in, out)
      BY <1>10, <3>1
    <3> QED
      BY <3>2, <3>3 DEF Listed
  <2>2. ASSUME NEW j \in 1..Len(more)
        PROVE  LET o == more[j].order
               IN  /\ Fits(copies[w][o], book[o], more[j])
                   /\ limit[w] # None /\ Tracked(book, book[o].maker) =>
                         more[j].making + Drawn(book, more, j - 1, book[o].maker)
                            <= limit[w][GiveKey(book[o])]
    <3>1. j \in 1..(n + 1)
      BY <1>5
    <3>2. \A m : Drawn(book, more, j - 1, m) = Drawn(book, fills, j - 1, m)
      BY <1>8, <3>1
    <3>3. CASE j \in 1..n
      <4>1. more[j] = fills[j]
        BY <1>5, <3>3
      <4> HIDE DEF more
      <4> QED
        BY <1>2, <3>2, <3>3, <4>1 DEF QuoteOK
    <3>4. CASE j = n + 1
      <4>1. more[j] = f /\ j - 1 = n
        BY <1>5, <3>4
      <4>2. acc.used[book[f.order].maker] = Drawn(book, more, j - 1, book[f.order].maker)
        BY <1>2, <1>6, <3>2, <4>1
      <4>3. /\ Fits(copies[w][f.order], book[f.order], f)
            /\ limit[w] # None /\ Tracked(book, book[f.order].maker) =>
                  f.making + acc.used[book[f.order].maker] <= limit[w][GiveKey(book[f.order])]
        BY DEF Accepts
      <4> HIDE DEF more
      <4> QED
        BY <4>1, <4>2, <4>3
    <3> QED
      BY <1>7, <3>1, <3>3, <3>4
  <2> HIDE DEF more
  <2> QED
    BY <1>5, <2>1, <2>2 DEF QuoteOK
<1>12. ASSUME NEW m \in Makers
       PROVE  new.used[m] = Drawn(book, more, Len(more), m)
  <2> DEFINE k == n + 1
             x == IF book[f.order].maker = m THEN f.making ELSE 0
  <2>1. k \in 1..Len(more) /\ k \in 1..(n + 1) /\ k = Len(more) /\ k - 1 = n
    BY <1>5
  <2>2. Drawn(book, more, k, m) = Drawn(book, more, k - 1, m) + x
    <3>1. more[k] = f
      BY <1>5
    <3>2. Drawn(book, more, k, m) = Drawn(book, more, k - 1, m)
             + (IF book[more[k].order].maker = m THEN more[k].making ELSE 0)
      <4>1. \A q \in 1..Len(more) :
               Drawn(book, more, q, m) = Drawn(book, more, q - 1, m)
                  + (IF book[more[q].order].maker = m THEN more[q].making ELSE 0)
        <5>1. more \in Seq(FillData(Int))
          BY <1>5
        <5> HIDE DEF more
        <5>2. AddsUp(book, more, m)
          BY <5>1, DrawnFacts, Zenon
        <5> QED
          BY <5>2, Zenon DEF AddsUp
      <4> HIDE DEF more, k
      <4> QED
        BY <2>1, <4>1
    <3> QED
      BY <3>1, <3>2
  <2>3. Drawn(book, more, k - 1, m) = acc.used[m]
    BY <1>2, <1>8, <2>1
  <2>4. new.used[m] = acc.used[m] + x
    <3>1. new.used = [acc.used EXCEPT ![book[f.order].maker] = @ + f.making]
      BY DEF Adds
    <3>2. acc.used[m] \in Int
      BY <1>3
    <3> QED
      BY <1>3, <1>6, <3>1, <3>2
  <2> QED
    BY <2>1, <2>2, <2>3, <2>4
<1> QED
  BY <1>4, <1>5, <1>10, <1>11, <1>12 DEF QuotedOK

LEMMA SpendingIs ==
    ASSUME BookInv, NEW w \in Worlds, NEW in, NEW out, NEW amount \in Int
    PROVE  LET acc == Spending(w, in, out, amount)
           IN  /\ acc[0] = Start(amount)
               /\ \A i \in 1..Len(Ranking) :
                     acc[i] = IF Ranking[i] \in Listed(w, in, out)
                              THEN SpendOn(w, acc[i - 1], Ranking[i]) ELSE acc[i - 1]
<1> DEFINE n == Len(Ranking)
           L == Listed(w, in, out)
           base == Start(amount)
           Eq(g) == g = [i \in 0..n |->
                           IF i = 0 THEN base
                           ELSE IF Ranking[i] \in L THEN SpendOn(w, g[i - 1], Ranking[i])
                           ELSE g[i - 1]]
           acc == Spending(w, in, out, amount)
<1>1. n \in Nat /\ \A i \in 1..n : Ranking[i] \in Orders
  BY BookAssumption
<1>2. base \in AccData
  BY QuotedStart DEF QuotedOK
<1>3. \A o \in Orders, a \in AccData : SpendOn(w, a, o) \in AccData
  BY SpendOnIs DEF Keeps, Adds, SpendOnAdds
<1>4. PICK step \in Steps(n, AccData) :
         \A i \in 1..n, a \in AccData :
            step[i][a] = IF Ranking[i] \in L THEN SpendOn(w, a, Ranking[i]) ELSE a
  <2> DEFINE t == [i \in 1..n |-> [a \in AccData |->
                     IF Ranking[i] \in L THEN SpendOn(w, a, Ranking[i]) ELSE a]]
  <2>1. \A i \in 1..n, a \in AccData :
           (IF Ranking[i] \in L THEN SpendOn(w, a, Ranking[i]) ELSE a) \in AccData
    BY <1>1, <1>3
  <2>2. /\ t \in Steps(n, AccData)
        /\ \A i \in 1..n, a \in AccData :
              t[i][a] = IF Ranking[i] \in L THEN SpendOn(w, a, Ranking[i]) ELSE a
    BY <2>1 DEF Steps
  <2> HIDE DEF t
  <2> QED
    BY <2>2
<1> HIDE DEF base, n, L
<1>5. PICK g : Iterates(g, n, AccData, base, step)
  BY <1>1, <1>2, Iteration, Zenon
<1>6. Eq(g)
  <2>1. \A i \in 1..n : g[i - 1] \in AccData
    BY <1>1, <1>5 DEF Iterates
  <2>2. \A i \in 1..n :
           g[i] = IF Ranking[i] \in L THEN SpendOn(w, g[i - 1], Ranking[i]) ELSE g[i - 1]
    BY <1>4, <1>5, <2>1 DEF Iterates
  <2> QED
    BY <1>1, <1>5, <2>2 DEF Iterates
<1>7. Eq(acc)
  <2>1. acc = CHOOSE h : Eq(h)
    BY DEF Spending, n, base, L
  <2> HIDE DEF Eq
  <2> QED
    BY <1>6, <2>1
<1> HIDE DEF acc
<1>8. acc[0] = base
  <2>1. 0 \in 0..n
    BY <1>1
  <2> QED
    BY <1>7, <2>1
<1>9. ASSUME NEW i \in 1..n
      PROVE  acc[i] = IF Ranking[i] \in L THEN SpendOn(w, acc[i - 1], Ranking[i]) ELSE acc[i - 1]
  <2>1. i \in 0..n /\ i # 0
    BY <1>1
  <2> QED
    BY <1>7, <2>1
<1> QED
  BY <1>8, <1>9 DEF acc, n, base, L

LEMMA TakingIs ==
    ASSUME BookInv, NEW w \in Worlds, NEW in, NEW out, NEW amount \in Int
    PROVE  LET acc == Taking(w, in, out, amount)
           IN  /\ acc[0] = Start(amount)
               /\ \A i \in 1..Len(Ranking) :
                     acc[i] = IF Ranking[i] \in Listed(w, in, out)
                              THEN TakeFrom(w, acc[i - 1], Ranking[i]) ELSE acc[i - 1]
<1> DEFINE n == Len(Ranking)
           L == Listed(w, in, out)
           base == Start(amount)
           Eq(g) == g = [i \in 0..n |->
                           IF i = 0 THEN base
                           ELSE IF Ranking[i] \in L THEN TakeFrom(w, g[i - 1], Ranking[i])
                           ELSE g[i - 1]]
           acc == Taking(w, in, out, amount)
<1>1. n \in Nat /\ \A i \in 1..n : Ranking[i] \in Orders
  BY BookAssumption
<1>2. base \in AccData
  BY QuotedStart DEF QuotedOK
<1>3. \A o \in Orders, a \in AccData : TakeFrom(w, a, o) \in AccData
  BY TakeFromIs DEF Keeps, Adds
<1>4. PICK step \in Steps(n, AccData) :
         \A i \in 1..n, a \in AccData :
            step[i][a] = IF Ranking[i] \in L THEN TakeFrom(w, a, Ranking[i]) ELSE a
  <2> DEFINE t == [i \in 1..n |-> [a \in AccData |->
                     IF Ranking[i] \in L THEN TakeFrom(w, a, Ranking[i]) ELSE a]]
  <2>1. \A i \in 1..n, a \in AccData :
           (IF Ranking[i] \in L THEN TakeFrom(w, a, Ranking[i]) ELSE a) \in AccData
    BY <1>1, <1>3
  <2>2. /\ t \in Steps(n, AccData)
        /\ \A i \in 1..n, a \in AccData :
              t[i][a] = IF Ranking[i] \in L THEN TakeFrom(w, a, Ranking[i]) ELSE a
    BY <2>1 DEF Steps
  <2> HIDE DEF t
  <2> QED
    BY <2>2
<1> HIDE DEF base, n, L
<1>5. PICK g : Iterates(g, n, AccData, base, step)
  BY <1>1, <1>2, Iteration, Zenon
<1>6. Eq(g)
  <2>1. \A i \in 1..n : g[i - 1] \in AccData
    BY <1>1, <1>5 DEF Iterates
  <2>2. \A i \in 1..n :
           g[i] = IF Ranking[i] \in L THEN TakeFrom(w, g[i - 1], Ranking[i]) ELSE g[i - 1]
    BY <1>4, <1>5, <2>1 DEF Iterates
  <2> QED
    BY <1>1, <1>5, <2>2 DEF Iterates
<1>7. Eq(acc)
  <2>1. acc = CHOOSE h : Eq(h)
    BY DEF Taking, n, base, L
  <2> HIDE DEF Eq
  <2> QED
    BY <1>6, <2>1
<1> HIDE DEF acc
<1>8. acc[0] = base
  <2>1. 0 \in 0..n
    BY <1>1
  <2> QED
    BY <1>7, <2>1
<1>9. ASSUME NEW i \in 1..n
      PROVE  acc[i] = IF Ranking[i] \in L THEN TakeFrom(w, acc[i - 1], Ranking[i]) ELSE acc[i - 1]
  <2>1. i \in 0..n /\ i # 0
    BY <1>1
  <2> QED
    BY <1>7, <2>1
<1> QED
  BY <1>8, <1>9 DEF acc, n, base, L

(* What an exact input still has to spend. *)
SpentSoFar(acc, amount) ==
    /\ acc.fills \in Seq(FillData(Nat))
    /\ acc.done => amount - Spent(book, acc.fills) \in {0, 1}
    /\ ~ acc.done => acc.left = amount - Spent(book, acc.fills)

LEMMA SpentStep ==
    ASSUME book \in Books, NEW w, NEW o, NEW amount \in Int, NEW acc \in AccData, NEW new,
           SpentSoFar(acc, amount),
           \/ Keeps(acc, new)
           \/ \E f \in FillData(Nat) : SpendOnAdds(w, acc, o, new, f)
    PROVE  SpentSoFar(new, amount)
<1>1. CASE Keeps(acc, new)
  BY <1>1 DEF Keeps, SpentSoFar
<1>2. ASSUME NEW f \in FillData(Nat), SpendOnAdds(w, acc, o, new, f)
      PROVE  SpentSoFar(new, amount)
  <2> DEFINE x == Spent(book, acc.fills)
             y == Spent(book, new.fills)
             c == Charge(book, f)
  <2>1. new.fills = Append(acc.fills, f)
    BY <1>2 DEF SpendOnAdds, Adds
  <2>2. acc.fills \in Seq(FillData(Nat)) /\ acc.fills \in Seq(FillData(Int))
    BY DEF SpentSoFar, AccData
  <2>3. new.fills \in Seq(FillData(Nat))
    BY <2>1, <2>2, AppendIs
  <2>4. f \in FillData(Int)
    BY DEF FillData
  <2>5. x \in Int /\ y = x + c
    BY <2>1, <2>2, <2>4, SpentAppend
  <2>6. c \in Int /\ (f.taking = 0 => c = 0)
    BY <2>4, ChargeFacts
  <2>7. CASE acc.done /\ new.done /\ f.taking = 0
    <3>1. amount - x \in {0, 1}
      BY <2>7 DEF SpentSoFar
    <3>2. y = x
      <4> HIDE DEF x, y, c
      <4> QED
        BY <2>5, <2>6, <2>7
    <3> QED
      BY <2>3, <2>7, <3>1, <3>2 DEF SpentSoFar
  <2>8. CASE ~ acc.done /\ ~ new.done /\ new.left = acc.left - c
    <3>1. acc.left = amount - x
      BY <2>8 DEF SpentSoFar
    <3>2. new.left = amount - y
      <4> HIDE DEF x, y, c
      <4> QED
        BY <2>5, <2>6, <2>8, <3>1
    <3> QED
      BY <2>3, <2>8, <3>2 DEF SpentSoFar
  <2>9. CASE ~ acc.done /\ new.done /\ acc.left - c \in {0, 1}
    <3>1. acc.left = amount - x
      BY <2>9 DEF SpentSoFar
    <3>2. amount - y \in {0, 1}
      <4> HIDE DEF x, y, c
      <4>1. amount - y = acc.left - c
        BY <2>5, <2>6, <3>1
      <4> QED
        BY <2>9, <4>1
    <3> QED
      BY <2>3, <2>9, <3>2 DEF SpentSoFar
  <2> HIDE DEF c
  <2> QED
    BY <1>2, <2>7, <2>8, <2>9 DEF SpendOnAdds, c
<1> QED
  BY <1>1, <1>2

LEMMA SpendingOK ==
    ASSUME BookInv, NEW w \in Worlds, NEW in, NEW out, NEW amount \in Nat
    PROVE  LET end == Spending(w, in, out, amount)[Len(Ranking)]
           IN  QuotedOK(w, in, out, end, Len(Ranking)) /\ SpentSoFar(end, amount)
<1> DEFINE n == Len(Ranking)
           acc == Spending(w, in, out, amount)
           OK(i) == QuotedOK(w, in, out, acc[i], i) /\ SpentSoFar(acc[i], amount)
           S == {i \in 0..n : OK(i)}
<1>1. n \in Nat /\ \A i \in 1..n : Ranking[i] \in Orders
  BY BookAssumption
<1>2. amount \in Int /\ book \in Books
  BY DEF BookInv, TypeOK
<1>3. /\ acc[0] = Start(amount)
      /\ \A i \in 1..n : acc[i] = IF Ranking[i] \in Listed(w, in, out)
                                  THEN SpendOn(w, acc[i - 1], Ranking[i]) ELSE acc[i - 1]
  BY <1>2, SpendingIs
<1> HIDE DEF acc
<1>4. OK(0)
  <2>1. QuotedOK(w, in, out, acc[0], 0)
    BY <1>2, <1>3, QuotedStart
  <2>2. acc[0].fills = << >> /\ acc[0].left = amount /\ acc[0].done = FALSE
    BY <1>3 DEF Start
  <2>3. << >> \in Seq(FillData(Nat)) /\ amount - 0 = amount
    BY <1>2
  <2>4. Spent(book, << >>) = 0
    BY SpentNothing
  <2>5. SpentSoFar(acc[0], amount)
    BY <2>2, <2>3, <2>4 DEF SpentSoFar
  <2> QED
    BY <2>1, <2>5
<1>5. ASSUME NEW i \in 1..n, OK(i - 1) PROVE OK(i)
  <2> DEFINE old == acc[i - 1]
             new == acc[i]
             o == Ranking[i]
  <2>1. old \in AccData /\ o \in Orders
    BY <1>1, <1>5 DEF QuotedOK
  <2>2. CASE o \notin Listed(w, in, out)
    <3>1. new = old
      BY <1>3, <2>2
    <3>2. QuotedOK(w, in, out, new, i)
      <4> HIDE DEF new, old, n
      <4> QED
        BY <1>5, <2>1, <3>1, QuotedKeeps DEF old, n
    <3> QED
      BY <1>5, <3>1, <3>2
  <2>3. CASE o \in Listed(w, in, out)
    <3>1. new = SpendOn(w, old, o)
      BY <1>3, <2>3
    <3>2. \/ Keeps(old, new)
          \/ \E f \in FillData(Nat) : SpendOnAdds(w, old, o, new, f)
      BY <2>1, <3>1, SpendOnIs
    <3>3. QuotedOK(w, in, out, old, i - 1) /\ SpentSoFar(old, amount)
      BY <1>5
    <3>4. SpentSoFar(new, amount)
      <4> HIDE DEF new, old, o
      <4> QED
        BY <1>2, <2>1, <3>2, <3>3, SpentStep
    <3>5. CASE Keeps(old, new)
      <4>1. QuotedOK(w, in, out, new, i)
        <5> HIDE DEF new, old
        <5> QED
          BY <3>3, <3>5, QuotedKeeps DEF Keeps
      <4> QED
        BY <3>4, <4>1
    <3>6. ASSUME NEW f \in FillData(Nat), SpendOnAdds(w, old, o, new, f)
          PROVE  OK(i)
      <4>1. f \in FillData(Int)
        BY DEF FillData
      <4>2. f.order = o /\ Accepts(w, old.used, f) /\ Adds(old, new, f)
        BY <3>6 DEF SpendOnAdds
      <4>3. QuotedOK(w, in, out, new, i)
        <5> HIDE DEF new, old
        <5> QED
          BY <2>3, <3>3, <4>1, <4>2, QuotedAdds
      <4> QED
        BY <3>4, <4>3
    <3> HIDE DEF OK
    <3> QED
      BY <3>2, <3>5, <3>6
  <2> QED
    BY <2>2, <2>3
<1> HIDE DEF OK
<1>6. 0 \in S
  BY <1>1, <1>4
<1>7. ASSUME NEW i \in 1..n, i - 1 \in S PROVE i \in S
  <2>1. OK(i - 1) /\ i \in 0..n
    BY <1>1, <1>7
  <2> QED
    BY <1>5, <2>1
<1>8. \A i \in 0..n : i \in S
  <2> HIDE DEF S, n
  <2> QED
    BY <1>1, <1>6, <1>7, Induction
<1>9. n \in S
  BY <1>1, <1>8
<1> QED
  BY <1>9 DEF acc, OK

LEMMA TakingOK ==
    ASSUME BookInv, NEW w \in Worlds, NEW in, NEW out, NEW amount \in Nat
    PROVE  QuotedOK(w, in, out, Taking(w, in, out, amount)[Len(Ranking)], Len(Ranking))
<1> DEFINE n == Len(Ranking)
           acc == Taking(w, in, out, amount)
           OK(i) == QuotedOK(w, in, out, acc[i], i)
           S == {i \in 0..n : OK(i)}
<1>1. n \in Nat /\ \A i \in 1..n : Ranking[i] \in Orders
  BY BookAssumption
<1>2. amount \in Int
  OBVIOUS
<1>3. /\ acc[0] = Start(amount)
      /\ \A i \in 1..n : acc[i] = IF Ranking[i] \in Listed(w, in, out)
                                  THEN TakeFrom(w, acc[i - 1], Ranking[i]) ELSE acc[i - 1]
  BY <1>2, TakingIs
<1> HIDE DEF acc
<1>4. OK(0)
  BY <1>2, <1>3, QuotedStart
<1>5. ASSUME NEW i \in 1..n, OK(i - 1) PROVE OK(i)
  <2> DEFINE old == acc[i - 1]
             new == acc[i]
             o == Ranking[i]
  <2>1. old \in AccData /\ o \in Orders /\ QuotedOK(w, in, out, old, i - 1)
    BY <1>1, <1>5 DEF QuotedOK
  <2>2. CASE o \notin Listed(w, in, out)
    <3>1. new = old
      BY <1>3, <2>2
    <3> HIDE DEF new, old, n
    <3> QED
      BY <2>1, <3>1, QuotedKeeps DEF n, new
  <2>3. CASE o \in Listed(w, in, out)
    <3>1. new = TakeFrom(w, old, o)
      BY <1>3, <2>3
    <3>2. \/ Keeps(old, new)
          \/ \E f \in FillData(Int) : f.order = o /\ Accepts(w, old.used, f) /\ Adds(old, new, f)
      BY <2>1, <3>1, TakeFromIs
    <3>3. CASE Keeps(old, new)
      <4> HIDE DEF new, old
      <4> QED
        BY <2>1, <3>3, QuotedKeeps DEF Keeps, new
    <3>4. ASSUME NEW f \in FillData(Int), f.order = o, Accepts(w, old.used, f), Adds(old, new, f)
          PROVE  OK(i)
      <4> HIDE DEF new, old
      <4> QED
        BY <2>1, <2>3, <3>4, QuotedAdds DEF new
    <3> HIDE DEF OK
    <3> QED
      BY <3>2, <3>3, <3>4
  <2> QED
    BY <2>2, <2>3
<1> HIDE DEF OK
<1>6. 0 \in S
  BY <1>1, <1>4
<1>7. ASSUME NEW i \in 1..n, i - 1 \in S PROVE i \in S
  <2>1. OK(i - 1) /\ i \in 0..n
    BY <1>1, <1>7
  <2> QED
    BY <1>5, <2>1
<1>8. \A i \in 0..n : i \in S
  <2> HIDE DEF S, n
  <2> QED
    BY <1>1, <1>6, <1>7, Induction
<1>9. n \in S
  BY <1>1, <1>8
<1> QED
  BY <1>9 DEF acc, OK

-----------------------------------------------------------------------------
(* The invariant holds initially and is kept by every step. *)

LEMMA InitInv == Init => BookInv
<1> SUFFICES ASSUME Init PROVE BookInv
  OBVIOUS
<1>1. /\ book \in Books /\ Original \in Worlds /\ None \notin Int /\ MaxSwaps \in Nat
      /\ book \in [Orders -> OrderData]
  BY BookAssumption DEF Init
<1>2. PICK lim \in {None, CalculateLimit(book)} : limit = [w \in Worlds |-> lim]
  BY DEF Init
<1>3. CalculateLimit(book) \in [Keys -> Int \cup {None}]
  <2>1. \A o \in Orders : book[o].allowance \in Int \cup {None}
    BY <1>1 DEF OrderData
  <2> QED
    BY <2>1 DEF CalculateLimit
<1>4. ASSUME NEW w \in Worlds, NEW o \in Orders
      PROVE  /\ copies[w][o].taking = book[o].filledTaking
             /\ copies[w][o].making = book[o].filledMaking
             /\ copies[w][o].available = book[o].available
             /\ ledger[w][o].taking = 0 /\ ledger[w][o].making = 0
  <2>1. copies[w][o] = [taking |-> book[o].filledTaking, making |-> book[o].filledMaking,
                        available |-> book[o].available]
    BY DEF Init
  <2>2. ledger[w][o] = [taking |-> 0, making |-> 0]
    BY DEF Init, Unfilled
  <2> QED
    BY <2>1, <2>2
<1>5. \A o \in Orders : [taking |-> book[o].filledTaking, making |-> book[o].filledMaking,
                          available |-> book[o].available] \in OrderState
  BY <1>1 DEF OrderData, OrderState
<1>6. TypeOK
  <2>1. copies \in [Worlds -> [Orders -> OrderState]]
    BY <1>5 DEF Init
  <2>2. ledger \in [Worlds -> [Orders -> LedgerEntry]]
    BY DEF Init, Unfilled, LedgerEntry
  <2>3. DOMAIN limit = Worlds /\ \A w \in Worlds : limit[w] = None \/ limit[w] \in [Keys -> Int \cup {None}]
    BY <1>2, <1>3
  <2>4. owner \in [Worlds -> Worlds] /\ live \subseteq Worlds /\ swaps \in 0..MaxSwaps
    BY <1>1 DEF Init
  <2>5. DOMAIN quote = Worlds /\ \A w \in Worlds : quote[w] = None
    BY DEF Init
  <2> QED
    BY <1>1, <2>1, <2>2, <2>3, <2>4, <2>5, Zenon DEF TypeOK, OrderState, LedgerEntry
<1>7. \A w \in Worlds, o \in Orders : OrderOK(copies[w][o], ledger[w][o], book[o])
  <2> TAKE w \in Worlds, o \in Orders
  <2> DEFINE s == copies[w][o]
             l == ledger[w][o]
             d == book[o]
  <2>1. /\ s.taking = d.filledTaking /\ s.making = d.filledMaking
        /\ s.available = d.available
        /\ l.taking = 0 /\ l.making = 0
    BY <1>4
  <2>2. /\ d.available \in Nat \cup {None}
        /\ d.filledTaking \in Nat /\ d.filledMaking \in Nat
    BY <1>1 DEF OrderData
  <2>3. d.available = None => /\ d.filledMaking <= d.making
                              /\ d.filledMaking * d.taking <= d.filledTaking * d.making
    BY <1>1, BookAssumption
  <2> HIDE DEF s, l, d
  <2>4. s.taking = d.filledTaking + l.taking /\ s.making = d.filledMaking + l.making
    BY <2>1, <2>2
  <2>5. d.available # None => s.available # None /\ s.available = d.available - l.making
    BY <2>1, <2>2
  <2>6. OrderOK(s, l, d)
    BY <2>1, <2>3, <2>4, <2>5 DEF OrderOK
  <2> QED
    BY <2>6 DEF s, l, d
<1>8. \A w \in Worlds : LimitOK(book, limit[w], ledger[w])
  <2> SUFFICES ASSUME NEW w \in Worlds, limit[w] # None,
                      NEW k \in Keys, Tracked(book, k[1]), Giving(book, k) # {}
               PROVE  limit[w][k] = Balance(book, ledger[w], k)
    BY DEF LimitOK
  <2> DEFINE gave == [o \in Orders |-> ledger[w][o].making]
             took == [o \in Orders |-> ledger[w][o].taking]
  <2>1. limit[w] = CalculateLimit(book)
    BY <1>2
  <2>2. CalculateLimit(book)[k] \in Int
    BY <1>1, HeldInt
  <2>3. \A o \in Orders : gave[o] = 0 /\ took[o] = 0
    BY <1>4
  <2>4. ASSUME NEW f, NEW S, \A o \in Orders : f[o] = 0 PROVE Total(f, S) = 0
    <3> DEFINE n == Len(Ranking)
               F == [i \in 1..n |-> IF Ranking[i] \in S THEN f[Ranking[i]] ELSE 0]
    <3>1. n \in Nat /\ \A i \in 1..n : Ranking[i] \in Orders
      BY BookAssumption
    <3>2. \A i \in 1..n : F[i] = 0
      BY <2>4, <3>1
    <3>3. Sum(F, n) = 0
      <4> HIDE DEF F, n
      <4> QED
        BY <3>1, <3>2, SumZeros
    <3> QED
      BY <3>3 DEF Total
  <2>5. Total(gave, Giving(book, k)) = 0 /\ Total(took, Getting(book, k)) = 0
    <3> HIDE DEF gave, took
    <3> QED
      BY <2>3, <2>4
  <2>6. Balance(book, ledger[w], k) = CalculateLimit(book)[k] - 0 + 0
    BY <2>5 DEF Balance
  <2> QED
    BY <2>1, <2>2, <2>6
<1>9. \A w \in Worlds : owner[w] = w /\ quote[w] = None
  BY DEF Init
<1> QED
  BY <1>6, <1>7, <1>8, <1>9 DEF BookInv

(* A new quote that fits its world keeps the invariant. *)
LEMMA QuoteInv ==
    ASSUME BookInv, NEW w \in Worlds, NEW q,
           IsQuote(q), QuoteOK(book, copies[w], limit[w], q.fills), SpentOK(book, q),
           quote' = [quote EXCEPT ![w] = q],
           UNCHANGED <<book, live, owner, copies, limit, ledger, swaps>>
    PROVE  BookInv'
<1>1. TypeOK /\ DOMAIN quote = Worlds
  BY DEF BookInv, TypeOK
<1>2. /\ quote'[w] = q /\ DOMAIN quote' = Worlds
      /\ \A v \in Worlds : v # w => quote'[v] = quote[v]
  BY <1>1
<1>3. \A v \in Worlds : quote'[v] = None \/ IsQuote(quote'[v])
  <2> TAKE v \in Worlds
  <2>1. CASE v = w
    BY <1>2, <2>1
  <2>2. CASE v # w
    BY <1>1, <1>2, <2>2 DEF TypeOK
  <2> QED
    BY <2>1, <2>2
<1>4. TypeOK'
  BY <1>1, <1>2, <1>3, Zenon DEF TypeOK, IsQuote
<1>5. ASSUME NEW v \in Worlds
      PROVE  /\ owner'[v] = v
             /\ \A o \in Orders : OrderOK(copies'[v][o], ledger'[v][o], book'[o])
             /\ LimitOK(book', limit'[v], ledger'[v])
  BY DEF BookInv
<1>6. ASSUME NEW v \in Worlds, quote'[v] # None
      PROVE  /\ QuoteOK(book', copies'[v], limit'[v], quote'[v].fills)
             /\ SpentOK(book', quote'[v])
  <2>1. CASE v = w
    BY <1>2, <2>1
  <2>2. CASE v # w
    BY <1>2, <1>6, <2>2 DEF BookInv
  <2> QED
    BY <2>1, <2>2
<1> QED
  BY <1>4, <1>5, <1>6 DEF BookInv

LEMMA CalcAmountOutInv ==
    ASSUME BookInv, NEW w \in Worlds, NEW in \in Assets, NEW out \in Assets,
           NEW amount \in AmountsIn, CalcAmountOut(w, in, out, amount)
    PROVE  BookInv'
<1> DEFINE end == Spending(w, in, out, amount)[Len(Ranking)]
           q == [exact |-> "in", amount |-> amount, fills |-> end.fills, out |-> end.out]
<1>1. amount \in Nat
  BY BookAssumption
<1>2. QuotedOK(w, in, out, end, Len(Ranking)) /\ SpentSoFar(end, amount)
  BY <1>1, SpendingOK
<1>3. /\ end.done /\ quote' = [quote EXCEPT ![w] = q]
      /\ UNCHANGED <<book, live, owner, copies, limit, ledger, swaps>>
  BY DEF CalcAmountOut
<1> HIDE DEF end
<1>4. /\ end.fills \in Seq(FillData(Nat)) /\ amount - Spent(book, end.fills) \in {0, 1}
      /\ end.out \in Int
      /\ QuoteOK(book, copies[w], limit[w], end.fills)
  BY <1>2, <1>3 DEF SpentSoFar, QuotedOK, AccData
<1>5. q.exact = "in" /\ q.amount = amount /\ q.fills = end.fills /\ q.out = end.out
  OBVIOUS
<1> HIDE DEF q
<1>6. IsQuote(q)
  BY <1>1, <1>4, <1>5 DEF IsQuote
<1>7. SpentOK(book, q)
  BY <1>4, <1>5 DEF SpentOK
<1> QED
  BY <1>3, <1>4, <1>5, <1>6, <1>7, QuoteInv

LEMMA CalcAmountInInv ==
    ASSUME BookInv, NEW w \in Worlds, NEW in \in Assets, NEW out \in Assets,
           NEW amount \in AmountsOut, CalcAmountIn(w, in, out, amount)
    PROVE  BookInv'
<1> DEFINE end == Taking(w, in, out, amount)[Len(Ranking)]
           q == [exact |-> "out", amount |-> amount, fills |-> end.fills, out |-> end.out]
<1>1. amount \in Nat
  BY BookAssumption
<1>2. QuotedOK(w, in, out, end, Len(Ranking))
  BY <1>1, TakingOK
<1>3. /\ quote' = [quote EXCEPT ![w] = q]
      /\ UNCHANGED <<book, live, owner, copies, limit, ledger, swaps>>
  BY DEF CalcAmountIn
<1> HIDE DEF end
<1>4. /\ end.fills \in Seq(FillData(Int)) /\ end.out \in Int
      /\ QuoteOK(book, copies[w], limit[w], end.fills)
  BY <1>2 DEF QuotedOK, AccData
<1>5. q.exact = "out" /\ q.amount = amount /\ q.fills = end.fills /\ q.out = end.out
  OBVIOUS
<1> HIDE DEF q
<1>6. IsQuote(q)
  BY <1>1, <1>4, <1>5 DEF IsQuote
<1>7. SpentOK(book, q)
  BY <1>5 DEF SpentOK
<1> QED
  BY <1>3, <1>4, <1>5, <1>6, <1>7, QuoteInv

LEMMA UpdateBalanceInv ==
    ASSUME BookInv, NEW w \in Worlds, UpdateBalance(w)
    PROVE  BookInv'
<1> DEFINE n == Len(quote[w].fills)
           end == Updating(w)[n]
<1>1. TypeOK /\ owner[w] = w
  BY DEF BookInv
<1>2. /\ quote[w] # None
      /\ swaps < MaxSwaps /\ swaps' = swaps + 1
      /\ copies' = [copies EXCEPT ![w] = end.orders]
      /\ limit' = [limit EXCEPT ![w] = end.limit]
      /\ ledger' = [ledger EXCEPT ![w] = end.ledger]
      /\ quote' = [quote EXCEPT ![w] = None]
      /\ UNCHANGED <<book, live, owner>>
  BY <1>1 DEF UpdateBalance
<1>3. ApplyOK(w, end, n)
  BY <1>2, UpdateOK
<1> HIDE DEF end
<1>4. /\ end \in WorldData
      /\ \A o \in Orders : end.orders[o] \in OrderState /\ OrderOK(end.orders[o], end.ledger[o], book[o])
      /\ LimitOK(book, end.limit, end.ledger)
  BY <1>3 DEF ApplyOK
<1>5. end.orders \in [Orders -> OrderState] /\ end.ledger \in [Orders -> LedgerEntry]
         /\ (end.limit = None \/ end.limit \in [Keys -> Int \cup {None}])
  <2>1. /\ end.orders \in [Orders -> [taking : Int, making : Int, available : Int \cup {None}]]
        /\ end.ledger \in [Orders -> LedgerEntry]
        /\ end.limit \in [Keys -> Int \cup {None}] \cup {None}
    BY <1>4 DEF WorldData
  <2> QED
    BY <1>4, <2>1
<1>6. /\ copies \in [Worlds -> [Orders -> OrderState]] /\ ledger \in [Worlds -> [Orders -> LedgerEntry]]
      /\ DOMAIN limit = Worlds /\ DOMAIN quote = Worlds
  BY <1>1 DEF TypeOK, OrderState, LedgerEntry
<1>7. /\ copies'[w] = end.orders /\ ledger'[w] = end.ledger /\ limit'[w] = end.limit
      /\ quote'[w] = None
      /\ \A v \in Worlds : v # w => /\ copies'[v] = copies[v] /\ ledger'[v] = ledger[v]
                                    /\ limit'[v] = limit[v] /\ quote'[v] = quote[v]
  BY <1>2, <1>6
<1>8. TypeOK'
  <2>1. copies' \in [Worlds -> [Orders -> OrderState]] /\ ledger' \in [Worlds -> [Orders -> LedgerEntry]]
    BY <1>2, <1>5, <1>6
  <2>2. DOMAIN limit' = Worlds /\ DOMAIN quote' = Worlds
    BY <1>2, <1>6
  <2>3. \A v \in Worlds : limit'[v] = None \/ limit'[v] \in [Keys -> Int \cup {None}]
    <3> TAKE v \in Worlds
    <3>1. CASE v = w
      BY <1>5, <1>7, <3>1
    <3>2. CASE v # w
      BY <1>1, <1>7, <3>2 DEF TypeOK
    <3> QED
      BY <3>1, <3>2
  <2>4. \A v \in Worlds : quote'[v] = None \/ IsQuote(quote'[v])
    <3> TAKE v \in Worlds
    <3>1. CASE v = w
      BY <1>7, <3>1
    <3>2. CASE v # w
      BY <1>1, <1>7, <3>2 DEF TypeOK
    <3> QED
      BY <3>1, <3>2
  <2>5. swaps' \in 0..MaxSwaps
    BY <1>1, <1>2, BookAssumption DEF TypeOK
  <2>6. book' \in Books /\ live' \subseteq Worlds /\ owner' \in [Worlds -> Worlds]
    BY <1>1, <1>2 DEF TypeOK
  <2> QED
    BY <2>1, <2>2, <2>3, <2>4, <2>5, <2>6, Zenon DEF TypeOK, IsQuote, OrderState, LedgerEntry
<1>9. ASSUME NEW v \in Worlds
      PROVE  /\ owner'[v] = v
             /\ \A o \in Orders : OrderOK(copies'[v][o], ledger'[v][o], book'[o])
             /\ LimitOK(book', limit'[v], ledger'[v])
             /\ quote'[v] # None =>
                   /\ QuoteOK(book', copies'[v], limit'[v], quote'[v].fills)
                   /\ SpentOK(book', quote'[v])
  <2>1. owner'[v] = v /\ book' = book
    BY <1>2 DEF BookInv
  <2>2. CASE v = w
    BY <1>4, <1>7, <2>1, <2>2
  <2>3. CASE v # w
    <3>1. /\ \A o \in Orders : OrderOK(copies[v][o], ledger[v][o], book[o])
          /\ LimitOK(book, limit[v], ledger[v])
          /\ quote[v] # None =>
                /\ QuoteOK(book, copies[v], limit[v], quote[v].fills)
                /\ SpentOK(book, quote[v])
      BY DEF BookInv
    <3> QED
      BY <1>7, <2>1, <2>3, <3>1
  <2> QED
    BY <2>2, <2>3
<1> QED
  BY <1>8, <1>9 DEF BookInv

LEMMA CloneInv ==
    ASSUME BookInv, NEW w \in Worlds, NEW v \in Worlds, Clone(w, v)
    PROVE  BookInv'
<1>1. TypeOK /\ owner[w] = w
  BY DEF BookInv
<1>2. /\ live' = live \cup {v}
      /\ owner' = [owner EXCEPT ![v] = v]
      /\ copies' = [copies EXCEPT ![v] = copies[w]]
      /\ limit' = [limit EXCEPT ![v] = limit[w]]
      /\ quote' = [quote EXCEPT ![v] = quote[w]]
      /\ ledger' = [ledger EXCEPT ![v] = ledger[w]]
      /\ UNCHANGED <<book, swaps>>
  BY <1>1 DEF Clone, CloneOwner
<1>3. /\ copies \in [Worlds -> [Orders -> OrderState]] /\ ledger \in [Worlds -> [Orders -> LedgerEntry]]
      /\ DOMAIN limit = Worlds /\ DOMAIN quote = Worlds /\ owner \in [Worlds -> Worlds]
  BY <1>1 DEF TypeOK, OrderState, LedgerEntry
<1>4. ASSUME NEW u \in Worlds
      PROVE  \E x \in Worlds : /\ copies'[u] = copies[x] /\ ledger'[u] = ledger[x]
                               /\ limit'[u] = limit[x] /\ quote'[u] = quote[x]
  <2>1. CASE u = v
    BY <1>2, <1>3, <2>1
  <2>2. CASE u # v
    BY <1>2, <1>3, <2>2
  <2> QED
    BY <2>1, <2>2
<1>5. TypeOK'
  <2>1. copies' \in [Worlds -> [Orders -> OrderState]] /\ ledger' \in [Worlds -> [Orders -> LedgerEntry]]
    BY <1>2, <1>3
  <2>2. DOMAIN limit' = Worlds /\ DOMAIN quote' = Worlds /\ owner' \in [Worlds -> Worlds]
    BY <1>2, <1>3
  <2>3. \A u \in Worlds : limit'[u] = None \/ limit'[u] \in [Keys -> Int \cup {None}]
    BY <1>1, <1>4 DEF TypeOK
  <2>4. \A u \in Worlds : quote'[u] = None \/ IsQuote(quote'[u])
    BY <1>1, <1>4 DEF TypeOK
  <2>5. book' \in Books /\ live' \subseteq Worlds /\ swaps' \in 0..MaxSwaps
    BY <1>1, <1>2 DEF TypeOK
  <2> QED
    BY <2>1, <2>2, <2>3, <2>4, <2>5, Zenon DEF TypeOK, IsQuote, OrderState, LedgerEntry
<1>6. ASSUME NEW u \in Worlds
      PROVE  /\ owner'[u] = u
             /\ \A o \in Orders : OrderOK(copies'[u][o], ledger'[u][o], book'[o])
             /\ LimitOK(book', limit'[u], ledger'[u])
             /\ quote'[u] # None =>
                   /\ QuoteOK(book', copies'[u], limit'[u], quote'[u].fills)
                   /\ SpentOK(book', quote'[u])
  <2>1. owner'[u] = u /\ book' = book
    BY <1>2, <1>3 DEF BookInv
  <2>2. PICK x \in Worlds : /\ copies'[u] = copies[x] /\ ledger'[u] = ledger[x]
                            /\ limit'[u] = limit[x] /\ quote'[u] = quote[x]
    BY <1>4
  <2>3. /\ \A o \in Orders : OrderOK(copies[x][o], ledger[x][o], book[o])
        /\ LimitOK(book, limit[x], ledger[x])
        /\ quote[x] # None =>
              /\ QuoteOK(book, copies[x], limit[x], quote[x].fills)
              /\ SpentOK(book, quote[x])
    BY DEF BookInv
  <2> QED
    BY <2>1, <2>2, <2>3
<1> QED
  BY <1>5, <1>6 DEF BookInv

(* The invariant of the limit order simulator: every world's orders and    *)
(* inventory agree with its fills, and every quote still fits its world    *)
(* (CalcAmountOut, CalcAmountIn, UpdateBalance, CloneState).               *)
THEOREM BookInvariant == Spec => []BookInv
<1>1. Init => BookInv
  BY InitInv
<1>2. BookInv /\ [Next]_vars => BookInv'
  <2> SUFFICES ASSUME BookInv, [Next]_vars PROVE BookInv'
    OBVIOUS
  <2>1. CASE \E w \in Worlds, in, out \in Assets, amount \in AmountsIn :
                CalcAmountOut(w, in, out, amount)
    BY <2>1, CalcAmountOutInv
  <2>2. CASE \E w \in Worlds, in, out \in Assets, amount \in AmountsOut :
                CalcAmountIn(w, in, out, amount)
    BY <2>2, CalcAmountInInv
  <2>3. CASE \E w \in Worlds : UpdateBalance(w)
    BY <2>3, UpdateBalanceInv
  <2>4. CASE \E w, v \in Worlds : Clone(w, v)
    BY <2>4, CloneInv
  <2>5. CASE UNCHANGED vars
    BY <2>5 DEF vars, BookInv, TypeOK, IsQuote
  <2> QED
    BY <2>1, <2>2, <2>3, <2>4, <2>5 DEF Next
<1> QED
  BY <1>1, <1>2, PTL DEF Spec

(* Type correctness: an available amount never goes below zero, and the    *)
(* fills of an exact input are never negative.                             *)
THEOREM TypeCorrect == Spec => []TypeOK
<1>1. BookInv => TypeOK
  BY DEF BookInv
<1> QED
  BY <1>1, BookInvariant, PTL

(* Every world's orders show its own fills, and no order is filled beyond  *)
(* what it offers (filledMakingAmount, AvailableMakingAmount).             *)
THEOREM OrdersCorrect == Spec => []OrdersMatchLedger
<1>1. BookInv => OrdersMatchLedger
  <2> SUFFICES ASSUME BookInv, NEW w \in live, NEW o \in Orders
               PROVE  LET s == State(w, o)
                          l == ledger[w][o]
                      IN  /\ s.taking = book[o].filledTaking + l.taking
                          /\ s.making = book[o].filledMaking + l.making
                          /\ s.making <= book[o].making
                          /\ s.available # None => s.available = book[o].available - l.making
    BY DEF OrdersMatchLedger
  <2> DEFINE s == copies[w][o]
             l == ledger[w][o]
             d == book[o]
  <2>1. w \in Worlds /\ owner[w] = w
    BY DEF BookInv, TypeOK
  <2>2. State(w, o) = s
    BY <2>1 DEF State
  <2>3. OrderOK(s, l, d) /\ s \in OrderState /\ book \in Books
    BY <2>1 DEF BookInv, TypeOK, OrderState
  <2>4. s.making \in Int /\ s.available \in Nat \cup {None} /\ None \notin Int
    BY <2>3, BookAssumption DEF OrderState
  <2>5. /\ d.making \in Int /\ d.filledMaking \in Int
        /\ d.available # None => d.available \in Nat /\ d.available <= d.making - d.filledMaking
    BY <2>3, BookFacts DEF OrderData
  <2> HIDE DEF s, l, d
  <2>6. s.taking = d.filledTaking + l.taking /\ s.making = d.filledMaking + l.making
    BY <2>3 DEF OrderOK
  <2>7. l.making \in Int
    BY <2>1 DEF BookInv, TypeOK, l
  <2>8. CASE d.available = None
    <3>1. s.available = None /\ s.making <= d.making
      BY <2>3, <2>8 DEF OrderOK
    <3> QED
      BY <2>2, <2>6, <3>1 DEF s, l, d
  <2>9. CASE d.available # None
    <3>1. s.available # None /\ s.available = d.available - l.making
      BY <2>3, <2>9 DEF OrderOK
    <3>2. s.making <= d.making
      BY <2>4, <2>5, <2>6, <2>9, <2>7, <3>1
    <3> QED
      BY <2>2, <2>6, <3>1, <3>2 DEF s, l, d
  <2> QED
    BY <2>8, <2>9
<1> QED
  BY <1>1, BookInvariant, PTL

(* The error of UpdateLimit that UpdateBalance ignores never occurs for a  *)
(* maker whose orders carry their available amounts and its balance: the   *)
(* inventory stays what the fills leave.                                   *)
THEOREM LimitCorrect == Spec => []LimitMatchesLedger
<1>1. BookInv => LimitMatchesLedger
  <2> SUFFICES ASSUME BookInv, NEW w \in live, NEW k \in Keys,
                      limit[w] # None, Tracked(book, k[1]), Giving(book, k) # {}
               PROVE  limit[w][k] = Balance(book, ledger[w], k)
    BY DEF LimitMatchesLedger
  <2>1. LimitOK(book, limit[w], ledger[w])
    BY DEF BookInv, TypeOK
  <2> QED
    BY <2>1 DEF LimitOK
<1> QED
  BY <1>1, BookInvariant, PTL

(* The fills of an exact-input quote charge the taker the amount quoted,   *)
(* up to 1 lost by rounding the fee of the last order.                     *)
THEOREM ExactInCorrect == Spec => []ExactInSpent
<1>1. BookInv => ExactInSpent
  <2> SUFFICES ASSUME BookInv, NEW w \in live, quote[w] # None, quote[w].exact = "in"
               PROVE  quote[w].amount - Spent(book, quote[w].fills) \in {0, 1}
    BY DEF ExactInSpent
  <2>1. SpentOK(book, quote[w])
    BY DEF BookInv, TypeOK
  <2> QED
    BY <2>1 DEF SpentOK
<1> QED
  BY <1>1, BookInvariant, PTL
=============================================================================
