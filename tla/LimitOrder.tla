----------------------------- MODULE LimitOrder -----------------------------
(***************************************************************************)
(* The simulator of source/limitorder: a book of orders of several makers, *)
(* quoted in both directions and for exact input and exact output, whose   *)
(* fills are bounded by each order and by what its maker still holds.      *)
(*                                                                         *)
(* A world is one state of the search of a router: the simulators of the   *)
(* pools and the inventory limit they share.  A quote is computed in a     *)
(* world and then applied to it with UpdateBalance; the world may be       *)
(* cloned in between, and each copy goes its own way.                      *)
(***************************************************************************)
EXTENDS Integers, Sequences, Summation

CONSTANTS
    Orders,
    Makers,
    Assets,
    Ranking,      \* the order in which the orders are listed
    Books,        \* what the orders can be
    Worlds,
    Original,     \* the world that exists from the start
    Accounts,
    Senders,      \* limit.GetAllowedSenders; empty if everyone is allowed
    AmountsIn,    \* the amounts quoted
    AmountsOut,
    BasisPoint,
    MaxSwaps,     \* bound: how many quotes are applied
    None

(* maker gives making of give for taking of get, and has given             *)
(* filledMaking for filledTaking when the book is read.  available is      *)
(* AvailableMakingAmount and allowance is MakerBalanceAllowance, which old *)
(* orders lack; fee is in basis points, of the asset the taker pays if     *)
(* takerFee; sender is the only one who may fill the order, if any.        *)
OrderData ==
    [maker : Makers, give : Assets, get : Assets, making : Nat \ {0}, taking : Nat \ {0},
     filledMaking : Nat, filledTaking : Nat,
     available : Nat \cup {None}, allowance : Nat \cup {None},
     fee : 0..(BasisPoint - 1), takerFee : BOOLEAN, sender : Accounts \cup {None}]

Keys == Makers \X Assets

GiveKey(d) == <<d.maker, d.give>>
GetKey(d) == <<d.maker, d.get>>

(* The ranking lists every order once.  An order that reports what is      *)
(* available reports no more than is left of it, one that does not was     *)
(* filled at no worse a rate than its own, and orders of one maker agree   *)
(* on what the maker holds.                                                *)
ASSUME BookAssumption ==
    /\ Original \in Worlds
    /\ BasisPoint \in Nat \ {0} /\ MaxSwaps \in Nat
    /\ Ranking \in Seq(Orders)
    /\ \A o \in Orders : \E i \in 1..Len(Ranking) : Ranking[i] = o
    /\ \A i, j \in 1..Len(Ranking) : Ranking[i] = Ranking[j] => i = j
    /\ AmountsIn \subseteq Nat /\ AmountsOut \subseteq Nat
    /\ None \notin Int
    /\ Senders \subseteq Accounts
    /\ \A b \in Books :
          /\ b \in [Orders -> OrderData]
          /\ \A o \in Orders :
                /\ b[o].available # None => b[o].available <= b[o].making - b[o].filledMaking
                /\ b[o].available = None =>
                      /\ b[o].filledMaking <= b[o].making
                      /\ b[o].filledMaking * b[o].taking <= b[o].filledTaking * b[o].making
                /\ b[o].give # b[o].get
                /\ \A p \in Orders :
                      GiveKey(b[o]) = GiveKey(b[p]) => b[o].allowance = b[p].allowance

VARIABLES
    book,       \* the orders
    live,       \* the worlds that exist
    owner,      \* ordersMapping: whose copies of the orders a world points to
    copies,     \* those copies: how far each order is filled
    limit,      \* the inventory of each world, None if there is none
    quote,      \* a result of CalcAmountOut or CalcAmountIn
    ledger,     \* history: the fills applied to each world
    swaps       \* how many quotes were applied

vars == <<book, live, owner, copies, limit, quote, ledger, swaps>>

State(w, o) == copies[owner[w]][o]

Unfilled == [o \in Orders |-> [taking |-> 0, making |-> 0]]

-----------------------------------------------------------------------------
(* What is left of an order *)

Smaller(a, b) == IF a < b THEN a ELSE b

DivCeil(a, b) == (a + b - 1) \div b

(* getMakerRemainingBalance, used so far in this quote subtracted.  It is  *)
(* counted by maker alone: all orders of a listing give the same asset.    *)
MakerRemaining_ForgetsQuote(w, d, used) ==
    IF limit[w][GiveKey(d)] = None THEN 0 ELSE limit[w][GiveKey(d)]

MakerRemaining(w, d, used) ==
    IF limit[w][GiveKey(d)] = None THEN 0 ELSE limit[w][GiveKey(d)] - used[d.maker]

(* RemainingAmount.  Without AvailableMakingAmount the limit is not asked. *)
RemainingMaking_LimitOnly(w, o, used) ==
    IF limit[w] = None THEN book[o].making - State(w, o).making
    ELSE MakerRemaining(w, book[o], used)

RemainingMaking(w, o, used) ==
    LET left == State(w, o).available
    IN  IF left = None THEN book[o].making - State(w, o).making
        ELSE IF limit[w] = None THEN left
        ELSE Smaller(left, MakerRemaining(w, book[o], used))

RemainingTaking(w, o, making) ==
    IF State(w, o).available = None THEN book[o].taking - State(w, o).taking
    ELSE (making * book[o].taking) \div book[o].making

-----------------------------------------------------------------------------
(* Fees *)

MakerFee(d, making) == IF d.takerFee THEN 0 ELSE DivCeil(making * d.fee, BasisPoint)

MakingBeforeFee(d, amount) ==
    IF d.takerFee THEN amount ELSE DivCeil(amount * BasisPoint, BasisPoint - d.fee)

TakerFee(d, taking) == IF d.takerFee THEN DivCeil(taking * d.fee, BasisPoint) ELSE 0

TakingAfterFee_Rounded(d, amount) ==
    IF d.takerFee THEN DivCeil(amount * BasisPoint, BasisPoint + d.fee) ELSE amount

TakingAfterFee(d, amount) ==
    IF d.takerFee THEN (amount * BasisPoint) \div (BasisPoint + d.fee) ELSE amount

-----------------------------------------------------------------------------
(* The loops of calcAmountOutWithSwapInfo and calcAmountInWithSwapInfo.    *)
(* acc carries what is left to fill (left), the fills so far, what they    *)
(* use of each maker (used), the depth seen so far (depth), and whether    *)
(* the amount is filled (done), with the depth then aimed at (aim).        *)

Admitted(w, o) ==
    \/ limit[w] = None
    \/ Senders = {}
    \/ book[o].sender \in Senders \cup {None}

Listed(w, in, out) ==
    {o \in Orders : book[o].give = out /\ book[o].get = in /\ Admitted(w, o)}

Start(amount) ==
    [left |-> amount, fills |-> <<>>, used |-> [m \in Makers |-> 0], depth |-> 0,
     done |-> FALSE, out |-> 0, aim |-> 0]

Fill(acc, o, taking, making) ==
    [acc EXCEPT
        !.fills = Append(@, [order |-> o, taking |-> taking, making |-> making]),
        !.used[book[o].maker] = @ + making,
        !.out = @ + making - MakerFee(book[o], making)]

(* Spare orders, in case some are gone when the swap executes, up to 130%. *)
Fallback(acc, o, making) ==
    IF 10 * acc.depth >= 13 * acc.aim THEN acc
    ELSE [Fill(acc, o, 0, 0) EXCEPT !.depth = @ + making]

(* One order, of which the quote takes what is left of the input; an order *)
(* too small to give anything for it is passed over, but counts as depth.  *)
SpendOn(w, acc, o) ==
    LET d == book[o]
        making == RemainingMaking(w, o, acc.used)
        taking == RemainingTaking(w, o, making)
        net == TakingAfterFee(d, acc.left)
        part == (net * d.making) \div d.taking
        seen == [acc EXCEPT !.depth = @ + making]
        last == Fill(seen, o, net, part)
    IN  IF making <= 0 \/ taking <= 0 THEN acc
        ELSE IF acc.done THEN Fallback(acc, o, making)
        ELSE IF net <= 0 THEN acc
        ELSE IF taking < net
        THEN [Fill(seen, o, taking, making) EXCEPT !.left = @ - TakerFee(d, taking) - taking]
        ELSE IF part <= 0 THEN seen
        ELSE [last EXCEPT !.done = TRUE, !.aim = last.out]

(* The same for an exact output. *)
TakeFrom(w, acc, o) ==
    LET d == book[o]
        making == RemainingMaking(w, o, acc.used)
        taking == RemainingTaking(w, o, making)
        gross == MakingBeforeFee(d, acc.left)
        price == DivCeil(gross * d.taking, d.making)
        seen == [acc EXCEPT !.depth = @ + making]
    IN  IF making <= 0 \/ taking <= 0 THEN acc
        ELSE IF acc.done THEN Fallback(acc, o, making)
        ELSE IF making < gross
        THEN [Fill(seen, o, taking, making) EXCEPT !.left = @ - making]
        ELSE IF price = 0 THEN seen
        ELSE [Fill(seen, o, price, gross) EXCEPT !.done = TRUE, !.aim = gross]

(* The listed orders are visited by rank; acc[i] is reached after rank i.  *)
Spending(w, in, out, amount) ==
    LET acc[i \in 0..Len(Ranking)] ==
          IF i = 0 THEN Start(amount)
          ELSE IF Ranking[i] \in Listed(w, in, out) THEN SpendOn(w, acc[i - 1], Ranking[i])
          ELSE acc[i - 1]
    IN  acc

Taking(w, in, out, amount) ==
    LET acc[i \in 0..Len(Ranking)] ==
          IF i = 0 THEN Start(amount)
          ELSE IF Ranking[i] \in Listed(w, in, out) THEN TakeFrom(w, acc[i - 1], Ranking[i])
          ELSE acc[i - 1]
    IN  acc

(* ErrCannotFulfillAmountIn and ErrCannotFulfillAmountOut leave no quote;  *)
(* neither does an empty listing, whose quote of 0 UpdateBalance ignores.  *)
(* Quoting changes no simulator, so a quote that is dropped need not have  *)
(* been asked for, and one that is applied later, but before its world     *)
(* changes, can be asked for later: worlds do not all hold quotes at once, *)
(* except the copies of one.                                               *)
CalcAmountOut(w, in, out, amount) ==
    LET end == Spending(w, in, out, amount)[Len(Ranking)]
    IN  /\ w \in live /\ \A v \in Worlds : quote[v] = None
        /\ end.done
        /\ quote' = [quote EXCEPT ![w] = [exact |-> "in", amount |-> amount,
                                          fills |-> end.fills, out |-> end.out]]
        /\ UNCHANGED <<book, live, owner, copies, limit, ledger, swaps>>

CalcAmountIn(w, in, out, amount) ==
    LET end == Taking(w, in, out, amount)[Len(Ranking)]
    IN  /\ w \in live /\ \A v \in Worlds : quote[v] = None
        /\ end.done
        /\ quote' = [quote EXCEPT ![w] = [exact |-> "out", amount |-> amount,
                                          fills |-> end.fills, out |-> end.out]]
        /\ UNCHANGED <<book, live, owner, copies, limit, ledger, swaps>>

-----------------------------------------------------------------------------
(* UpdateBalance *)

Filled(s, f) ==
    [taking |-> s.taking + f.taking, making |-> s.making + f.making,
     available |-> IF s.available = None THEN None ELSE s.available - f.making]

(* UpdateLimit of the inventory, whose error is ignored. *)
Limited(lim, f) ==
    LET dec == GiveKey(book[f.order])
        inc == GetKey(book[f.order])
    IN  IF lim = None THEN None
        ELSE IF lim[dec] = None THEN lim
        ELSE IF lim[dec] < f.making THEN lim
        ELSE [lim EXCEPT ![dec] = @ - f.making,
                         ![inc] = (IF @ = None THEN 0 ELSE @) + f.taking]

Booked(led, f) ==
    [led EXCEPT ![f.order] = [taking |-> @.taking + f.taking, making |-> @.making + f.making]]

Apply(s, f) ==
    [orders |-> [s.orders EXCEPT ![f.order] = Filled(@, f)],
     limit |-> Limited(s.limit, f),
     ledger |-> Booked(s.ledger, f)]

(* The fills are applied in turn; s[i] is reached after fill i. *)
Updating(w) ==
    LET s[i \in 0..Len(quote[w].fills)] ==
          IF i = 0
          THEN [orders |-> copies[owner[w]], limit |-> limit[w], ledger |-> ledger[w]]
          ELSE Apply(s[i - 1], quote[w].fills[i])
    IN  s

UpdateBalance(w) ==
    LET end == Updating(w)[Len(quote[w].fills)]
    IN  /\ w \in live
        /\ quote[w] # None
        /\ swaps < MaxSwaps
        /\ swaps' = swaps + 1
        /\ copies' = [copies EXCEPT ![owner[w]] = end.orders]
        /\ limit' = [limit EXCEPT ![w] = end.limit]
        /\ ledger' = [ledger EXCEPT ![w] = end.ledger]
        /\ quote' = [quote EXCEPT ![w] = None]
        /\ UNCHANGED <<book, live, owner>>

-----------------------------------------------------------------------------
(* CloneState of the pools and Clone of the limit *)

CloneOwner_Shared(w, v) == owner[w]

CloneOwner(w, v) == v

Clone(w, v) ==
    /\ w \in live /\ v \in Worlds \ live
    /\ live' = live \cup {v}
    /\ owner' = [owner EXCEPT ![v] = CloneOwner(w, v)]
    /\ copies' = [copies EXCEPT ![v] = copies[owner[w]]]
    /\ limit' = [limit EXCEPT ![v] = limit[w]]
    /\ quote' = [quote EXCEPT ![v] = quote[w]]
    /\ ledger' = [ledger EXCEPT ![v] = ledger[w]]
    /\ UNCHANGED <<book, swaps>>

-----------------------------------------------------------------------------
(* NewPoolSimulator and CalculateLimit *)
CalculateLimit(b) ==
    [k \in Keys |-> LET of == {o \in Orders : GiveKey(b[o]) = k}
                    IN  IF of = {} THEN None ELSE b[CHOOSE o \in of : TRUE].allowance]

Init ==
    /\ book \in Books
    /\ live = {Original}
    /\ owner = [w \in Worlds |-> w]
    /\ copies = [w \in Worlds |-> [o \in Orders |->
                    [taking |-> book[o].filledTaking, making |-> book[o].filledMaking,
                     available |-> book[o].available]]]
    /\ \E lim \in {None, CalculateLimit(book)} : limit = [w \in Worlds |-> lim]
    /\ quote = [w \in Worlds |-> None]
    /\ ledger = [w \in Worlds |-> Unfilled]
    /\ swaps = 0

Next ==
    \/ \E w \in Worlds, in, out \in Assets, amount \in AmountsIn :
          CalcAmountOut(w, in, out, amount)
    \/ \E w \in Worlds, in, out \in Assets, amount \in AmountsOut :
          CalcAmountIn(w, in, out, amount)
    \/ \E w \in Worlds : UpdateBalance(w)
    \/ \E w, v \in Worlds : Clone(w, v)

Spec == Init /\ [][Next]_vars

-----------------------------------------------------------------------------
(* Properties *)

FillData(Amount) == [order : Orders, taking : Amount, making : Amount]

(* The fills of an exact output are not always positive: see the finding   *)
(* on ExactOutDelivered.                                                   *)
IsQuote(q) ==
    /\ q.exact \in {"in", "out"}
    /\ q.amount \in Nat /\ q.out \in Int
    /\ q.fills \in Seq(FillData(IF q.exact = "in" THEN Nat ELSE Int))

TypeOK ==
    /\ book \in Books
    /\ live \subseteq Worlds
    /\ owner \in [Worlds -> Worlds]
    /\ copies \in [Worlds -> [Orders -> [taking : Int, making : Int,
                                         available : Nat \cup {None}]]]
    /\ DOMAIN limit = Worlds
    /\ \A w \in Worlds : limit[w] = None \/ limit[w] \in [Keys -> Int \cup {None}]
    /\ DOMAIN quote = Worlds
    /\ \A w \in Worlds : quote[w] = None \/ IsQuote(quote[w])
    /\ ledger \in [Worlds -> [Orders -> [taking : Int, making : Int]]]
    /\ swaps \in 0..MaxSwaps

(* The copies of the orders a world works with show the fills applied in   *)
(* that world and no other, on top of those the book came with, and no     *)
(* order is filled beyond what it offers, or beyond what was available.    *)
OrdersMatchLedger ==
    \A w \in live, o \in Orders :
        LET s == State(w, o)
            l == ledger[w][o]
        IN  /\ s.taking = book[o].filledTaking + l.taking
            /\ s.making = book[o].filledMaking + l.making
            /\ s.making <= book[o].making
            /\ s.available # None => s.available = book[o].available - l.making

(* A maker all of whose orders carry what is available and what it holds. *)
Tracked(b, m) ==
    \A o \in Orders : b[o].maker = m => b[o].available # None /\ b[o].allowance # None

Giving(b, k) == {o \in Orders : GiveKey(b[o]) = k}

Getting(b, k) == {o \in Orders : GetKey(b[o]) = k}

(* The sum of f over the orders of S *)
Total(f, S) ==
    Sum([i \in 1..Len(Ranking) |-> IF Ranking[i] \in S THEN f[Ranking[i]] ELSE 0], Len(Ranking))

(* What the fills of a ledger leave to a maker *)
Balance(b, led, k) ==
    CalculateLimit(b)[k] - Total([o \in Orders |-> led[o].making], Giving(b, k))
                         + Total([o \in Orders |-> led[o].taking], Getting(b, k))

(* UpdateBalance ignores the error of UpdateLimit (pool_simulator.go:151): *)
(* the error never occurs, for every maker whose orders all carry what is  *)
(* available and what the maker holds.  The limit is the maker's balance   *)
(* less what its orders gave plus what they took in, whatever pools they   *)
(* are in, although a quote draws on it before it can be updated.          *)
LimitMatchesLedger ==
    \A w \in live, k \in Keys :
        limit[w] # None /\ Tracked(book, k[1]) /\ Giving(book, k) # {}
        => limit[w][k] = Balance(book, ledger[w], k)

(* What the taker pays for a fill, and for several *)
Charge(b, f) == f.taking + TakerFee(b[f.order], f.taking)

Spent(b, fills) == Sum([i \in 1..Len(fills) |-> Charge(b, fills[i])], Len(fills))

(* An exact input is spent: what the fills of the quote charge the taker,  *)
(* fees included, is the amount quoted, or one less where the fee of the   *)
(* last order is rounded.                                                  *)
ExactInSpent ==
    \A w \in live : quote[w] # None =>
        (quote[w].exact = "in" => quote[w].amount - Spent(book, quote[w].fills) \in {0, 1})

(* "input is the received amount after fee"                                *)
(* (pool_simulator_calc_amount_in.go:147): the fills of an exact output    *)
(* give the taker at least that amount, after the fees of the makers.      *)
ExactOutDelivered ==
    \A w \in live : quote[w] # None =>
        (quote[w].exact = "out" => quote[w].out >= quote[w].amount)
=============================================================================
