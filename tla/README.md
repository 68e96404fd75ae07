# A verification of the stateful core of kyberswap-dex-lib

kyberswap-dex-lib is a Go library that a swap aggregator embeds. For every DEX it
lists pools, tracks their state and simulates swaps. Most of its code is sequential
arithmetic ported from contracts. This project is about the rest: the state that
outlives a call, is shared by goroutines, or is persisted between calls. That is
where an order of steps nobody tested can lose a pool, double-spend an inventory or
quote from a withdrawn price.

Paths below are relative to the repository's root.

## 1. Inventory

| Part | State it keeps | Operations | What is hard | What makes it correct |
|---|---|---|---|---|
| Historical pool scan, `pkg/source/pool/poolfactory/backfill.go` | target head (per process); cursor and done flag (persisted by the caller) | `Backfill` | errors mid-window, crashes between the caller's two saves, lagging nodes, block arithmetic | no pool below the cursor is lost; done means caught up; it ends |
| Inventory swap limits, `pkg/swaplimit/{inventory,swapped_inventory,allowed_senders_inventory}.go` | maps of shared `*big.Int`, a lock | `UpdateLimit`, `Clone`, reads | concurrent routes, numbers shared by clones, lock-free clone | nothing overdrawn, every trade counted once, clones isolated |
| nemo-prop feed client, `pkg/liquidity-source/nemo-prop/feed.go` | settings and snapshot (atomics), writer lock, reconnect and done channels, last sequence number | `acquireFeed`, `offer`, `run`, `session`, `handle`, `close` | three kinds of goroutine, settings out of order, reconnects, withdrawals without the lock | snapshot shaped with the current settings, freshest settings win, no older snapshot, token rotation gets through |
| nemo-prop simulator and tracker | pinned ladder state | `CalcAmountOut`, `UpdateBalance`, `GetNewPoolState` | they call `acquireFeed` on every quote | only the calls are modelled |
| Single-swap limit, `pkg/swaplimit/single_swap.go` | one atomic flag | `GetLimit`, `UpdateLimit`, `Clone` | check-then-act across two calls | at most one swap per route |
| Limit order simulator, `pkg/source/limitorder/pool_simulator*.go` | the orders' filled amounts, a maker inventory shared by pools | `CalcAmountOut`, `CalcAmountIn`, `UpdateBalance`, `CloneState`, `CalculateLimit` | a quote cannot update the inventory it draws on; ignored limit errors; fees rounded both ways | orders and inventory agree with what was swapped; the amounts of a quote are met |
| Limit order RFQ and signature cache, `pkg/source/limitorder/{rfq,http_client}.go` | signatures by order, each with a stale-at time | `RFQ`, `GetOpSignatures` | look-up, fetch and store interleave; signatures expire meanwhile; orders vanish | what is handed out is valid and recent; missing means gone; the cache is swept |
| lunarbase snapshots, `pkg/liquidity-source/lunarbase` | bounded cache of verified states, shared by all refreshes | `GetNewPoolState`, `GetNewPoolStateWithOverrides`, `capture`, `put` | concurrent refreshes, reorganisations, late and foreign logs | a state is of one block, canonical during the call; never backwards; it catches up |
| Uniswap v3 tick tracker, `pkg/liquidity-source/uniswap/v3/pool_tracker.go` | ticks and block number of a pool | `GetNewPoolState`, `FetchPoolTicks`, `BootstrapPoolState` | logs reverted or redelivered; refetches that fail, are inconsistent or come from a later block | the ticks are those of the delivered chain |
| arena and angstrom hook caches | package-level variables | refresh, read | unsynchronised, an error is cached | no failed answer is served |
| Pool interfaces, registries, batched RPC, msgpack | none that changes | - | - | - |
| About 160 DEX simulators | one pool each | simulate | 256-bit arithmetic | agreement with the chain (tests) |

How they interact. A router process lists pools (from list updaters, or from the
backfill through its caller), refreshes them through trackers, and builds a
simulator per pool. For each candidate route it clones simulators and swap limits,
calls `CalcAmountOut`, then `UpdateBalance`, which calls `UpdateLimit` of the limit
shared by all pools of a market maker. nemo-prop simulators and trackers also reach
a process-wide feed client, which they feed with the settings found in pool states.
When a route is built, the limit order RFQ asks an operator service for the signatures
of the orders the simulator picked.

`PROJECT.json` lists the components, and under "hazards" what is hard to test in
each, at the line where it bites.

## 2. Modules

| Module | Models |
|---|---|
| `Backfill` | `FilterLogsBackfiller`, its caller and the chain |
| `PoolDiscovery` | what the contract of `IPoolsBackfiller` promises, without windows, retries or metadata |
| `SwapLimit` | the three inventory limits |
| `NemoFeed` | the feed client, its users, its connection and its pingers |
| `LunarSnapshot` | refreshes of lunarbase pools, their cache and the node's chain |
| `TickTracker` | the v3 tick tracker, its log source and the node's chain |
| `OpSignatures` | the limit order RFQ, the signature cache and the operator service |
| `LimitOrder` | the limit order simulator, its clones and the maker inventory |
| `Summation` | the sum of a function over `1..n`, used by `LimitOrder` |
| `MC...` | instances for TLC |
| `...Proofs` | the theorems and their proofs, one module for each of the modules above that models code |
| `IterationProofs` | lemmas on induction, recursive functions and sums |

Operators whose name has a suffix, such as `Advanced_SkipsOne`, are plausible wrong
versions of the operator they precede. No specification uses them: substituted for
the right one they show that a property can fail. Names and lines of code are paired
in `PROJECT.json` under "map".

### Backfill

State: `targetHead` is the field of the struct; `meta` and `store` are the caller's
storage, `phase` and `reply` its loop; `chain` and `head` are the world. Each outcome
of a `Backfill` call is one action (`BackfillAlreadyDone`, `BackfillHeadError`,
`BackfillPastTarget`, `BackfillScanError`, `BackfillScan`), since nothing of a call
is visible before it returns. `BackfillScanError` keeps the target if that call read
it first, as the code does. The caller stores pools, then metadata, and a `Crash` may come
between any two steps; it forgets everything but the storage. A node may report any
head up to the real one. Block arithmetic is modulo `Modulus` (2^64 in the code), of
which chains stay short (`ConfigAssumption`): window ends can wrap, block numbers do not. A
node is taken to refuse a window that ends before it starts, as geth does.

A log is `"empty"`, `"pool"` or `"foreign"` (unsupported, or decoded to nil). A pool
is identified by its block. Reorganisations, a node that answers `FilterLogs` from an
older head than it reported, and corrupted metadata bytes are left out: the code has
no measure against the first two, and the last cannot come out of the storage modelled.

### SwapLimit

Maps hold cells of a `heap` of numbers, because whether an update replaces a cell or
changes it in place decides what a clone sees. `UpdateLimit` is cut at its accesses
to shared state: lock, read and write of the swapped count, read, write, read, write,
unlock; `"allowed"` starts at the first read of a balance, since its method takes no lock.
The swapped count is added to in place, in a number that original and clone share
while each holds its own lock, so the addition is two steps (`AddSwapped`,
`WriteSwapped`) between which the other one's may come. `Clone` copies the
balances, then the swapped counts, holding no lock. `MapFault` is the Go runtime
ending the process on a concurrent map access, possible whenever a map is written
while another goroutine may be reading it unlocked. `ledger` and `tradedIn` are
history variables: what the successful trades add up to; `torn` holds the numbers that
two threads were adding to at once. A number is read and written as a whole: that a
`big.Int` of several words could be written half by one addition and half by another is
not modelled.

Read-only methods are not actions. Keys are tokens; amounts are naturals (the code
passes non-negative amounts). `Calls` is the set of trades that are made.

### NemoFeed

`settings` and `snapshot` are the two atomics, `mu` the writer lock, `reconnect` the
one-place channel, `done` the closed channel. `user[u]` is a call of `acquireFeed`,
cut at its accesses to shared state; `conn` is the connection goroutine with its
session's pinger; `stray` says that pingers outlived their sessions (a pinger that is
in the middle of a ping, or not yet at its select, when `stop` is closed). `lost` is a history
variable: such a pinger took a signal and no session has read the settings since. `clear` takes no lock, as in the code.
Publishing and discarding a frame are one step each: they run under `mu`, and nothing
they read can change meanwhile.

Settings are a token and a buffer, written at versions `1..MaxVersion`
(`SettingsAt`), different ones or the same, offered by any user in any order and as often
as it likes. A snapshot
is its sequence number and the buffer it was shaped with; frame validity is a choice
between `Publish` and `Discard`. Whether a frame validates does not depend on the
buffer, so a reshape does not fail. Back-off, ping interval and read deadline may end
at any moment. Hard expiry and decay are computed by `quotable` from the clock and
change no state; they are not modelled.

### LunarSnapshot

`entries` and `order` are the two halves of `snapshotCache`; `chain` is the node's
canonical chain, which `ChainMoves` replaces by any other of `Chains` between any two
steps. A call of a refresh is cut at its RPC reads and at the cache's lock: `Start` (with
`capture`), `Header` (with the look-up among the captured states), `Read`, `Verify`, `Put`, and then
`Apply`, `Behind` or `Reorganised`; `Fail` is every other error. The three modes are
`GetNewPoolState` with the cache, `GetNewPoolStateWithOverrides`, which reads by number,
and `SingleCallSnapshot`, one read without a hash.

The content of a state is the pool and the block it was read of, which is what the
properties tell apart. Decoding and validating answers are one failure. Overrides
given as an empty map read by hash and are not a mode of their own. `confirmed` is a
history variable: the block in hand was canonical at or after the call's last read.

### TickTracker

The chain is a sequence of blocks, each with at most one log of this pool and with the
ticks the contract has after it; `Rewind` and `Mine` reorganise it. The log source is
external: it remembers what it delivered (`sent`), and `Deliver` starts a batch of the removed logs
of the abandoned blocks and the logs of the new ones, up to any height: a reorganisation
may come in several batches, the first of which may end below the blocks it removes. `GetNewPoolState` then runs log
by log (`Removed`, `New`), decides (`NewDone`, `NoLogs`), refetches the touched ticks
and, if they are still not valid, all known ones (`QueryAffected`, `QueryAll`), and
writes the entity (`UpdateState`); `Fail` leaves it, and the batch comes again. `FetchPoolTicks` and
`BootstrapPoolState` happen between batches. A refetch may be answered from the latest
block (`pruned`), and the chain may change between the refetches.

`steady` and `clean` are history variables: no read of this call was of another block or
branch than the one asked for, and none whose result is in the entity was of anything but
a block of the delivered chain. The exactness
properties hold under them and cannot hold without: a tracker cannot know that a node
answered from a later block. `Overreaches` is the one way in which the tracker itself
asks for a block beyond the logs it was given (section 3).

Left out: logs that cannot be decoded, the optional empty log, refetches cut into
chunks of 100 ticks, and the scalar state (price, liquidity), which is always
read at the latest block.

### OpSignatures

An RFQ is `Lookup`, `Answer` (the request to the service), `Store` (with the result)
and `Leave`; RFQs interleave, `Tick` advances the clock and `Cancel` takes an order
away. The cache, its stale-at times, the validity margin and the sweep are those of
`opSignatureCache`. The operator service is external: it signs active orders and renews
an expiry that is nearer than `MinValid`, as the comment at `http_client.go:209` says.
`Timeout` is how long the request of an RFQ may take with its retries, in the unit of the
clock; nothing relates it to `Margin`, and by default it is larger. The clock stands while
an RFQ computes: only the request takes time. An RFQ whose
recipient is a maker's receiver is turned down before it touches any state.

### LimitOrder

A world is a set of simulators with the limit they share: what a router clones and
carries along one candidate route. The loops of `CalcAmountOut` and `CalcAmountIn` are the
recursive functions `Spending` and `Taking`: they visit the listed orders of a direction
by rank, each iteration being `SpendOn` or `TakeFrom`. `UpdateBalance` applies the fills
of a quote in turn (`Updating`) to the orders and to the inventory, ignoring its
refusals; `Clone` copies both.
`owner` says whose copies of the orders a world points to, so that sharing them would
be visible. `ledger` is the history of the fills applied. Orders come with the fills the
backend reports (`filledMaking`, `filledTaking`).

A quote is applied to the world it was computed in, with no other swap in between: that
is how the library is used (`CalcAmountOut`, then `UpdateBalance`, along one route), and nothing
in it says what a quote is worth after its world has changed. For such a stale quote the
inventory may refuse a fill that the order has already booked
(`pool_simulator.go:151`); `LimitMatchesLedger` is not about that case.

The inventory is used as one step per call here; its interleavings and shared numbers
are `SwapLimit`'s subject. Amounts are integers, not naturals: an exact-output quote can
contain negative fills (section 3, `limitorder_exactout`). The taking side of an order has no bound of its own: an exact-output quote
rounds it up, so an order without `AvailableMakingAmount` may record one unit more than it takes.
`OrdersMatchLedger` therefore bounds the making side only. Gas and JSON are left out.

## 3. Runs

| Run | Bounds | Shows |
|---|---|---|
| `backfill` | blocks 0..4, start 1, window 2, two crashes | all seven properties, with every log assignment |
| `swaplimit` | both locked kinds, two objects, two keys, two threads, three trades of three shapes | nothing overdrawn, every trade counted, counts that cover them, isolated balances, every call returns |
| `swaplimit_clone` | the swapped kind, one thread | the clone's swapped count follows the original |
| `swaplimit_unlocked` | the allowed-senders kind, two threads | a trade is lost |
| `feed` | two users, four versions, the last like the first, two frames per connection | safety |
| `feed_live` | one user, two versions, one frame | liveness, with connections that may last for ever |
| `feed_withdrawn` | as `feed`, three versions | a withdrawn snapshot comes back |
| `lunar` | two callers on one pool or two, three chains of up to two blocks, capacity 1 | pure, revalidated snapshots; a bounded cache; progress |
| `ticks` | three ticks, two ranges with a common lower tick, chains of up to two blocks | exact ticks, reverts that heal, a current block number |
| `opsig` | two callers, two orders, clock 0..3, TTL and margin 1, timeout 2, sweep above 0 entries | valid and recent signatures, justified failures, the sweep |
| `limitorder` | 21 books of four orders, some partly filled, two worlds, two swaps, basis point 2 | orders and inventory agree with the fills; an exact input is spent |
| `limitorder_exactout` | as `limitorder` | an exact output is not delivered |

Why the bounds are enough to be interesting. Four blocks above the start with windows
of two give two full windows, a partial one, and targets at, before and behind the
cursor; two crashes allow a restart on a lagging node and a second after it. Two
threads and three trades on a balance of 2 include refusal, exact
exhaustion, the same key on both sides, and one number behind both keys; a second
object appears only by cloning, and the third trade is what it takes for two objects to
add to a count they share, for which two of the shapes (`Mixed`) bring in different
amounts of one key. The four versions of settings change first the token,
then the buffer, then both back to the first ones, so that all branches of `offer` run, the
one for equal settings included; two users give every order of
two offers, and two frames per connection the race of an old with a new one.

The second block of `lunar`'s chain can be replaced and come back, which is the
reorganisation a cache keyed by hash must survive; with capacity 1, two pools evict each other. Two blocks of
`ticks` allow a removed and a new log in one batch, in either order of block numbers, a
batch that ends below the block it removes, a failed update, and a refetch that is answered from the head beyond the batch; the
common tick of the two ranges makes one log undo or reject part of another. The clock of `opsig` is long
enough for an entry to go stale, for an expiry to be renewed or to pass while a request is
under way, which may take longer than the margin, and for a third RFQ to find what the first two
stored in the wrong order; the service starts with expiries that are over, or near. The orders of `limitorder` include two of one maker in one
listing, one of that maker in another pool, the way back, an order without
availability, a reserved one, and both kinds of fee; with a basis point of 2 a
fee of 1 is half of an amount, so that fees round, and an exact output can use up an order
that holds more than what is left, and leave a negative rest.

The theorems of section 5 remove the bounds for all safety properties.

Deadlock is not checked: a finished scan, an exhausted number of trades or swaps, a
closed client and a clock at its bound are legitimate ends.

### What the violations say

Each is a disagreement between a sentence of the repository and the code; the
"findings" quote the sentence.

* `swaplimit_clone`: `swappedIn.Add(swappedIn, ...)` changes a number that clones hold
  (`swapped_inventory.go:54`).
* `swaplimit_unlocked`: `InventoryWithAllowedSenders.UpdateLimit` overrides the locked
  method without locking (`allowed_senders_inventory.go:39`).
* `feed_withdrawn`: between load and store of a reshape, a lock-free clear is lost
  (`feed.go:221-223`, `248-250`).
* `limitorder_exactout`: after an order with a maker fee is used up, its gross amount
  is subtracted from the net amount still to deliver
  (`pool_simulator_calc_amount_in.go:129`), so the quote delivers too little. If the order
  holds more than the net amount, the rest is negative, and the next order gets a fill of
  negative amounts; a proof of `TypeOK` with natural amounts fails there. The orders and
  the inventory nevertheless agree with the fills, negative ones included.

### Exceptions the properties name

Five properties of the passing runs hold with an exception that the code makes
possible. Each occurs within the bounds of its run: without the exception TLC finds a
counterexample there.

* `SwappedCoversTrades`, unless the number is in `torn`: trades on an original and on its
  clone add to the shared number at once, each under its own lock
  (`swapped_inventory.go:50-55`), and one addition is lost. `GetSwapped` then reports less than was
  swapped.
* `FreshestSettings`, unless `ChangedBack`: equal settings do not raise the version
  (`feed.go:202`, `209`), and the tracker writes unchanged settings at every new
  timestamp (`nemo-prop/pool_tracker.go:43-53`). Settings A, B and A again, offered as first,
  last, second, end on B, although "offer adopts s if it comes from fresher pool state"
  (`feed.go:199`).
* `TokenReachesServer`, unless `lost`: a pinger of an ended session whose select finds both
  `stop` and `reconnect` ready may take the rotation signal (`feed.go:334-348`). The
  connection that should have been replaced then stays for as long as it lasts, although
  "a settings rotation reconnects immediately" (`feed.go:263-264`).
* `RevertHeals` and `TicksExact`, unless the batch `Overreaches`: `GetBlockNumberFromLogs` looks
  at removed logs too (`log.go:17`; `GetLatestBlockNumberFromLogs` below it does not). If a
  batch ends below the blocks it removes, say with blocks 6 and 5 removed and a new block 5, the
  ticks are read at block 6 of the new branch, whose log is still to come and is then
  applied to ticks that have it.
* `ValidOnReturn`, for RFQs within the margin: by default the margin is 24 seconds, a
  request may take 30, and retries multiply that (`http_client.go:19`, `227`). What was found
  in the cache is not looked at again after the request for the others, so it may have
  expired when it is returned.

### Limits of the code that no sentence contradicts

Met while modelling, and worth knowing; no run is about them.

* `fromBlock+MaxBlockRangePerScan-1` wraps (`backfill.go:109`) for ranges near 2^64
  ("no limit"); the scan then never ends, but loses nothing.
* The override path of lunarbase reads by number and verifies the hash afterwards
  (`helper.go:183`): a reorganisation there and back in between goes unnoticed.
  `SnapshotIsPure` promises only the height for that mode.
* The signature of an order cancelled after it was cached is served until its entry is
  stale. `StalenessBounded` says how long that is.

## 4. Fairness

* `Backfill`: the caller keeps calling and saving (weak fairness of its steps); a call
  repeated for ever succeeds some time (strong fairness of the successful outcomes,
  which an error disables between retries). Crashes are bounded, mining is not
  promised.
* `SwapLimit`: goroutines run on, and a waiter takes a lock that stays free (weak). That is
  enough because trades are bounded; with trades without end a waiter needs that a Go mutex
  does not starve it. Nobody is obliged to trade or clone.
* `NemoFeed`: goroutines run on; mutex and `select` do not starve a waiter or a ready
  case; a server dialled for ever answers. Nothing is assumed of connections: one may
  last for ever, which is when a lost signal matters.
* `LunarSnapshot`: a call that was started runs on (weak), and every pool is polled
  again and again without logs or headers (strong, since calls with logs may come in
  between). That the chain rests and calls stop failing is a premise of
  `CatchesUp`, not a fairness assumption.
* `TickTracker`, `OpSignatures` and `LimitOrder` state safety only: their progress is
  up to callers outside the repository.

## 5. Proofs

All theorems hold for every value of the constants that satisfies the named
assumptions (`ConfigAssumption`, `NoneAssumption`; `LimitAssumption`,
`AbsentAssumption`; `FeedAssumption`, `NilAssumption`; `SnapshotAssumption`;
`TickAssumption`; `SignatureAssumption`; `BookAssumption`): the types of the parameters
and that the markers for "nothing" are not values. `ConfigAssumption` also says that a
chain is short of the modulus, and `BookAssumption` what a
book is: an order reports no more available than is left of it, or, if it reports
nothing, was filled no further than it offers and at no better a rate for the taker;
it gives and gets different assets, and orders of one maker agree on what the maker holds. TLC evaluates them in every run.

**Backfill.** `ScanInv` is inductive. The property `CursorBehindStore` is not: a reply
in the caller's hands will move the cursor when it is saved, so `ReplyOK` says that a
successful reply either has nothing left or is exactly the next window, with exactly
its pools, and that those are stored once the caller is past that step; `TargetOK`
ties the target to the mined blocks, and completion to the cursor. From it follow
`TypeCorrect`, `CrashSafe`, `Sound`, `CaughtUp`, `Forward`, and `Refines`: each step is
a step of `PoolDiscovery` or leaves its variables unchanged. `CaughtUp` holds for the
wrapped arithmetic too: the overflow endangers only the end of the scan.

**SwapLimit.** `BaseInv` holds for all three kinds: types, what a thread in a call or
in a clone holds, all numbers natural, and `Separate`, which says that no cell of a
swapped count, the only cells changed in place, is a cell of a balance. It gives `NeverOverdrawn`
(even without the lock: the number written was checked before it was computed) and
`Isolated`. `LedgerInv` adds mutual exclusion and, for each point of `updateLimit`, how far the
object's balances are from its ledger; it gives `TradesCounted` and `SwappedCovers`. For the latter it says that a thread between the read and the write of a count has read
what is still there, unless the number is in `torn`, and that no two threads are in
between on the same number otherwise.
`TradesCounted` assumes that `"allowed"` is not among the kinds; `swaplimit_unlocked`
shows why it must.

**NemoFeed.** `FeedInv`: the lock is held exactly by the users inside it, a call's
fields match its position, snapshots have the current buffer except where a holder of the
lock is about to reshape them, a snapshot of the current connection is not ahead of
`lastSeq`, what is being reshaped is still the cached snapshot unless it was cleared,
and a frame about to be published has a sequence number. It gives
`FeedTypeCorrect`, `AlwaysShaped` and `NeverBack`. `FreshInv` adds that the
freshest version whose offer has returned is at most the version in use or carries the
settings of a version that is; it gives `FreshestAdopted`, with no assumption on the
settings.

**LunarSnapshot.** `SnapInv` is needed because what a call publishes was put
in hand several steps before. Every cache entry is the state of the pool and block of its key, and
so is every captured one; a call that holds a block and a state holds matching ones, according
to its mode; and the block was canonical since the last read once it is past the
verification. That last part is kept by the chain's moves, since `confirmed` never becomes
false within a call. It gives `SnapshotTypeCorrect`, `PureSnapshots`,
`Revalidated`, `BoundedCache` and `OnlyForward`.

**TickTracker.** `TickInv` says of the node's chain, of the delivered one and of the
batch's that each block's ticks follow from its log (`Follows`), that blocks without a
log leave the ticks alone over any distance (`Steadfast`), and that a tick without
liquidity is as good as absent (`Cleared`). `Steadfast` is a consequence of `Follows` by
induction on the distance; it is carried as part of the invariant instead, where each
step extends it by one block. On top of that: the
entity has the delivered chain's ticks if `clean`, and no log above its block number
(`EntityOK`); while removed logs are read, the ticks they have not named are at the
height reached what they were at the end (`RemovedOK`); while new logs are read, the
accumulated ticks are those of the height reached, or, after a removed log, the ticks
not named are (`NewOK`); after a refetch the named ticks are those of the batch's end
too (`FetchOK`), for which the block that `GetBlockNumberFromLogs` picks must have all
new logs at or below it (`BatchOK`), and must not be beyond the batch (`Overreaches`). It gives `TrackerTypeCorrect`, `ExactTicks`, `RevertsHeal` and
`NumberCurrent`.

**OpSignatures.** `SigInv`: no entry outlives its signature's issue by more than
`Timeout` and the TTL, late stores included (`EntriesOK`); an RFQ in progress is not
older than `Timeout`, what it found was usable when it looked, what it fetched was
issued since and for at least the minimum valid time, and what it requires is found,
still to be fetched, or not active (`RfqOK`).
It gives `SignatureTypeCorrect`, `SignaturesValid`,
`SignaturesRecent`, `MissingJustified` and `CacheSwept`.

**LimitOrder.** A quote is computed before it is applied and cannot book what it uses,
so `BookInv` has a part for each half of a swap.

* Of every quote in hand, `QuoteOK`: its fills are of distinct orders of one direction; each
  fits what is left of its order (`Fits`); and with those before it
  (`Drawn`) stays within the limit of its maker. It is proved by induction over the ranks, with
  what `SpendOn` and `TakeFrom` do to the fills and to `used`.
* Of every world, that its copies of the orders are its own, agree with its ledger
  (`OrderOK`), and that its limit is the makers' balance (`LimitOK`). That
  `UpdateBalance` keeps it is proved by induction over the fills (`ApplyOK`): the limit covers the fills
  still to come, so the inventory refuses none of them.

An order without an available amount has only its own amounts to bound it, and a fill of
it is computed from the taking side. `OrderOK` therefore carries the rate of what was filled,
`making * d.taking <= taking * d.making`: such an order never gave more per unit than it
offers, so that what is left to take never buys more than is left to give. `SpentOK` is
proved by induction over the ranks too: what is left plus what the fills charge is
the amount quoted (`SpentSoFar`), and on the last order the fee, rounded up, of an amount rounded down
loses at most one unit and never overspends.

It gives `TypeCorrect`, `OrdersCorrect`, `LimitCorrect` and `ExactInCorrect`.
`LimitMatchesLedger` asks that all of a maker's orders carry balances: an order without
one is not held to the limit, and a maker without a balance in an asset gets one from what it takes in.

The library's induction theorems take an operator as parameter, which the provers
cannot instantiate. `IterationProofs` therefore states induction with a set
(`Induction`), proved from the smallest counterexample (`WFMin`), and derives from it that a
recursive function on `0..n` exists, with functions for its steps (`Iteration`), and the facts about
`Sum` that the balances need: extending it, and changing one summand.

Only model-checked: `EventuallyStops`, `UpdateReturns`, `TokenReachesServer`, `CloseStops`
and `CatchesUp`, which need fairness and are out of the prover's reach. Every invariant and
every action property of the passing runs is a theorem.

## 6. Not modelled

* The simulators and math ports of about 160 exchanges, which with generated contract
  bindings make up nearly all of the repository's lines. They are sequential,
  deterministic 256-bit arithmetic that promises agreement with contracts outside
  the repository; small instances of the numbers would say nothing about them, and the
  tests compare them with chain data. This is also why the map covers a small share of
  the repository: the stateful code it covers is a small share of it.
* List updaters, most trackers, the limit order tracker and the batched RPC helper: plain
  reads that replace an entity as a whole.
* Registries, `msgpack` and ABI bindings: initialisation and generated code.
* The nemo-prop simulator: only its use of the feed is modelled.
* The single-swap limit, the arena helper cache and the angstrom attestations: one or
  two variables each, without a promise that could be violated. The
  last two are listed as hazards without a property.
* Of modelled parts: what section 2 lists as left out under each module.

What could follow: a bound on how much an exact output can fall short (the fees of the
orders used up); the undecodable logs and chunked refetches of
`TickTracker`; the trackers of other concentrated-liquidity exchanges, which follow the same
scheme with variations.
