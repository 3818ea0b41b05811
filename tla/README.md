# Verification of lapuacore

TLA+ models of lapuacore, the Go library under `src/` that connects trading
strategies to the exchanges CoinEx and Bybit, with TLC runs on small instances
and TLAPS proofs for all instances. `PROJECT.json` lists, for every definition,
the source lines it models, and all runs, faulty variants, hazards and theorems.

To check a run: `tlc -config Dealer.cfg MCDealer` (the second name is the
module the run uses). To check proofs: `tlapm DealerProofs.tla`.

## 1. The system

| Part | State | Operations | Meets |
|---|---|---|---|
| Dealer (`domains/deals`) | orders with status, callbacks and operation lock; LivingOrders, doneOrders, amendingDetailMap, acceptOrder | SendOrder(s), AmendOrder, CancelOrder(s), ExportDoneOrders; handlers of HTTP answers and order frames | agents (requests, answers), private channel (frames), strategy |
| Position, orders of others | CurrentPosition, UnrelatedOrders | HandlePositionData, HandleOrderData | private channel |
| Agents (`gateways/exchanges/*/agent`) | quotas | endpoints, `consume`, delayed refill | Dealer, exchange |
| Channel (`gateways/channel.go`) | status, signals, one receiver, health checker and author per connection | connect, reconnect, stop | network, topic managers |
| Topic managers (`ws/topics`) | topics by name, request IDs | subscribe, answers, routing | channels, insights, Dealer |
| Channel group and deduplication | TTL cache | filter, cleanup | channels, topics |
| Order book, quote, trades (`domains/insights`) | price levels, best levels, previous ones | snapshot, delta, update, queries | channels, strategy |
| Configuration (`configs`) | parameters, cache, failed keys, file watch | reload, typed getters | editors, strategy, shutdown |
| Metrics | aggregates, history, queue | record, aggregate, export | channels, InfluxDB |
| Start and shutdown (`initializers`) | context, gateways, readiness | InitAndStart, InitInsights, StartGateway, waits, signal | all |

What is hard here: nearly everything runs on several goroutines. Answers over
HTTP and frames over a websocket tell of the same order in either order. An
operation that cannot run now is deferred to a callback of the one in flight,
which runs later on another goroutine, in one case without the lock. Redundant
channels deliver the same messages at different times. Connections are replaced
while the goroutines of the old one still run. Quotes and books are read while
they are updated. `hazards` in `PROJECT.json` has each of these at its line.

## 2. The modules

A definition whose name starts with `Bad` is a faulty variant of the one after
it. No specification uses it; it records a plausible mistake that a property
catches. Modules keep a type invariant `TypeOK`; the proofs use it, and it is
not among the properties of the runs. Modules that a proof module extends
together have prefixed names for their specifications (`AgentSpec`, `DedupSpec`,
`StartupInit`, `LocksNext`, ...); the others have `Init`, `Next` and `Spec`.

**Dealer** (`Multisets`, `Dealer`, `MCDealer`). Every goroutine is a task in a
multiset: a client call between two acquisitions of an order's lock, a request
on its way, its answer, a handler that has looked its order up and waits for the
lock, a callback. A section under the operation lock is one action, with two
exceptions: the sections the unlocked deferred cancel can write into, and those
that end an order, are several. An order that ends leaves LivingOrders in one
step and comes into doneOrders in a later one (`AppendDone`). The two are under
different mutexes, and the goroutine that appends reads the field `doneOrders`
without the dealer's lock, under which ExportDoneOrders replaces it: so the
order may come into the new slice or into the one just handed out (`appending`
is then "swapped"). The exchange may apply a request whose answer is an error.
Its frames can be lost, as they are when the private channel reconnects, and
nothing asks for them again; `missed` remembers the orders whose fill was lost
so. Abstractions: prices and
quantities are one *detail*; timestamps, fill amounts and the strategy's own
callbacks are left out; every order is sent once; one SendOrders at a time; the
client cancels orders it has sent; the answers to a batch are handled order by
order, in any order, where the code has one loop. CancelOrders' section is one
step, which OpLocks justifies. Not covered: an unlocked cancel whose whole HTTP
roundtrip falls between two neighbouring instructions of another section.
`amendCount` is never incremented, so `isAmendAble` is always true.

**OpLocks**, **Sections** (`MCOpLocks`). The locks taken one by one in any order
(`Unique` ranges over a map), against the abstract specification that a section
starts on all of its orders at once and alone.

**Account** (`MCAccount`). Position and UnrelatedOrders as the frames of an
exchange change them, with each exchange's translators. Frames are in order and
can be lost with a connection. Before the process starts the exchange may have
a position and resting orders, partly filled ones among them, of which the
dealer knows nothing; the process's clock may be ahead of the exchange's
(`startedAt`). A position frame of Bybit has one or more data, of one-way or
hedge mode, and `extractable` has each of the reasons for which
extractPositionData refuses one. `told` remembers that a frame has called an
order open, and `reportedAt` when the position was last reported. The dealer's
own orders are in Dealer.

**Agent** (`MCAgent`). Quota groups of both exchanges, `consume`, refills that
come late but never early, and answers. Time passes in ticks, `Second` of them
make a second. Calls are numbered, which tells apart the goroutines and requests
they leave behind; `recent` remembers the units of the last second.

**Channel** (`MCChannel`). Start's select loop and, for every connection ever
made, its receiver, health checker and author. Unbuffered Go channels are
rendezvous; a send on a closed one panics, a receive from one succeeds. Writes
are single steps. The signal buffer of 1000 is `SigCap`. Topic messages are left
out: the receiver hands them on without touching the channel's state.

**Dedup** (`MCDedup`). AddIfAbsent of the TTL cache, lock section by lock
section, with the cleaner; message identifiers of both exchanges. `Spread` is
the time from the arrival of a message's first copy to the last look-up.

**OrderBook** (`MCOrderBook`). The exchange's book is part of the model; it
publishes numbered snapshots and deltas, which handlers take in order and apply
when they get the lock. Sides of the exchange's book are never empty.
**BookQueries** has the queries on one side as operators over its levels, which
`Visit` runs through in the order of the tree; where the code ends a loop early,
the steps that remain change nothing. Division is rounded to `1/Precision` as in
the decimal library (10^16 there). `MCOrderBook` applies the queries to both
sides of the book while the callbacks of an update run.

**Quote** (`MCQuote`). Update setter by setter under the handler lock, with
readers. Messages with higher numbers are not older.

**Config**. A file is an inode with a version; editors write in place, rename
and create, or rename over the path; fsnotify's events, the watcher's steps and
the getters' cache. fsnotify and editors are external. The path is given in the
form fsnotify reports in its events, or in another form of the same path, and
`handleEvent` compares the two as the code does. `Get`, which returns the raw
string, touches no cache and is left out.

**Metrics** (`MCMetrics`). Latencies from record to point, custom metrics,
exports that overlap and fail. Latencies and custom metrics are numbered as they
are recorded, and an aggregate carries the samples it stands for, which the code
forgets. A write may fail, or never return: the InfluxDB client is made without a
timeout. Discarding in noop mode is one step.

**Startup** (`MCStartup`). The main goroutine as in `examples/book-monitor`, one
feed and one topic manager per exchange, the wait for readiness, signals, the
watcher's cancel. A topic manager keeps its topics under the names the exchange
uses; the model has those names, the requests, the answers (a refusal is only
logged), the routing of frames by name, and what each kind of frame leaves
ready: a one-sided frame of depth 1 updates no Bybit quote, and Bybit's
readiness does not look at trades. CoinEx's request IDs, which only choose what
is logged, the private channel, InitDeals and the heart beat are left out. The
3 seconds of grace at the end are shorter than the 10-second timer.

### Composition

Dealer composes the dealer with agents, exchange and websocket (the agents only
as accepting or failing; Agent has their inside). OrderBook composes the book
with the exchange and the group's handlers, whose messages Dedup shows to be
processed once, and with BookQueries. Startup composes main goroutine, topic
managers, exchanges and insights; it takes the channels of an exchange as one
feed, whose inside is Channel and Dedup. OpLocks implements Sections.

## 3. The runs

| Run | Module, configuration | Properties | Shows |
|---|---|---|---|
| dealer | MCDealer, Dealer.cfg | OperationIsAnswered, AmendingHasDetail, SentIsAccounted, DoneIsNotOpen, OperationEnds, FillEndsOrder | One limit order under three client calls (single and batch) and any exports: every interleaving of sends, deferred amends and cancels, their callbacks, late answers, errors, fills and lost frames keeps the order accounted for, its entry final once no goroutine is left to end it, its operation answered, and ends the operation. |
| dealer_batch | MCDealer, DealerBatch.cfg | OperationIsAnswered, FillIsNeverMissed | A limit and an IOC order sent and canceled as a batch and one by one, with errors of the whole batch, lost frames, and partial fills that end one of them. |
| op_locks | MCOpLocks, OpLocks.cfg | ImplementsSections, SectionRuns | Two batch callers and a single caller on three orders: the sections are atomic, as module Sections specifies them, and every caller gets to run its section unless the two batches deadlock. |
| agent | MCAgent, Agent.cfg | WindowLimit, QuotaRecovers | The quotas of both exchanges under every interleaving of four calls, late refills and answers: no second sees more units than the limit, and the quotas are full again in the end. |
| account | MCAccount, Account.cfg | PositionFollows, DoneOnce, TracksOthers | Two orders of others on either exchange, there before the process or entering with and without a fill, filled, amended and cancelled, a position held at the start, clocks that differ, changes within one millisecond, reports in hedge mode or two in one frame, and a lost connection: the position follows what was reported in time, and manual orders are tracked and handed over once. |
| channel | MCChannel, Channel.cfg | ConnectedIsSettled, PanicsOnOldOnly, LostIsReplaced, Reconnects | A public channel with three network faults and a private one with a fault and pings: main loop, receivers, health checkers and authors of the present and of the replaced connections in every interleaving. |
| dedup | MCDedup, Dedup.cfg | ProcessedOnce, DroppedIsProcessed | Two redundant channels, either exchange's identifiers, copies before, at and after expiry, and the cleaner: each message in time is processed once, and none is dropped for which no other stands. |
| order_book | MCOrderBook, OrderBook.cfg | BestInSync, FollowsExchange, AvgIsRoundedDown, SumVolumeIsRequired, QueriesAgree, LevelsNeverAge | Two handlers take and apply snapshots and deltas in any order: the best levels are those of the book, no row gets older, a book updated in order is the exchange's, and the queries on every book that arises return what an order really takes. |
| quote | MCQuote, Quote.cfg | OneMessage, NewestHandled, DiffNeverBackward | Three goroutines deliver four messages in any order and any number of times, two of them of the same moment: between updates the quote is one whole message, the newest handled. |
| config | Config, Config.cfg | QuietIsCurrent, NeverOlder | Three edits of every kind at any moment beside two readers: given the path as fsnotify reports it, the parameters are those of the file once the events are handled, unless the watch is gone; given another form of it, events are dropped; no getter returns an older value than before. |
| metrics | MCMetrics, Metrics.cfg | SamplesConserved, PointsAreRight, MetricsOnce, SamplesLeave | Latencies, negative ones among them, and custom metrics through two overlapping exports, with failing writes, noop mode and shutdown: none is lost without a failed write or counted twice, every point is right, and every sample leaves unless a write that never returns holds it. |
| startup | MCStartup, Startup.cfg | ReadyWhenRunning, AllTopicsSet, WaitEnds, Stops | Two exchanges with two insights each, all modes: a strategy that runs has the data of every insight that is asked (trades of Bybit are not), every topic is set once, the wait ends unless data is refused or goes to another insight of the name, and a signal ends the process wherever main is. |

Every property of a run has a faulty variant of the code (`mutants` in
`PROJECT.json`) that makes the same run fail.

### Bounds, and why they are enough

| Model | Bounds | What they let happen |
|---|---|---|
| Dealer | `dealer`: 1 order, 2 details, 3 client calls besides exports, 3 requests, 2 frames under way; `dealer_batch`: 2 orders of different types, 1 detail, 2 calls, 2 requests, 1 frame besides the one in the handler | orders interact only through batches, for which two suffice; three calls fit a send, an operation deferred to it and another during its callback; a fill waits behind a partial one while answers end the order; exports fall between any two steps |
| OpLocks | 3 threads, 2 of them with batches, 3 orders | batches that share two orders, in either order, and a single caller on one of them |
| Agent | a second is 2 ticks, 4 calls, quotas of 1 to 3 | a refill late by a part of a second, calls on both sides of a window's edge, batches larger than what is left |
| Account | 2 orders of size 2, a position of 1 at the start, the process's clock then at 0 or 1 and the exchange's up to 1, 1 loss, 2 frames under way | partial fills, changes in one millisecond, reports before and after the start by the process's clock, a loss between two frames. The orders are symmetric, and TLC is told so |
| Channel | `SigCap` 2, 3 faults of a public channel, 1 fault and 1 ping of a private one, 1 retry of the author | a fault during each step of the reconnection from the fault before; more signals than one reconnection drains |
| Dedup | 2 channels, TTL 1, spread 2, time up to 2, 3 messages of each exchange | copies before, at and after expiry, around each cleaning; the channels are symmetric |
| OrderBook | 3 prices, volumes up to 2, 3 updates, 4 messages, 2 handlers, tick 2, precision 100 | a level removed and set again by an overtaking handler; a best level that changes; divisions that round. The handlers are symmetric, and TLC is told so |
| Quote | 3 handlers, 4 messages | an update overtaken by two newer ones; two messages of one moment |
| Config | 3 edits, 2 readers, 1 key, 2 types, both forms of the path | each kind of edit between any two steps of the watcher; a key read as two types at once |
| Metrics | 2 records and 2 custom metrics, 2 exports at once, 1 measurer with 1 aggregated map waiting | an export overtaken by the next, while samples arrive |
| Startup | 2 exchanges, 2 insights each (a Bybit trade among them), 3 modes | one exchange ready, refusing, failing or stopping while the other is not |

### Fairness

Goroutines that can run are scheduled (weak fairness of their steps). Beyond that:

- Dealer: a request ends, with an answer or an error, and the websocket reader
  goes on. Bybit's HTTP client has a timeout; CoinEx's sets none, so for it this
  is an assumption on the network. Clients need not call.
- Agent: time passes, and a refill whose time has come is made.
- Channel: every ready case of the select is taken in the end (Go picks among
  ready cases at random). Faults are bounded, and none has to happen.
- OpLocks: strong fairness of taking a mutex, which Go's starvation mode gives;
  sections return.
- Metrics: tickers tick. Writes to InfluxDB need not return, as its client has no
  timeout (`metrics/influxdb.go:11-20`).
- Startup: an exchange answers requests and sends whole frames of the topics it
  has accepted, and the timer that forces the shutdown fires.

## 4. The proofs

The theorems hold for every value of the constants. Their only assumptions are
the `ASSUME` of the module they are about, which says what the constants are
(numbers, sets of orders, messages whose times do not run against their numbers).

| Theorem | States | For all |
|---|---|---|
| DealerProofs: TypeCorrect | TypeOK | orders, order types, details, batches, bounds |
| DealerProofs: AmendingDetail, OperationsAnswered | AmendingHasDetail, OperationIsAnswered | the same |
| DealerProofs: SentStaysAccounted, FillsAreHandled | SentIsAccounted, FillIsNeverMissed | the same |
| DealerProofs: DoneStaysClosed | DoneIsNotOpen | the same |
| AccountProofs: PositionIsFollowed, OthersAreTracked, HandedOverOnce | PositionFollows, TracksOthers, DoneOnce | orders, sizes, positions and clocks at the start, losses, times |
| GatewayProofs: ConnectedStaysSettled, OnlyOldPanics | ConnectedIsSettled, PanicsOnOldOnly | faults, pings, retries, buffer sizes, so any number of connections |
| GatewayProofs: MessagesProcessedOnce, NoneDroppedForNothing | ProcessedOnce, DroppedIsProcessed | channels, messages, times to live |
| GatewayProofs: WindowIsLimited | WindowLimit | capacities, orders, batches, calls, lateness of refills |
| OrderBookProofs: BestStaysInSync, LevelsAreNeverOlder, BookFollowsExchange | BestInSync, LevelsNeverAge, FollowsExchange | handlers, prices, volumes, messages |
| OrderBookProofs: AveragesRoundDown, SumVolumesAreRequired, BookQueriesAgree | AvgIsRoundedDown, SumVolumeIsRequired, QueriesAgree | the same, tick sizes, precisions |
| LockProofs: LocksImplementSections | ImplementsSections | threads, orders, batches |
| LockProofs: QuoteIsOneMessage, QuoteIsNewest, DiffComparesWithOlder, QuoteMovesForward | OneMessage, NewestHandled, DiffNeverBackward, no field moves backward | handlers, messages |
| ProcessProofs: QuietMeansCurrent, ValuesDoNotAge | QuietIsCurrent, NeverOlder | readers, keys, types, edits |
| ProcessProofs: ReadyBeforeRunning, TopicsAllSet | ReadyWhenRunning, AllTopicsSet | sets of insights of the two exchanges, modes |
| MetricsProofs: PointsRight | PointsAreRight | latencies (negative ones too), milliseconds, measurers, topics, exports |
| MetricsProofs: SamplesAreConserved, MetricsCountedOnce | SamplesConserved, MetricsOnce | the same, records, custom metrics |

BookQueriesProofs has the lemmas behind the second row of OrderBookProofs, which
hold of any side of a book. Components whose proofs share lemmas or a subject
share a proof module: the parts of a gateway, the two locks, the process around
the strategy.

Each rests on an inductive invariant:

- **Dealer.** TypeOK is inductive once the lemmas on multisets say which tasks a
  step leaves. The other properties need it because a task's order, and so the
  lock it holds, is part of its type. AmendingHasDetail and OperationIsAnswered
  are inductive beside it: every step that makes an order busy starts the task
  that ends the operation, and a task goes away only when its handler has run.
  `AccountInv` adds what an order is before and after it is sent: an order that
  was never sent is unknown to dealer and exchange and has no task but its send
  and early amends (BornIsUnknown, BornTasks), is sent once (SentOnce), its
  callbacks are its own (CallbacksAreOwn), and the frame the reader holds is of
  an order that was sent (ReadIsSent). Without these a stray send could put a
  Done order back into LivingOrders, or a fill be read before its order is. An
  order that was sent is living, done or on its way between the two (Accounted),
  and a fill is on its way unless it was lost (FillIsNeverMissed). The second
  half of SentIsAccounted, that the entry of a settled order is final, is proved
  of every step from AccountInv: a task of an order that has left LivingOrders
  ends it only from EndingSteps, and no task comes to one of these from another
  step, since each look-up finds no order (StepLeaves, SettledStep,
  SettledOthers).
  `OpenInv` says that what a goroutine, a frame or an order has learnt of the
  exchange is true and stays true (Truthful, TruthfulFrame, TruthfulOrder): "ok"
  to a cancel means the order is closed, a frame of a fill that it is filled,
  and a Pending order, or a goroutine that only follows an accepted create, that
  the exchange has the order, so that "does not exist" can only mean that it is
  closed. This last part needs that the order is never in a CancelOrders with
  others (CanceledAlone): the proof failed without it, and TLC showed why, with
  the behaviour at `dealer.go:298` in section 5.
- **Account.** The frames on their way tell what the dealer does not know yet:
  reports of the position come in the order of the clock, so only those dated
  before the process's own start are refused as too old, and the last one, if it
  was neither lost nor in one frame with another, tells the position
  (Positions); an order's end is its last frame (Ends), and what is in doneOrders
  has no frame left; orders that no frame opens are not tracked (Kinds), and of
  the others, without losses, an untracked one has a frame that opens it on its
  way, and a tracked one is open or its end is on its way (Tracking).
  PositionFollows and TracksOthers speak only of an empty wire, so they say
  nothing of the step that empties it.
- **Channel.** From the dial to the subscription the signal buffer is empty
  (Emptied), which is what makes Connected settled when the loop begins. A
  health checker or author has ended only if its connection was given up, or
  with no answer outstanding (Orderly), which is what confines panics to old
  connections.
- **OrderBook.** Exclusive: a goroutine that changes the book holds the handler
  lock, alone. Typed: SeqIDs are numbers, so that they compare. For
  FollowsExchange: goroutines work on the messages they took (Queue), the
  exchange numbers deltas upward (Ascending) and no row is newer than the last
  message applied (NoneNewer), so that no delta applied in order is taken for
  old; the last message about a price tells the exchange's volume (LastTells),
  and in sync the book has the exchange's volume wherever no message is still to
  be applied (Following).
- **Book queries.** They are functions of a side, so the only invariant they need
  is Typed; the work is in what the loops compute. A side is a list of prices in
  the order of the tree (PricesListed), and each loop is a fold over it, which is
  unfolded to its value after each level (the lemmas `...Folds`). SumVolume is
  then the sum of the volumes before the place at which the prices pass the given
  one, and AvgExecPrice's sum that of whole levels and a part of the last
  (SumVolumeIs, WeightedSumIs); two neighbouring quantities differ by the price
  of the level in which the greater one ends, which gives SumVolumeIsRequired.
  That no other way of taking a quantity is better is an exchange argument
  (GreedyIsBest): compare both, level by level, after subtracting from every
  price that of the last level taken. The rounding (TickBelow) is two roundings
  to the nearest `1/Precision` and one down to a tick. It gives the tick at or
  just below the average if `qty * (TickSize + 1) < 2 * Precision`, a condition
  in the definition of the property: an average can be as close as `1/qty` to
  the tick above it, and a coarser quotient may be rounded up to that tick.
- **OpLocks.** A thread owns the locks it has taken and not released (Owned), on
  distinct orders, and those are one of the batches (ChoseBatch). The refinement
  mapping takes a thread to be in its section from its last lock to its first
  unlock.
- **Quote.** One handler at a time (Mutex), and for each point of the update,
  which fields are set already (Stage): between the setters the quote is not one
  message, so OneMessage alone is not inductive.
- **Config.** Versions only grow on the way from file through reload to cache
  (AgeInv). A watch that is off the file will be renewed, and a valid file is in
  the parameters or on its way there, as an event or in the hands of the watcher
  (CurrentInv), if the path is in the form of the events: QuietIsCurrent speaks of
  quiet states only.
- **Dedup.** Every entry of the cache and every discarded copy has somebody who
  processes the message (NoGap), looked-up copies carry times in order
  (WorkInTime, PastIsPast), the entry of a claimed message stays for the time to
  live of its first copy, the cleaner's pending deletions included (Remembered),
  and at most one channel claims it (Alone).
- **Agent.** A group's quota and the units its sleeping goroutines will give back
  are together its capacity (QuotaIsShared), and every unit of the last second
  belongs to a goroutine that still sleeps (RecentSleeps), each call having its
  own (SleepersOK). WindowLimit alone says nothing of the quota, so it does not
  survive the next call.
- **Startup.** For ReadyWhenRunning: what was found ready stays ready, as insights
  only receive more, and main runs the strategy only after every exchange was
  found ready (ReadyInv). For AllTopicsSet: of a started gateway the manager has
  the topics of all insights under their names, and each name is in one request,
  accepted or refused (TopicsInv). Both have the exceptions that section 5 lists
  (trades of Bybit, two insights with one topic) in their definitions.
- **Metrics.** RightInv: an aggregate and the points made from it are right about
  the samples they carry, in a measurer's map, in its history, in an export and
  in the bucket; the average is rounded towards zero twice, once as a duration
  and once to milliseconds. SamplesInv and CustomsInv: of the numbers given out
  each is in one place, the others in none. A place is a position (a measurer and
  topic, an entry of the history, a point of an export), so that a step moves
  numbers from one position to another and "one place" is a fact about positions,
  not a sum over containers.

`OpenInv` was checked by TLC, before it was proved, on the instance of `dealer`
and on part of one with two orders in a batch; the other strengthenings on the
instances of their runs.

Sums, lists and folds need induction over data, for which the provers can apply
no induction rule. It is replaced by a least counterexample: a set of naturals
that is not empty has a least element (WellOrder, from the well-foundedness of
`<`), so a set that has 0, and with each number the next, has all of them (UpTo).

Only model-checked is liveness (LostIsReplaced, Reconnects, OperationEnds,
FillEndsOrder, SectionRuns, QuotaRecovers, SamplesLeave, WaitEnds, Stops), since
the prover has no rule for fairness and ENABLED. Every safety property of the
runs is proved.

## 5. Where code and documents differ

Modelling showed these disagreements between the code and what the repository
says of it. The models follow the code. Where a property of a run would run
into one, it has the exception in its definition and its comment says so.

| Code | Said at | What the code does |
|---|---|---|
| `domains/deals/dealer.go:252` | `README.md:31-39`: no transition out of Done | The deferred cancel takes no operation lock, so it can move an order that a fill has just ended from Done to Canceling. |
| `domains/deals/dealer.go:205` | `dealer.go:134`: an amend of an order "currently being sent or amended" is deferred | An amend refused because another is in flight resets the order to Pending, and a further amend is sent at once. |
| `domains/deals/dealer.go:170` | `README.md:41`: "Multiple Amend requests retain only the last one" | Callbacks stay registered after they have run, so an order deferred to twice keeps two. |
| `domains/deals/dealing_handlers.go:50`, `:145` | `dealing_handlers.go:42`, `:136`: "If the order was already confirmed via WebSocket, it is ignored" | The handlers look the order up before they take its lock, and the error paths (and acceptCancel) do not look again: an order that a fill has ended meanwhile is appended to doneOrders a second time, with its reason overwritten. SentIsAccounted says when this ends. |
| `domains/deals/dealer.go:325` | `dealer.go:321`: "exports completed orders and resets the internal slice" | Appenders do not take the dealer's lock, so a slice that has been handed out may still grow by an order that was being ended. |
| `domains/deals/dealing_handlers.go:231` | `README.md:29`: reconciles "fills, cancels, expiries" | An order the exchange cancels by itself stays in LivingOrders, and so does one whose fill was lost with the connection: nothing asks the exchange again. FillIsNeverMissed and FillEndsOrder have the lost fill as an exception (missed). |
| `domains/deals/dealer.go:298` | `dealing_handlers.go:231-233`: Sending→Pending is driven by the HTTP answer | An error of CancelOrders makes all its orders Pending, a Sending one it had only deferred to included. A second cancel is then sent before the create, is answered "does not exist", and the order ends as abandoned and rests at the exchange when the create arrives. DoneIsNotOpen has this exception (CanceledAlone). |
| `domains/deals/order.go:138` | `README.md:83`: WithOpeLocks acquires locks "on multiple orders at once" | Two batches that share two orders can take their locks in opposite orders and wait for each other for ever. |
| `domains/deals/order_data.go:45` | `README.md:89`: orders of "other bots" are UnrelatedOrders | An order with a client ID of another bot is not tracked. |
| `domains/deals/dealing_handlers.go:192` | `README.md:89` | A manual order that was open before the process started, or was partly filled as it entered the book, is not tracked until a frame calls it open, which on Bybit none does after a fill. TracksOthers speaks of orders a frame has called open (told). |
| `domains/deals/position.go:30` | `README.md:89`: "cleanly isolates position calculations" | The position starts at zero, whatever is held, and reports dated before the process's own start are refused. PositionFollows has this exception (reportedAt). |
| `domains/deals/dealing_handlers.go:390` | `dealing_handlers.go:346`: "processes position updates" | A frame with two one-way data is refused, so its update is lost. |
| `internal/gateways/health_checker.go:84` | `README.md:78`: "automatic reconnection on timeout" | A connection that never answers a ping never times out. |
| `internal/gateways/health_checker.go:75` | `channel.go:254`: "Cancel ctx to stop" | A pong on a replaced connection, which is not closed, is sent on a closed Go channel: a panic. |
| `internal/gateways/channel.go:264` | `channel.go:136`: running means "active" | A Start whose first connection fails leaves isRunning true. |
| `mutex/map.go:48` | `internal/gateways/ttl_cache_test.go:85-87`: "multiple goroutines may see the key as absent ... (at most a few duplicates)" | SetIfAbsent checks and inserts under one lock, so of the goroutines that meet at an absent key exactly one inserts it. The test asks for less than the code gives; ProcessedOnce states what the code gives. |
| `internal/gateways/ttl_cache.go:49` | `ttl_cache.go:39-40`: "atomically check and insert" | Two channels that find the same expired entry both process their copy. ProcessedOnce has this exception (late). |
| `internal/gateways/exchanges/coinex/ws/topics/orderbook.go:61` | `orderbook.go:49`: "a unique identifier" | Two CoinEx books updated in the same millisecond share an identifier, and one update is dropped. |
| `internal/gateways/exchanges/coinex/ws/topics/manager.go:56` | `manager.go:28`: "maps subscribe message ID to topic name" | Channels of a group share their topics; one may store the other's ID, and the answer to its own request is then not recognised in the log. (Request IDs are in no module.) |
| `domains/insights/price_level.go:130` | `price_level.go:111`: "the average execution price" | For a quantity larger than the side the result can be better than the best price. |
| `configs/watcher.go:103` | `README.md:94`: no "risk of running with stale configuration" | A file renamed over the path removes the watch; the Remove event is ignored. |
| `configs/watcher.go:85` | `README.md:93`: "File changes are detected via fsnotify, allowing parameter updates without application restart" | The name in an event is the path cleaned by fsnotify; a path given in another form, as `examples/Makefile:7` does (`./...`), equals none, and every event is dropped. QuietIsCurrent has this exception. |
| `configs/config.go:45` | `config.go:20`: "thread-safe typed access" | Getters write the cache under the read lock, which the Go runtime may answer by ending the process. |
| `configs/config.go:63` | `README.md:94`: "the last cached value is returned" | A key read as two types: the fallback of one panics on the cached value of the other. |
| `initializers/exchanges/bybit/insights_initializer.go:56` | `initializers/lapua/initializer.go:132`: "blocks until all registered Insights report ready" | Bybit's readiness does not look at trades. |
| `initializers/exchanges/bybit/gateways.go:100` | `internal/gateways/channel_group.go:40`: "each topic" | A Bybit book of depth 1 and a quote of one symbol are two topics of one name; the book gets no data. |
| `initializers/lapua/initializer.go:154` | `README.md:94`: "gracefully shut down" | When the watcher cancels the context during the wait for readiness, the channels close and the wait does not end. |

All paths are under `src/`. To see one:

- Dealer.tla keeps the documented claims DoneIsFinal, AppendedOnce,
  EventsAreReconciled, OneAmendInFlight, RetainsOnlyLastAmend and OpenedByAnswer;
  put one in `Dealer.cfg` (OpenedByAnswer in `DealerBatch.cfg`; for the other
  two on amends set MaxCalls to 4) and TLC shows the behaviour.
- Drop the exception from DoneIsNotOpen (with two orders in a batch and three
  calls), FillIsNeverMissed, FillEndsOrder, LostIsReplaced, PositionFollows,
  TracksOthers, ProcessedOnce, DroppedIsProcessed, QuietIsCurrent,
  AvgIsRoundedDown, SectionRuns, SamplesLeave, Stops or WaitEnds; or check that
  `crashed` stays FALSE in Channel and Config.
- Drop the trades of Bybit from ReadyWhenRunning. With a Bybit book of depth 1
  beside the quote in `MCStartup`, drop Shared from AllTopicsSet or WaitEnds.

## 6. Not modelled, and why

- CoinEx's HTTP client, which replaces its transport after a connection reset:
  what a request meets on either transport is decided inside Go's net/http.
  Dealer and Agent let every request end in an answer or an error.
- Secrets: a request that is signed with fields of two versions is refused by
  the exchange, which is an error answer; nothing else relates the fields.
- Request and message formats (DTOs, JSON, URLs, signatures), the tables of
  symbols and assets: constant data and conversions without state. The
  conversions that decide something (identifiers, topic names, order statuses,
  latencies) are in the models.
- Private topics, which have fixed names, and MeasureLatency's choice of a
  timestamp; the requests a manager writes on a reconnection.
- Two calls of SendOrder with one order object, which could both pass the check
  of LivingOrders before either takes the lock; concurrent writes to one websocket
  connection, of which the library allows one at a time: writes are single steps.
- Operations of mutex.Slice that nothing calls; the sums over a list of trades.
- The Discord client, the logger, the book display and the example: output only.
- The strategy's own callbacks: arbitrary code of the library's user.
