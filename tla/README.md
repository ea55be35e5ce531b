# Verification of kickex-bot

The repository is a trading bot for the KickEX exchange: one websocket, an
order book kept from its messages, and three strategies (spread, buy,
arbitrage) that place, move and cancel limit orders. This directory holds
TLA+ models of its core, the TLC runs that check them on small instances, and
TLAPS proofs for every value of the constants.

## 1. Inventory

| Component | Source | State | Operations |
|---|---|---|---|
| Event broker | `broker/broker.go` | registered channels, three input channels, one buffered channel per subscriber | Subscribe, Unsubscribe, Publish, the loop of Start |
| Websocket client | `client/client.go`, `service/ws.go` | connection, read and write channels, request counter, closed flag | read, write, pinger, Close, one method per request; `WS.Start` publishes what is read |
| Accounting subscriber | `subscriber/accounting.go` | `storage.userOrders`, balances, deals | upserts every order state the exchange reports, publishes an event |
| Order book subscriber | `subscriber/orderbook.go`, `storage/book.go` | price levels, best prices, profit | snapshot, then increments |
| Pair subscriber | `subscriber/pair.go` | table of pairs | replaces it |
| Order service | `service/order.go` | none of its own | cancel and get with an answer or a time-out; update of all stored orders at start |
| Spread session | `storage/spread/session.go` | need-to-create flags, active and previous order ids, active request ids, orders, counters, done | setters, each under a short lock; four composite updates |
| Spread decider and orders | `service/spread/decider.go`, `order.go` | the session | creates a buy or a sell order when its flag is up and the market allows |
| Spread listener | `strategy/spread.go` (`listenNewOrders`) | the session | matches answers with request ids, adopts orders, starts watchers, handles two expected errors |
| Spread watcher | `service/spread/watch.go` | the session | moves, cancels, or settles one order |
| Spread strategy | `strategy/spread.go` | active session id, sessions of the book | starts sessions one after another, resumes old ones, cancels orders at shutdown |
| Recovery | `service/spread/dump.go`, `storage/dump.go` | state file | dump at shutdown, load and refresh at start |
| Buy strategy | `strategy/buy.go`, `storage/buy` | a session with one side | the same scheme in one file |
| Arbitrage strategy | `strategy/arbitrage.go` | chains of three orders | create, watch, cancel |
| Manager | `service/manager.go`, `cmd/` | goroutines of one errgroup | shutdown on a signal or an error |
| Telegram, balances | `service/telegram.go`, `service/balance.go` | bounded message channel; sums | send, sum, wait |
| Requests, responses, conversion, configuration | `request/`, `response/`, `service/converison.go`, `conf/` | none | encoding and decoding |

How they interact: `WS.Start` publishes each websocket message on a broker;
the subscribers and each waiting call read that broker through a channel of
their own. The subscribers write the storage and publish events on further
brokers (book, accounting, forced check) that wake the decider and the
watchers. Those share the session object. Every goroutine belongs to an
errgroup, so the first error ends them all.

What is hard here, with the lines in `PROJECT.json` under `hazards`:

- Three kinds of goroutine change the session's ids and flags one field at a
  time, and a request is sent before its id is stored.
- Subscription is asynchronous: what is published before it is served is lost.
- Two streams tell of an order - answers to requests and accounting - with no
  order between them, and both write the stored order.
- Cancellation races execution; a refused alteration means "it was executed",
  "it was cancelled" or "not known yet".
- The broker must neither block on a slow subscriber nor write to a closed
  channel.
- Restarts, time-outs and shutdown.

What makes each component correct: the broker delivers in order, without
duplicates, never blocks and loses nothing silently; a session has at most one
order per side in the market, sells only when buying is over, books each side
once, watches what it has in the market, and always has something that carries
it on; recovery resumes exactly the sessions that were dumped; the book shows
what the exchange's increments add up to; shutdown ends every goroutine and
leaves no order behind.

## 2. Modules

| Module | What it is |
|---|---|
| `PubSub` | what a broker promises: ordered delivery, without duplicates, to members only |
| `Broker` | `broker/broker.go` with its channels, buffers and callers; refines `PubSub` |
| `BrokerProofs` | theorems about `Broker`, refinement included |
| `SpreadSession` | one spread session: decider, listener, watchers, exchange, accounting |
| `SpreadRecovery` | extends `SpreadSession` by a shutdown, the state file and a second life |
| `SpreadSessionProofs` | theorems about `SpreadSession` and `SpreadRecovery` |
| `Sessions` | the spread strategy's manager: sessions one after another, over several lives |
| `SessionsProofs` | theorems about `Sessions` |
| `BuySession` | one session of the buy strategy, with volumes |
| `BuySessionProofs` | theorems about `BuySession` |
| `Arbitrage` | the arbitrage strategy: book events, checks, chains of three orders |
| `ArbitrageProofs` | theorems about `Arbitrage` |
| `OrderCalls` | the calls of the order service on one stream of answers |
| `OrderCallsProofs` | theorems about `OrderCalls` |
| `WsClient` | the websocket client, and how main ends the bot around it |
| `WsClientProofs` | theorems about `WsClient` |
| `OrderBook` | the book as its subscriber applies messages to it, and a reader |
| `OrderBookProofs` | theorems about `OrderBook` |

Definitions named `Slip...` in a component's module are not part of the model.
Each is an action with a plausible mistake in it; replacing the real
definition by it must make TLC report a property violated, which shows that the
property is able to fail. `PROJECT.json` (`mutants`) pairs them.

### Broker

The state is that of the code: the map's keys (`subscribers`), the two channels
of capacity 1 (`subCh`, `unsubCh`), `publishCh`, and per subscriber the buffer
and whether it is closed. `pc`, `todo` and `target` are the loop of `Start`:
`Register`, `Remove` and `Take` are its select; `Visit` is one turn's length
check, `Send` the send after it, so that readers run in between. `Subscribe`
returns before it is served, and a channel that is not registered is ignored
by `Remove`, as in the code. `since`, `delivered` and `missed` are history.

Callers are what the repository contains: each subscriber subscribes once,
unsubscribes once (deferred) and reads nothing after it.

### SpreadSession

`need`, `active`, `prev`, `req`, `orders`, `completed`, `isDone` are the fields
of `storage/spread/session.go`, each a function of the side. Orders and
requests share one numbering: an order carries the number of the create or
alter request that made it, 0 is "none". The program counters say where the
decider (`dpc`), the listener (`lpc`) and the watcher of each order (`wpc`)
are between two calls. `status`, `cancel` and `get` follow each request to its
answer; `exch` is the order at the exchange, `reported` what accounting has
applied, `stored` what `storage.userOrders` holds.

Where the code has a window, the model has two steps: sending a request and
storing its id (`DeciderSend`/`DeciderStore`, `WatchAlter`/`WatchStore`),
starting the session and registering the listener (`ListenerSubscribed`),
asking for a cancellation or a state and having the answer (`WatchCancel`,
`WatchGet`, `ListenerTooSmall`).

What is abstracted, and why that is sound for the properties:

- Prices, volumes, the book and the timers only decide whether a goroutine
  acts, so each such condition is open: whenever the code might move, cancel
  or create, the model may, or may not.
- Pending, hold and placing orders are one state, rejected goes with
  cancelled: the watchers treat them alike, and where the listener does not
  (`strategy/spread.go:441`, `:474`: the refusal of an alteration whose previous
  order was rejected ends the loop with an error) `ListenerFails` may happen as
  well as `ListenerDoneCode`.
- The setters that follow a request store previous id, external id and request
  id in turn. They are one step, because the listener's test looks only at the
  request id, which is stored last. The setters of an adoption are one step as
  well: they run in the listener while no other goroutine of that side acts.
- External ids serve only the recovery after a restart (`SpreadRecovery`).
- A call of `CancelOrder` is answered (with success, "is done already", or an
  error); module `OrderCalls` looks at the call itself, time-out included.
- Without sufficient funds nothing changes, so it is not a step.
- The clean-up of old orders in the storage is not included.

### SpreadRecovery

It adds to a session the life of two processes (`bot`) and the state file
(`file`; `Dump` leaves sessions and orders as they are, which is what the file
holds of them). `CleanUp` is `cleanUpBeforeShutdown`, which sends cancel
requests and waits for no answer; `Dump` comes after every goroutine has ended;
`Killed` is a crash or the kill timer. While the bot is down (`Away`) the
exchange goes on. `Load` removes the file and refreshes what the storage holds
for live, or fails (`LoadTimesOut`, `LoadFails`); `Resume...` are the cases of
`processOldSession`. Request ids are not exported and so not dumped, external
ids are.

`tidy` marks dumps that `processOldSession` can make sense of (`Resumable`). It
has no case for three shapes of a session:

- a sell phase without an active sell order: the executed buy order is still
  the active one, is watched again, and its profit is booked a second time;
- a replacement on its way: the order that is being replaced is watched, and
  nobody hears of the other one;
- an order that was found cancelled when its replacement was refused:
  `SetBuyOrderCancelledFlags` and its sell twin (`storage/spread/session.go:288`)
  raise the flag and leave the cancelled order active. The new process watches
  it, while the decider creates an order; the watcher then asks for another one,
  and two are in the market.

`RecoverySafe` and `ResumedIsWatched` are about all others. That the third shape
is one was found by the attempt to prove `RecoverySafe`: it takes three requests,
one more than the run has.

### Sessions

`Start`'s select with its three cases: `TakeOld` (sessions of the file, all at
once), `Tick` (`CreateSession`, which returns when its decider does) and
`ShutDown`. `active` is `SpreadActiveSessionID`, dumped with the book.
`HourPasses` is `isSellOrderCreationAvailable` clearing it after an hour.
`CleanUp` is `CleanUpOldOrders`; `Dump` and `Boot` are the end of a process and
the next one. A decider's error makes `Start` return without any clean-up, and
the active id stays in the file; `left` remembers which. Nothing clears such an
id but `HourPasses`, in a life that resumes its session: until then no tick
creates a session any more. `TradesAgain` excepts this case (`LeftBehind`), and
`EveryLifeTrades`, without the exception, is refuted (Further divergences).

### BuySession

The scheme of `SpreadSession` with one side and with volumes: an order is sized
by `Remaining`, from what the storage says was bought, and the exchange fills
units at any time. `missed` is history: a fill came after an alteration was
sized, which no client could have counted. `CleanUp` is what `Start` does at
the end of its context. The model has one session: the next is created by a
ticker once the active id is cleared.

### Arbitrage

`PairEvent`, `PairForward` and `PairStop` are `listenPairEvents`, `ch` the
channel it hands events on, `spc` the loop of `Start`, busy as long as a chain
is at its first or second step. A chain's step goes through `Send`, `Answered`,
`Subscribe`, then waits to be woken by an accounting event (`Completes`,
`StillWaits`), gives up (`GivesUp`) and cancels (`CancelBack`). Volumes are
counted in fills; fees and rounding are left out.

Answers get lost: the broker serves a subscription at its own time
(`arbitrage.go:566`), so that an answer may be published before it, and it drops
what finds a subscriber's channel full. `AnswerLost` takes the answer to a
creation, for which `sendCreateOrderRequest` waits with the context and no timer
(`arbitrage.go:583`), `CancelLost` that to a cancellation, whose time-out never
fires while other messages come and panics if it does (`OrderCalls`): the model
lets the call wait. `Wake` reaches any part of the watchers for the same reason.
The chain, and with it `Start` unless it is a third step, then waits until the
context is done (`Silent`), or for ever if it was cancelling.

### OrderCalls

A caller's `kind` is the method it calls. `CancelOrder` subscribes, sends and
reads; `UpdateOrderState` is given the id of a request already sent and
subscribes after it; `UpdateOrdersStates` counts answers, and runs before
anything else calls the service. `joining` is a subscription that the broker has
not served (`Register`), `FanOutNoise` a message that answers no request. The
broker is taken at its word (module `Broker`), with channels that are not full.

### WsClient

Each goroutine of the client is split where another may come in: after the look
at `isClosed` and before the send (`Read`/`ReadSends`, `Tick`/`PingSends`,
`Requesting`/`Sends`), and between the four statements of `Close`. `ctxDone` is
the group's context, `armed` the kill timer, which only a signal starts.
Panics (a send on a closed channel) are an `exit`.

### OrderBook

A message is applied level by level (`SetLevel`, `DeleteLevel`), then
`UpdateBest` of its side, `UpdateSpread` and `Publish`, each under a lock of
its own in the code. The reference for the best prices is `BestOf`, the extremum
of the levels. The reader reads the spread, then the best bid, as the decider
does.

## 3. What the runs check

Each run has one configuration, `MC<module>.cfg` (the session has four). A run
of a module added around the session checks its safety and its liveness on the
same instance.

| Run | Instance | Shows |
|---|---|---|
| `broker` | 2 subscribers, 2 publishers, capacities 1, 4 messages | `SendIsSafe`, `EveryMessageAccounted`, `ClosedOnlyAfterLeaving`, `ImplementsPubSub`, `PublishReturns`, `LeaverIsClosed` |
| `session_safety` | 3 requests | one live order per side; nothing bought while selling; creation only when idle; profit booked once; a finished session is flat; watchers watch the active order; no nil order; a session that stands still ran into one of two known traps |
| `session_liveness` | 2 requests | stored request ids are settled; final orders are noticed |
| `session_orphan` | 2 requests | violation: an order with no watcher |
| `session_refused` | 2 requests | violation: a cancelled buy order that does not allow selling |
| `buy_session` | 2 requests, 2 units to spend | `SessionSafe` (the session's invariants again), `SpendsNoMore`, `EndedIsFlat`, `SessionProgress` |
| `arbitrage` | 2 pairs, 1 chain of 2 units, 1 foreign event, a channel of 1 | `ChainSafe` (sells what it bought; busy exactly during the first two steps; one such order at a time; orders left by an ended step only by errors), `EndedIsFlat`, `ChainProgress` (a chain ends unless an answer to it is lost; shutdown ends but for two named waits); answers are lost at any point |
| `recovery` | 2 requests, one restart | `RecoverySafe`, `ResumedIsWatched`, `FileIsUsed` |
| `order_calls` | 2 calls of any kinds, 2 orders | `CallsSafe` (what a call tells is so; nobody gives up on an answer that came; the refresh looks at all), `AnswerIsFresh`, `CallsEnd` |
| `ws_client` | 2 workers, 2 requests, 2 messages, 1 ping, channels of 2 and 1 | `ClosesLast`, `LossEndsBot`, `ShutDownEnds` |
| `order_book` | 3 prices, snapshot and 2 increments, a channel of 1 | `PricesFollow`, `BookIsMarket`, `NoLostWakeUp` |
| `sessions` | 3 session ids, 3 lives | `ManagerSafe`, `OpenIsKnown`, `TradesAgain` (unless a decider's error left an active id behind) |

`SessionSafe`, `ChainSafe`, `RecoverySafe`, `CallsSafe`, `ClosesLast`,
`PricesFollow` and `ManagerSafe` are conjunctions of named invariants, each
stated and commented on its own in its module, the type invariant among them.

Bounds.

- `broker`: with buffers of one, four messages are enough to have one in a full
  buffer, one in the fan-out, one waiting and a publisher blocked, with both
  subscribers joining and leaving at every point. What does not depend on time
  is proved for all capacities.
- Sessions: `MaxRequests` counts create and alter requests. Three are enough to
  buy, sell and move one of the two orders, or to buy after two cancelled or
  moved orders. Two are enough for an order and its replacement or for a buy and
  a sell order; the liveness runs, the recovery and the buy session use two. Two
  units are the least that a partial fill can split. With three requests the
  recovery has too many states for its liveness property; the other two are
  proved for any number.
- `arbitrage`: chains after the first come through the same `CheckStarts`, whose
  guard `BusyMeansFirstSteps` keeps; `ArbitrageProofs` proves that for any
  number of chains.
- `order_calls`: two calls are enough for foreign answers; those about different
  orders share no more than the channel. In the instance one of them also gets
  foreign messages. Two orders let the refresh count.
- `ws_client`: channels smaller than what is sent, so that each can be full.
- `order_book`: three prices have a best one, one behind it and one that crosses;
  a second increment arrives while the first one is applied, or is dropped.
- `sessions`: three lives let an id be left over by one, resumed by the next and
  missed by the third.

TLC's coverage shows each action taken in some run. Deadlock is not checked: the
systems may come to rest - all messages published and read, the session
finished, failed or trapped, the process over.

The properties named `NoBuyWhileSelling`, `DoneIsFlat`, `FinalOrderNoticed`,
`ResumedIsWatched` (half of it) and `BuySession`'s `EndedIsFlat` exclude behaviours in which a stored order state
was overwritten by an earlier one (`backwards`). The code allows that: the
answer to a get request (`service/order.go:224`) and accounting
(`subscriber/accounting.go:124`) both upsert without comparing. With such an
overwrite a final order looks active again, and the session may act on it; TLC
finds those behaviours when the condition is dropped.

### Findings

1. `session_orphan`. "Watch for created order." (`service/spread/watch.go:21`).
   The create or alter request is sent first and its id stored afterwards
   (`service/spread/order.go:96-109`, `watch.go:215-224`, `262-275`), and the
   listener throws away every answer whose id is not stored
   (`strategy/spread.go:340`) or that arrives before its subscription is
   served. The order then stays in the market unwatched.
2. `session_refused`. "consider prev buy order as executed, allow to place
   sell order" (`strategy/spread.go:408`). `SetBuyOrderExecutedFlags` returns
   after a successful cancellation (`service/spread/order.go:250`) without
   setting any flag.

`OnlyTwoTraps` says that there is no third way for a session to stand still.

### Further divergences

Some modules end with properties under "What the code says of itself and does
not keep" (in `WsClient` and `OrderCalls` the last ones). None is in a run; put
into its module's configuration in place of the properties there, TLC refutes
it on the same instance.

| Property | What the code says | What it does |
|---|---|---|
| `BuySession!CleanUpCancels` | "cleanup active orders finished" (`strategy/buy.go:135`) | the clean-up walks `SpreadSessions` (`buy.go:759`), which this strategy never fills: its order stays in the market |
| `Arbitrage!ShutDownEnds` | "start graceful shutting down" (`service/manager.go:47`) | `ch <- true` (`arbitrage.go:157`) ignores the context; once `Start` has left and the buffer is full only the kill timer ends the bot |
| `Arbitrage!FirstStepSoldBack` | "create order selling what was bought on the first step" (`arbitrage.go:397`) | there is no such order: after a second step that was not completed the first one's purchase stays unsold |
| `Arbitrage!LateIsNotExecuted` | "order state is not executed" (`arbitrage.go:712`) | the watcher subscribes after the order was created and looks only when woken: an order executed before that is given up |
| `Arbitrage!LostAnswerIsNoticed` | "order creation event not received" (`arbitrage.go:672`) | that is looked for only after the answer to the request, which is awaited without a time-out: if the answer is lost, `Start` or the third step waits on, with the order in the market |
| `SpreadRecovery!LoadKeepsSession` | "load sessions from dump file" (`service/spread/dump.go:40`) | the file is removed first; without an order to refresh the refresh waits for an answer that does not come, times out, and the bot ends |
| `SpreadRecovery!SellFoundByExtID` | "update sell order state by ext id" (`strategy/spread.go:253`) | the executed buy order is still the active one and is looked at first |
| `OrderCalls!TimeOutIsReported` | "cancel order state timeout" (`dictionary/error.go:25`) | the time-out formats an error that is nil and panics (`service/order.go:294`) |
| `OrderCalls!CancelTimesOut` | the same | the timer is made anew with every message on the websocket, so that it does not fire while the book moves; and the call has no context |
| `WsClient!LateIsOnlyLogged` | "got message, but read channel closed" (`client/client.go:99`), "got message fot sent, but write channel closed" (`:387`) | `isClosed` is looked at before the send, without a lock: `Close` comes in between and the send panics |
| `WsClient!RequestsSentAtExit` | "cleanup active orders finished" (`strategy/spread.go:128`) | nobody waits for the writer: main may return with the cancel requests still in the channel |
| `WsClient!AuthEnds` | "read channel closed" (`client/client.go:403`) | a failed reader does not close `ReadCh`, and `Auth` waits for nothing else |
| `Sessions!AllowedSessionStarts` | "allow to create new session after 1h of inability to create an order" (`service/spread/decider.go:176`) | the id is cleared, but `CreateSession` is a synchronous call in `Start` and returns only with the old session |
| `Sessions!EveryLifeTrades` | "session finished" (`strategy/spread.go:162`) | said of a session whose decider failed as well, whose id is then not cleared (`spread.go:164-170`) and dumped with the book: even when the next life has finished the session, it creates none |

Two consequences between modules: at shutdown `WS.Start` ends with the context,
so answers that `CancelOrder` waits for are not published any more, and its
ten seconds race the ten seconds of the kill timer (hence "or cancelling" in
`ShutDownOrBlocked`, and `failed` in the liveness properties of the sessions);
and a worker's error ends the group without arming the kill timer.

### Fairness

Broker: its goroutine runs (weak fairness of its internal steps). Go's select
chooses at random among ready cases, so a case that is ready again and again is
taken (strong fairness of `Register`, `Remove`, `Take`), and blocked senders of
a channel are served in their order (strong fairness of each `Publish`).
Readers, subscribers and callers have none.

Session: each goroutine step that is enabled is taken, the exchange answers
each request, accounting applies each report, and book events, which never
stop, keep waking the watchers. Nothing is assumed of the market: no order has
to be filled, no cancellation or alteration has to become due, no call has to
fail.

Buy session, recovery: the same; in the recovery also the second start goes on.

Arbitrage: goroutines that can run do, timers fire when no event comes in
between, the exchange answers and accounting reports as long as the bot runs.
After shutdown nothing is assumed of either. That an answer is lost is possible
and has no fairness: `ChainEnds` excepts the chain it was for. A chain need not be started, an
order need not be filled.

Calls: goroutines run, the broker serves its channels, timers fire once they
are due. `CallsReturn` supposes that foreign messages pause at last
(`QuietAtLast`); `ShutDownReturns` does not.

Client: goroutines run and the two timers (ping, kill) fire. Sessions: the
select is fair to the context (strong fairness of `ShutDown`, since Go chooses
at random among ready cases), deciders end when they may, the clean-up has a
ticker; that an order is ever executed is not assumed.

## 4. What is proved

`BrokerProofs` (for any sets of channels and publishers and any positive
capacities):

| Theorem | States |
|---|---|
| `TypeCorrect` | `Spec => []TypeOK`, with the bound on `publishCh` |
| `FanOutIsSafe` | `Spec => []SendIsSafe` |
| `ReadersStayOpen` | `Spec => []ClosedOnlyAfterLeaving` |
| `BrokerImplementsPubSub` | `Spec => ImplementsPubSub` |
| `NothingIsLostSilently` | `Spec => []EveryMessageAccounted` |

The inductive invariant adds three parts to the types. `LoopInv`: what the
fan-out still has to visit is registered, and the target found with room stays
so, since only the broker adds to a buffer and only the broker, in its select,
removes a subscriber. `LifeInv`: a channel goes through new, waiting,
registered, closed and never back. `CountInv`: the queue holds exactly the
messages accepted and not yet handled, and a channel that is still to be
visited has been given older messages only; without this the refinement's
"never out of order, never twice" does not follow. `AccountInv` counts on from
there: a channel that was never registered has been given nothing, so that its
account starts at zero when it is.

`SpreadSessionProofs` (for any `MaxRequests`):

| Theorem | States |
|---|---|
| `TypeCorrect` | `Spec => []TypeOK` |
| `ProfitIsBookedOnce` | `Spec => []BookedOnce` |
| `WatchedIsActive` | `Spec => []WatcherHasActive` |
| `OneOrderPerSide` | `Spec => []OneLiveOrder` |
| `FlagMeansIdle` | `Spec => []NeedMeansIdle` |
| `BuyingIsOver` | `Spec => []NoBuyWhileSelling` |
| `FinishedIsFlat` | `Spec => []DoneIsFlat` |
| `NothingIsNil` | `Spec => []NoNilOrder` |
| `NoOtherTrap` | `Spec => []OnlyTwoTraps` |
| `SecondLifeIsSafe` | `RecoverySpec => []RecoverySafe` |
| `SecondLifeWatches` | `RecoverySpec => ResumedIsWatched` |

The argument is that of a token. In all of a session at most one of these
things exists: a flag that asks for an order, a request between its sending
and the storing of its id, a stored request id, a watched order. `TokenInv`
says it within a side, `PhaseInv` between the sides (selling is idle until the
buy side is counted as executed, buying from then on), and `BoundInv` that
everything in use has been sent already, so that a new request disturbs
nobody. None of them is inductive alone: that a done side is idle needs that
its watcher was its only token, which needs that a watched order is the active
one. `Quiet` steps leave the token where it is (19 of the 31 actions and
stuttering, `QuietKeeps`); for each of the others one lemma follows the token
(`WatcherAlone`, `RequestAlone`, `SenderAlone` say that whoever acts is alone).

The next six theorems are about the market, of which the token knows nothing:
that the flag is up says what the session does, not what the exchange has. The
second invariant, `MarketInv`, goes with the token. `LiveInv` says which orders
may be live at each of its four places: none at the flag, the new one while its
number is being stored, the new one or the one it replaces while an answer is
awaited, the watched one or its replacement. It needs all the others:

- `AnswerInv`: what a request's answer says of the exchange, and that an order
  and the one it replaces are never live together;
- `KnownInv`: stored states, fetched states and the outcome of a cancellation
  were true of the order, and final ones still are. Watchers and listener act
  on these, so without it a flag is raised over a live order;
- `WayInv`: a request under way is one the session will hear of. It is what
  turns "nobody waits" into "nothing comes";
- `LordInv`: while the listener cancels a previous order, the replacement was
  refused, so that the cancelled one was the only one;
- `EndInv`: somebody has the token until the session is done or has failed,
  from which `OnlyTwoTraps` follows;
- `StoredInv`: an order leaves the four places with its state stored; the
  listener's and the watcher's way out differ in who has stored it.

TLC checked both invariants before they were proved (`MarketInv` with three
requests, 771 000 states).

The last two take the session over a restart. Away from the bot, the exchange
keeps what it was asked for; what the bot keeps is the session and the stored
orders. `RecoveryInv` says of each stage of the two lives what holds there, and
its heart is `Sound`: token and market invariant with two parts that only a
restart asks for. `RankInv` says that what is stored, or was answered, is never
later than what the exchange has, so that a refresh loses nothing (`LoadSound`).
`HeldInv` says that the record alone names what is in the market: the active
order exists (`ActiveAt`), those that are not active are stored (`ListedAt`), and
a live order is the active one, or its request is the one the session waits for,
or somebody is about to store its number (`KeptAt`). At the dump nobody is about
to do anything (`Resting`), so that in a resumable record the one live order of a
side is the active one or the request's (`RestingRecord`). Every case of
`processOldSession` is then an instance of `Inherit`: the orders it watches, at
most one, take the place of whoever had the token (`InheritedSound`). A session
that waited for an answer is the case where the file's external id matters, and a
dump whose decider was between sending and storing does not exist, because
`Start` waits for the decider.

TLC checked `RecoveryInv`, `RecoverySafe` and `ResumedIsWatched` with three
requests before the proof (2.6 million states; it did not go on from a lost bot, a
dump that cannot be resumed, or a second life that was done or had failed).

`BuySessionProofs` (for any `MaxRequests` and `BuyTotal`):

| Theorem | States |
|---|---|
| `BuyingIsSafe` | `Spec => []SessionSafe` |
| `NothingOverspent` | `Spec => []SpendsNoMore` |
| `SessionEndsFlat` | `Spec => []EndedIsFlat` |

Token and market are as in the spread session, with one side and an exchange
that fills orders a unit at a time. Steps are sorted first: most touch only
answers and states of orders, some hand the token on, and three lemmas
(`AnswerSettles`, `WatcherSettles`, `CancelSettles`, together `Kinds`) say in
which state of the market the token comes to rest, whoever puts it down.

New is the money. What a session has bought is a sum over its orders, written
with a fold of the community modules that is itself a chosen recursive
function. The prover has no induction over operators, but induction as a fact
about a set of numbers (`EveryNumber`) is provable from the library's
well-founded `<`, and enough: the recursion has a solution (`Summable`), one
only (`OneSum`), and from it follow the total with one order more (`TotalAdd`),
the comparison of totals over different sets (`TotalLess`) and the step of one
fill (`TotalMore`). `SpendInv` is the invariant: a request under way, and every
live order, may still be filled for no more than `BuyTotal` has left. A new
order is sized by the stored total, which `CostIsBought` shows to be the real
one unless `missed` is set: every order that got anything is one of the
session's (`OwnInv`) and stored, and fills beyond the stored ones can only be
those of a live order, which there is none of when an order is created. That no
order is filled beyond its own amount is `FillInv`. The invariant was checked
by TLC with two requests and two units (292 000 states) and with three and one
(769 000 states).

`ArbitrageProofs` (for any pairs, channel capacity, volume and number of
chains):

| Theorem | States |
|---|---|
| `ChainsKeepTheirMoney` | `Spec => []ChainSafe` |
| `EndedChainsAreFlat` | `Spec => []EndedIsFlat` |

What is in the market is compared with what a chain knows of it through three
parts of the invariant. `OrderOK` speaks of one order: it is filled within its
amount, does not exist before its request is served, and the storage, which
lags behind the exchange, is right about "done" because done is final.
`RequestOK` and `PastOK` speak of a chain and its orders: the request of the
current step was answered if the step knows an id, the steps before it are done
and have brought at least what the next sells, those after it have not begun.
A lost answer keeps all this true, since a step that waits for one knows no id
and a cancelling step's request was answered (`LostStep`). `TurnOK` with
`BusyMeansFirstSteps` speaks of the chains together. None of the money properties is inductive without them: that a step sells no more than was
bought needs that the watcher decided by a stored state that was final.
`MarketOK` draws the conclusion for every order in the market.

`OrderBookProofs` (for any number of prices and messages and any capacity):

| Theorem | States |
|---|---|
| `PricesFollowLevels` | `Spec => []PricesFollow` |
| `NoWakeUpIsLost` | `Spec => []NoLostWakeUp` |
| `BookFollowsMarket` | `Spec => []BookIsMarket` |

The types need that a side with levels has a best price (`MaxOfPrices`,
`MinOfPrices`), which follows from the library's theorem on well-founded
relations. `SpreadRead` strengthens the second property: a reader between its
two reads, whom no event will wake again, has read the last spread.

`BookIsMarket` speaks of moments when nothing is queued. To be inductive it has to
say what the queued messages will make of the book, which is a recursion over the
queue; a sequence of books takes its place (`Leads`): the first one is the book
with the changes of the current message, each further one follows from the one
before by a queued message, and the last one is the market. The exchange appends
a book, taking a message drops the first, and applying one change leaves the
sequence as it is: the order of a message's changes does not matter, because no
message sets a level that it also deletes.

`WsClientProofs` (for any workers, capacities and numbers of messages):

| Theorem | States |
|---|---|
| `ClientClosesLast` | `Spec => []ClosesLast` |

Three lemmas say how a queue in which no request follows a close frame behaves
under `Append`, `Tail` and concatenation. The invariant splits the queue into
what is written, what is being written and what waits, and ties every close
frame and every closed channel to `AllEnded`: the group that main has waited
for.

`SessionsProofs` (for any sessions and any number of lives):

| Theorem | States |
|---|---|
| `OneSessionSpends` | `Spec => []ManagerSafe` |
| `NoOpenSessionIsLost` | `Spec => []OpenIsKnown` |

The two are inductive together.

`OrderCallsProofs` (for any calls and any finite set of orders):

| Theorem | States |
|---|---|
| `CallsTellTheTruth` | `Spec => []CallsSafe` |
| `StoredStateIsFresh` | `Spec => []AnswerIsFresh` |

The invariant follows a request: it is at the exchange, its answer is in the
broker's queue, or it was heard, never two of these (`RequestInv`), and the
answer is true wherever it is (`TruthInv`), because an order that was asked
about leaves "live" at most once (`FreshInv`, `MarketMoves`). `CountInv` makes
the batch's counter the number of the different orders whose answers it has
taken, so that a call that still listens has an answer to wait for, and one
that has counted to the end has looked at all. Every way to return goes through
one lemma, `ReturnStep`.

Assumptions: those named in the modules (`NoChanAssumption`, `CapAssumption`,
`MaxRequestsAssumption`, `ArbitrageAssumption`, `SessAssumption`,
`BoundAssumption`, `NoiseAssumption`, `OrdersAssumption`, `BuyAssumption`),
which TLC evaluates in every run. The proofs need nothing
of the exchange but the model's actions: it may refuse, fill or cancel at will.
Every inductive invariant was checked by TLC on small instances first.

Only model-checked are the liveness properties, which depend on fairness, and the
two runs that find a divergence, of course. Every safety invariant and action
property of the passing runs is a theorem.

## 5. Plan

Done: `PubSub`, `Broker`, `SpreadSession`, `Arbitrage`, `OrderBook`, `WsClient`,
`Sessions`, `OrderCalls`, `BuySession` and `SpreadRecovery` with their proofs.

Left, in this order:

1. The start of the commands: the loops that wait for pairs without a context
   (`cmd/spread.go:121`, `cmd/buy.go:94`), `LoadFromStateFile` before the
   subscribers run, accounting and balances that arrive while a session is
   resumed already.
2. `OrderCalls` as an implementation of the outcomes that `SpreadSession` and
   `BuySession` assume of their calls, by a refinement.
3. Theorems: the refinement of item 2, and what the theorems above assume of
   stored states: that `backwards` needs a fetched answer overtaken by accounting.
4. `Telegram` and `Balance`: small algorithms with their reference definitions.

## 6. Not modelled, and why

Encoding, decoding and the generated easyjson code keep no state. The
deployment files hold no behaviour. The pair subscriber replaces one table.
Floating point arithmetic of prices and profits is out of reach of both tools;
the conditions that depend on it are left open: when an order is moved (that
the best bid it is compared with may be its own, `watch.go:466`, is not seen),
what a spread is worth, fees and rounding of a chain. Balances are read by
tests of funds only, whose outcome is open too; that they are loaded before
they are dereferenced (`spread/order.go:90`, `buy.go:434`) is not shown.
Telegram messages change nothing a strategy reads.
