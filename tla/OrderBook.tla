------------------------------- MODULE OrderBook -------------------------------
(***************************************************************************)
(* The order book of a pair (src/storage/book.go), kept by its subscriber  *)
(* (src/subscriber/orderbook.go) from a snapshot and the changes after it, *)
(* and read by deciders and watchers.  A message is applied level by level, *)
(* each under its own lock, then the best price of the side is recomputed; *)
(* spread and event come last.  Readers may come in between.               *)
(*                                                                         *)
(* A level is its price; amounts are left out.  The spread is the pair of  *)
(* prices it was computed from.                                            *)
(***************************************************************************)
EXTENDS Naturals, Sequences, FiniteSetsExt

CONSTANTS
  MaxPrice,      \* bound of the model: prices are 1 .. MaxPrice
  QueueCap,      \* capacity of a subscriber's channel (1024 in the code)
  MaxMessages    \* bound of the model: changes after the snapshot

ASSUME BoundAssumption ==
  MaxPrice \in Nat /\ QueueCap \in Nat \ {0} /\ MaxMessages \in Nat

Prices == 1 .. MaxPrice
Sides  == {"bids", "asks"}
None   == 0                    \* ZeroBigFloat
NoSpread == <<None, None>>

\* The levels of each side that a message sets, and those it deletes (Total = "").
Changes == [set : [Sides -> SUBSET Prices], del : [Sides -> SUBSET Prices]]
NoChange == [s \in Sides |-> {}]

VARIABLES
  levels,        \* Sides -> the prices in the book
  best,          \* Sides -> maxBidPrice, minAskPrice
  spread,
  pc,            \* the subscriber: waiting, at a side, computing the spread,
                 \* publishing, or ended
  todo,          \* the changes it has still to apply
  queue,         \* its channel
  market,        \* Sides -> the levels at the exchange
  sent,          \* number of changes sent
  lost,          \* the broker dropped a message for it
  event,         \* a reader's channel of book events: 0 or 1
  reader,        \* waiting, or between its reads
  seen           \* what the reader last read: spread and best bid

book == <<levels, best, spread>>
vars == <<levels, best, spread, pc, todo, queue, market, sent, lost, event, reader,
          seen>>

TypeOK ==
  /\ levels \in [Sides -> SUBSET Prices]
  /\ best \in [Sides -> Prices \cup {None}]
  /\ spread \in (Prices \X Prices) \cup {NoSpread}
  /\ pc \in {"waiting", "bids", "asks", "spread", "publish", "ended"}
  /\ todo \in Changes
  /\ queue \in Seq(Changes) /\ Len(queue) <= QueueCap
  /\ market \in [Sides -> SUBSET Prices]
  /\ sent \in 0 .. MaxMessages
  /\ lost \in BOOLEAN
  /\ event \in 0 .. 1
  /\ reader \in {"waiting", "spread", "price"}
  /\ seen \in [spread : (Prices \X Prices) \cup {NoSpread}, bid : Prices \cup {None}]

\* The books an exchange can have: no bid reaches an ask.
Books == {b \in [Sides -> SUBSET Prices] :
            \A p \in b["bids"], q \in b["asks"] : p < q}

\* GetOrderBookAndSubscribe is answered with the whole book.
Init ==
  /\ levels = NoChange
  /\ best = [s \in Sides |-> None]
  /\ spread = NoSpread
  /\ pc = "waiting"
  /\ todo = [set |-> NoChange, del |-> NoChange]
  /\ market \in Books
  /\ queue = <<[set |-> market, del |-> NoChange]>>
  /\ sent = 0
  /\ lost = FALSE
  /\ event = 0
  /\ reader = "waiting"
  /\ seen = [spread |-> NoSpread, bid |-> None]

-----------------------------------------------------------------------------
(* The subscriber.  An operator named Slip... is a mistake that the checks *)
(* put in the place of the definition after it.                            *)

Touches(m, s) == m.set[s] \cup m.del[s] # {}

Take ==
  /\ pc = "waiting" /\ queue # <<>>
  /\ todo' = Head(queue)
  /\ queue' = Tail(queue)
  /\ pc' = IF Touches(todo', "bids") THEN "bids"
           ELSE IF Touches(todo', "asks") THEN "asks" ELSE "spread"
  /\ UNCHANGED <<book, market, sent, lost, event, reader, seen>>

\* AddBid, AddAsk
SetLevel(s) ==
  /\ pc = s
  /\ \E p \in todo.set[s] :
       /\ levels' = [levels EXCEPT ![s] = @ \cup {p}]
       /\ todo' = [todo EXCEPT !.set[s] = @ \ {p}]
  /\ UNCHANGED <<best, spread, pc, queue, market, sent, lost, event, reader, seen>>

SlipDeleteKeepsLevel(s) ==
  /\ pc = s
  /\ \E p \in todo.del[s] :
       /\ todo' = [todo EXCEPT !.del[s] = @ \ {p}]
       /\ levels' = [levels EXCEPT ![s] = @ \cup {p}]
  /\ UNCHANGED <<best, spread, pc, queue, market, sent, lost, event, reader, seen>>

\* DeleteBid, DeleteAsk
DeleteLevel(s) ==
  /\ pc = s
  /\ \E p \in todo.del[s] :
       /\ levels' = [levels EXCEPT ![s] = @ \ {p}]
       /\ todo' = [todo EXCEPT !.del[s] = @ \ {p}]
  /\ UNCHANGED <<best, spread, pc, queue, market, sent, lost, event, reader, seen>>

BestOf(s) ==
  IF levels[s] = {} THEN None
  ELSE IF s = "bids" THEN Max(levels[s]) ELSE Min(levels[s])

\* UpdateMaxBidPrice, UpdateMinAskPrice
UpdateBest(s) ==
  /\ pc = s /\ ~Touches(todo, s)
  /\ best' = [best EXCEPT ![s] = BestOf(s)]
  /\ pc' = IF s = "bids" /\ Touches(todo, "asks") THEN "asks" ELSE "spread"
  /\ UNCHANGED <<levels, spread, todo, queue, market, sent, lost, event, reader,
                 seen>>

SpreadNow ==
  IF None \in {best["bids"], best["asks"]} THEN NoSpread
  ELSE <<best["bids"], best["asks"]>>

SlipSpreadNotReset ==
  /\ pc = "spread"
  /\ spread' = IF SpreadNow = NoSpread THEN spread ELSE SpreadNow
  /\ pc' = "publish"
  /\ UNCHANGED <<levels, best, todo, queue, market, sent, lost, event, reader, seen>>

UpdateSpread ==
  /\ pc = "spread"
  /\ spread' = SpreadNow
  /\ pc' = "publish"
  /\ UNCHANGED <<levels, best, todo, queue, market, sent, lost, event, reader, seen>>

SlipPublishTwoSided ==
  /\ pc = "publish"
  /\ event' = IF spread = NoSpread THEN event ELSE 1
  /\ pc' = "waiting"
  /\ UNCHANGED <<book, todo, queue, market, sent, lost, reader, seen>>

\* The broker drops the event for a reader whose channel is full.
Publish ==
  /\ pc = "publish"
  /\ event' = 1
  /\ pc' = "waiting"
  /\ UNCHANGED <<book, todo, queue, market, sent, lost, reader, seen>>

\* The end of the context, or an error instead of a book.
End ==
  /\ pc = "waiting"
  /\ pc' = "ended"
  /\ UNCHANGED <<book, todo, queue, market, sent, lost, event, reader, seen>>

-----------------------------------------------------------------------------
(* A reader, as the decider: woken, it looks at the spread, and after that *)
(* at the best bid it computes its price from.                             *)

Wake ==
  /\ reader = "waiting" /\ event = 1
  /\ event' = 0
  /\ reader' = "spread"
  /\ UNCHANGED <<book, pc, todo, queue, market, sent, lost, seen>>

ReadSpread ==
  /\ reader = "spread"
  /\ seen' = [seen EXCEPT !.spread = spread]
  /\ reader' = "price"
  /\ UNCHANGED <<book, pc, todo, queue, market, sent, lost, event>>

ReadBest ==
  /\ reader = "price"
  /\ seen' = [seen EXCEPT !.bid = best["bids"]]
  /\ reader' = "waiting"
  /\ UNCHANGED <<book, pc, todo, queue, market, sent, lost, event>>

-----------------------------------------------------------------------------
(* The exchange.                                                           *)

ExchangeMoves ==
  /\ sent < MaxMessages
  /\ \E b \in Books \ {market} :
       /\ market' = b
       /\ LET m == [set |-> [s \in Sides |-> b[s] \ market[s]],
                    del |-> [s \in Sides |-> market[s] \ b[s]]] IN
          IF Len(queue) < QueueCap
            THEN queue' = Append(queue, m) /\ UNCHANGED lost
            ELSE lost' = TRUE /\ UNCHANGED queue
  /\ sent' = sent + 1
  /\ UNCHANGED <<book, pc, todo, event, reader, seen>>

Next ==
  \/ Take
  \/ \E s \in Sides : SetLevel(s) \/ DeleteLevel(s) \/ UpdateBest(s)
  \/ UpdateSpread \/ Publish \/ End
  \/ Wake \/ ReadSpread \/ ReadBest
  \/ ExchangeMoves

Spec == Init /\ [][Next]_vars

-----------------------------------------------------------------------------

\* Whoever reads a best price reads the best of the levels there are, but while a
\* message is applied to that side; then GetBid of it may find nothing.
BestIsBest == \A s \in Sides : pc # s => best[s] = BestOf(s)

\* The spread is that of the best prices whenever the subscriber waits, though it
\* lags behind them while a message is applied.
SpreadFollows == pc \in {"waiting", "publish", "ended"} => spread = SpreadNow

\* Prices and spread are those of the levels once a message is applied.
PricesFollow == TypeOK /\ BestIsBest /\ SpreadFollows

\* As long as no message was dropped for it the book is the exchange's, once the
\* messages under way are applied: no level stays behind that has gone.
BookIsMarket ==
  ~lost /\ queue = <<>> /\ pc = "waiting" => levels = market

\* A reader that waits has seen the last book: an event is never lost between its
\* reads, and an event dropped for a full channel is no loss.
NoLostWakeUp ==
  pc = "waiting" /\ reader = "waiting" /\ event = 0 =>
    seen = [spread |-> spread, bid |-> best["bids"]]
=============================================================================
