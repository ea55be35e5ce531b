---------------------------- MODULE OrderBookProofs ----------------------------
(***************************************************************************)
(* Best prices and spread follow the levels, and the levels the exchange's *)
(* market, for any number of prices, any length of the queue and any       *)
(* number of messages.                                                     *)
(***************************************************************************)
EXTENDS OrderBook, WellFoundedInduction, SequenceTheorems, TLAPS

(* A side that is not empty has a best price.                              *)

\* Every set of numbers that is not empty has a smallest one.
LEMMA Smallest ==
  ASSUME NEW S \in SUBSET Nat, S # {} PROVE \E x \in S : \A y \in S : x <= y
<1> DEFINE R == OpToRel(<, Nat)
<1>1. IsWellFoundedOn(R, Nat)
  BY NatLessThanWellFounded
<1>2. \A x, y \in Nat : y < x => <<y, x>> \in R
  BY DEF OpToRel
<1> HIDE DEF R
<1>3. PICK x \in S : \A y \in S : <<y, x>> \notin R
  BY <1>1, WFMin
<1>4. \A y \in S : x \in Nat /\ y \in Nat /\ ~(y < x)
  BY <1>2, <1>3
<1>5. \A y \in S : x <= y
  BY <1>4
<1> QED
  BY <1>5

LEMMA MinOfPrices ==
  ASSUME NEW S \in SUBSET Prices, S # {} PROVE Min(S) \in S
<1>1. \E x \in S : \A y \in S : x <= y
  BY Smallest DEF Prices
<1> QED
  BY <1>1 DEF Min

\* The largest price is the one that is nearest to MaxPrice.
LEMMA MaxOfPrices ==
  ASSUME NEW S \in SUBSET Prices, S # {} PROVE Max(S) \in S
<1> DEFINE T == {d \in Nat : \E p \in S : p + d = MaxPrice}
<1>1. MaxPrice \in Nat /\ \A p \in S : p \in Nat /\ p <= MaxPrice
  BY BoundAssumption DEF Prices
<1>2. T \in SUBSET Nat /\ T # {}
  <2>1. PICK p \in S : TRUE
    OBVIOUS
  <2>2. MaxPrice - p \in T
    BY <2>1, <1>1
  <2> QED
    BY <2>2
<1>3. PICK d \in T : \A e \in T : d <= e
  BY <1>2, Smallest
<1>4. PICK p \in S : p + d = MaxPrice
  BY <1>3
<1>5. ASSUME NEW q \in S PROVE p >= q
  <2>1. MaxPrice - q \in T
    BY <1>1
  <2> QED
    BY <2>1, <1>1, <1>3, <1>4
<1> QED
  BY <1>4, <1>5 DEF Max

LEMMA BestOfType ==
  ASSUME TypeOK, NEW s \in Sides PROVE BestOf(s) \in Prices \cup {None}
<1>1. levels[s] \in SUBSET Prices
  BY DEF TypeOK
<1>2. CASE levels[s] = {}
  BY <1>2 DEF BestOf
<1>3. CASE levels[s] # {}
  <2>1. Max(levels[s]) \in Prices /\ Min(levels[s]) \in Prices
    BY <1>1, <1>3, MinOfPrices, MaxOfPrices
  <2> QED
    BY <1>3, <2>1 DEF BestOf
<1> QED
  BY <1>2, <1>3

(* The inductive invariant.  A reader that has read the spread and not yet *)
(* the price, and will not be woken again, has read the last spread.       *)

SpreadRead ==
  pc = "waiting" /\ reader = "price" /\ event = 0 => seen.spread = spread

IInv == PricesFollow /\ NoLostWakeUp /\ SpreadRead

LEMMA InitIInv == Init => IInv
<1> SUFFICES ASSUME Init PROVE IInv
  OBVIOUS
<1>1. market \in [Sides -> SUBSET Prices] /\ NoChange \in [Sides -> SUBSET Prices]
  BY DEF Init, Books, NoChange
<1>2. todo \in Changes
  BY <1>1 DEF Init, Changes
<1>3. queue \in Seq(Changes) /\ Len(queue) <= QueueCap
  <2>1. [set |-> market, del |-> NoChange] \in Changes
    BY <1>1 DEF Changes
  <2> QED
    BY <2>1, BoundAssumption DEF Init
<1>4. /\ sent \in 0 .. MaxMessages /\ lost \in BOOLEAN /\ event \in 0 .. 1
      /\ seen \in [spread : (Prices \X Prices) \cup {NoSpread}, bid : Prices \cup {None}]
      /\ best \in [Sides -> Prices \cup {None}]
  <2>1. sent \in 0 .. MaxMessages /\ event \in 0 .. 1
    BY BoundAssumption DEF Init
  <2>2. seen = [spread |-> NoSpread, bid |-> None] /\ lost = FALSE
    BY DEF Init
  <2>3. seen \in [spread : (Prices \X Prices) \cup {NoSpread}, bid : Prices \cup {None}]
    BY <2>2
  <2>4. best \in [Sides -> Prices \cup {None}] /\ lost \in BOOLEAN
    BY DEF Init
  <2> QED
    BY <2>1, <2>3, <2>4
<1>5. TypeOK
  BY <1>1, <1>2, <1>3, <1>4 DEF Init, TypeOK
<1>6. BestIsBest
  BY DEF Init, BestIsBest, BestOf, NoChange
<1>7. SpreadFollows
  BY DEF Init, SpreadFollows, SpreadNow, Sides
<1>8. NoLostWakeUp /\ SpreadRead
  BY DEF Init, NoLostWakeUp, SpreadRead, Sides
<1> QED
  BY <1>5, <1>6, <1>7, <1>8 DEF IInv, PricesFollow

(* The steps of the subscriber.                                            *)

\* A message is taken: the subscriber no longer waits, and has changed nothing.
LEMMA TakeStep ==
  ASSUME IInv, Take PROVE IInv'
<1>1. /\ queue \in Seq(Changes) /\ queue # <<>> /\ Len(queue) <= QueueCap
      /\ pc = "waiting" /\ pc' \in {"bids", "asks", "spread"}
      /\ UNCHANGED <<levels, best, spread, market, sent, lost, event, reader, seen>>
  BY DEF Take, IInv, PricesFollow, TypeOK, book
<1>2. todo' \in Changes /\ queue' \in Seq(Changes) /\ Len(queue') <= QueueCap
  BY <1>1, HeadTailProperties, BoundAssumption DEF Take
<1>3. TypeOK'
  BY <1>1, <1>2 DEF IInv, PricesFollow, TypeOK
<1>4. BestIsBest'
  BY <1>1 DEF IInv, PricesFollow, BestIsBest, BestOf, Sides
<1> QED
  BY <1>1, <1>3, <1>4
  DEF IInv, PricesFollow, SpreadFollows, NoLostWakeUp, SpreadRead

\* A level is set or deleted: the best price of this side is not looked at until
\* the side is done.
LEMMA LevelStep ==
  ASSUME IInv, NEW s \in Sides, SetLevel(s) \/ DeleteLevel(s) PROVE IInv'
<1>1. /\ pc = s /\ levels \in [Sides -> SUBSET Prices]
      /\ UNCHANGED <<best, spread, pc, queue, market, sent, lost, event, reader, seen>>
  BY DEF SetLevel, DeleteLevel, IInv, PricesFollow, TypeOK
<1>2. /\ todo.set \in [Sides -> SUBSET Prices] /\ todo.del \in [Sides -> SUBSET Prices]
      /\ todo = [set |-> todo.set, del |-> todo.del]
  BY DEF IInv, PricesFollow, TypeOK, Changes
<1>3. PICK p \in Prices :
        /\ levels' \in {[levels EXCEPT ![s] = levels[s] \cup {p}],
                        [levels EXCEPT ![s] = levels[s] \ {p}]}
        /\ todo' \in {[todo EXCEPT !.set[s] = @ \ {p}], [todo EXCEPT !.del[s] = @ \ {p}]}
  BY <1>2 DEF SetLevel, DeleteLevel
<1>4. levels' \in [Sides -> SUBSET Prices] /\ \A r \in Sides : r # s => levels'[r] = levels[r]
  BY <1>1, <1>3
<1>5. todo' \in Changes
  <2> DEFINE fewer(f) == [f EXCEPT ![s] = f[s] \ {p}]
  <2>1. fewer(todo.set) \in [Sides -> SUBSET Prices] /\ fewer(todo.del) \in [Sides -> SUBSET Prices]
    BY <1>2
  <2>2. todo' \in {[set |-> fewer(todo.set), del |-> todo.del],
                   [set |-> todo.set, del |-> fewer(todo.del)]}
    BY <1>2, <1>3
  <2> HIDE DEF fewer
  <2> QED
    BY <2>1, <2>2, <1>2 DEF Changes
<1>6. TypeOK'
  BY <1>1, <1>4, <1>5 DEF IInv, PricesFollow, TypeOK
<1>7. BestIsBest'
  BY <1>1, <1>4 DEF IInv, PricesFollow, BestIsBest, BestOf
<1> QED
  BY <1>1, <1>6, <1>7
  DEF IInv, PricesFollow, SpreadFollows, NoLostWakeUp, SpreadRead, Sides

LEMMA UpdateBestStep ==
  ASSUME IInv, NEW s \in Sides, UpdateBest(s) PROVE IInv'
<1>1. /\ pc = s /\ pc' \in {"asks", "spread"} /\ pc' # s
      /\ best' = [best EXCEPT ![s] = BestOf(s)]
      /\ UNCHANGED <<levels, spread, todo, queue, market, sent, lost, event, reader, seen>>
  BY DEF UpdateBest, Sides
<1>2. best' \in [Sides -> Prices \cup {None}]
  BY <1>1, BestOfType DEF IInv, PricesFollow, TypeOK
<1>3. best'[s] = BestOf(s) /\ \A r \in Sides : r # s => best'[r] = best[r]
  BY <1>1 DEF IInv, PricesFollow, TypeOK
<1>4. TypeOK'
  BY <1>1, <1>2 DEF IInv, PricesFollow, TypeOK
<1>5. BestIsBest'
  BY <1>1, <1>3 DEF IInv, PricesFollow, BestIsBest, BestOf
<1> QED
  BY <1>1, <1>4, <1>5
  DEF IInv, PricesFollow, SpreadFollows, NoLostWakeUp, SpreadRead

\* The spread is computed, then the event published.
LEMMA SpreadStep ==
  ASSUME IInv, UpdateSpread \/ Publish \/ End PROVE IInv'
<1>1. UNCHANGED <<levels, best, todo, queue, market, sent, lost, reader, seen>>
  BY DEF UpdateSpread, Publish, End, book
<1>2. /\ pc' \in {"publish", "waiting", "ended"} /\ event' \in 0 .. 1
      /\ pc' = "waiting" => event' = 1
      /\ pc \notin Sides
  BY DEF UpdateSpread, Publish, End, IInv, PricesFollow, TypeOK, Sides
<1>3. spread' = SpreadNow
  BY DEF UpdateSpread, Publish, End, book, IInv, PricesFollow, SpreadFollows
<1>4. spread' \in (Prices \X Prices) \cup {NoSpread}
  BY <1>3 DEF SpreadNow, IInv, PricesFollow, TypeOK, Sides
<1>5. TypeOK'
  BY <1>1, <1>2, <1>4 DEF IInv, PricesFollow, TypeOK
<1>6. BestIsBest' /\ SpreadFollows'
  BY <1>1, <1>2, <1>3
  DEF IInv, PricesFollow, BestIsBest, BestOf, SpreadFollows, SpreadNow, Sides
<1> QED
  BY <1>2, <1>5, <1>6 DEF IInv, PricesFollow, NoLostWakeUp, SpreadRead

(* The steps of a reader and of the exchange.                              *)

LEMMA ReaderStep ==
  ASSUME IInv, Wake \/ ReadSpread \/ ReadBest PROVE IInv'
<1>1. UNCHANGED <<levels, best, spread, pc, todo, queue, market, sent, lost>>
  BY DEF Wake, ReadSpread, ReadBest, book
<1>2. BestIsBest' /\ SpreadFollows'
  BY <1>1 DEF IInv, PricesFollow, BestIsBest, BestOf, SpreadFollows, SpreadNow
<1>3. /\ seen = [spread |-> seen.spread, bid |-> seen.bid]
      /\ seen.spread \in (Prices \X Prices) \cup {NoSpread} /\ seen.bid \in Prices \cup {None}
      /\ best["bids"] \in Prices \cup {None}
  BY DEF IInv, PricesFollow, TypeOK, Sides
<1>4. CASE Wake
  <2>1. TypeOK'
    BY <1>1, <1>4 DEF Wake, IInv, PricesFollow, TypeOK
  <2> QED
    BY <2>1, <1>1, <1>2, <1>4 DEF Wake, IInv, PricesFollow, NoLostWakeUp, SpreadRead
<1>5. CASE ReadSpread
  <2>1. reader' = "price" /\ event' = event /\ seen' = [spread |-> spread, bid |-> seen.bid]
    BY <1>3, <1>5 DEF ReadSpread
  <2>2. TypeOK'
    BY <2>1, <1>1, <1>3 DEF IInv, PricesFollow, TypeOK
  <2> QED
    BY <2>1, <2>2, <1>1, <1>2 DEF IInv, PricesFollow, NoLostWakeUp, SpreadRead
<1>6. CASE ReadBest
  <2>1. /\ reader = "price" /\ reader' = "waiting" /\ event' = event
        /\ seen' = [spread |-> seen.spread, bid |-> best["bids"]]
    BY <1>3, <1>6 DEF ReadBest
  <2>2. TypeOK'
    BY <2>1, <1>1, <1>3 DEF IInv, PricesFollow, TypeOK
  <2> QED
    BY <2>1, <2>2, <1>1, <1>2 DEF IInv, PricesFollow, NoLostWakeUp, SpreadRead
<1> QED
  BY <1>4, <1>5, <1>6

LEMMA ExchangeStep ==
  ASSUME IInv, ExchangeMoves PROVE IInv'
<1>1. UNCHANGED <<levels, best, spread, pc, todo, event, reader, seen>>
  BY DEF ExchangeMoves, book
<1>2. PICK b \in Books :
        /\ market' = b
        /\ LET m == [set |-> [s \in Sides |-> b[s] \ market[s]],
                     del |-> [s \in Sides |-> market[s] \ b[s]]] IN
           IF Len(queue) < QueueCap
             THEN queue' = Append(queue, m) /\ UNCHANGED lost
             ELSE lost' = TRUE /\ UNCHANGED queue
  BY DEF ExchangeMoves
<1> DEFINE m == [set |-> [s \in Sides |-> b[s] \ market[s]],
                 del |-> [s \in Sides |-> market[s] \ b[s]]]
<1>3. b \in [Sides -> SUBSET Prices] /\ market \in [Sides -> SUBSET Prices]
  BY DEF Books, IInv, PricesFollow, TypeOK
<1>4. m \in Changes
  BY <1>3 DEF Changes
<1>5. lost' \in BOOLEAN
  BY <1>2 DEF IInv, PricesFollow, TypeOK
<1>6. \/ queue' = Append(queue, m) /\ Len(queue) < QueueCap
      \/ queue' = queue
  BY <1>2
<1> HIDE DEF m
<1>7. queue' \in Seq(Changes) /\ Len(queue') <= QueueCap
  BY <1>4, <1>6, AppendProperties, BoundAssumption DEF IInv, PricesFollow, TypeOK
<1>8. sent' \in 0 .. MaxMessages
  BY BoundAssumption DEF ExchangeMoves, IInv, PricesFollow, TypeOK
<1>9. TypeOK'
  BY <1>1, <1>2, <1>3, <1>5, <1>7, <1>8 DEF IInv, PricesFollow, TypeOK
<1> QED
  BY <1>1, <1>9
  DEF IInv, PricesFollow, BestIsBest, BestOf, SpreadFollows, SpreadNow, NoLostWakeUp,
      SpreadRead

LEMMA NextIInv == IInv /\ [Next]_vars => IInv'
<1> SUFFICES ASSUME IInv, [Next]_vars PROVE IInv'
  OBVIOUS
<1>1. CASE Next
  BY <1>1, TakeStep, LevelStep, UpdateBestStep, SpreadStep, ReaderStep, ExchangeStep
  DEF Next
<1>2. CASE UNCHANGED vars
  BY <1>2
  DEF vars, book, IInv, PricesFollow, TypeOK, BestIsBest, BestOf, SpreadFollows, SpreadNow,
      NoLostWakeUp, SpreadRead
<1> QED
  BY <1>1, <1>2

\* Whatever a message changes, and whenever it is read: the best prices are those of
\* the levels but while a message is applied to their side, and the spread is that
\* of the best prices whenever the subscriber waits.
THEOREM PricesFollowLevels == Spec => []PricesFollow
<1>1. IInv => PricesFollow
  BY DEF IInv
<1> QED
  BY <1>1, InitIInv, NextIInv, PTL DEF Spec

\* A reader that waits, with a subscriber that waits, has read the spread and the
\* price there are: one place in its channel is enough, whatever is dropped.
THEOREM NoWakeUpIsLost == Spec => []NoLostWakeUp
<1>1. IInv => NoLostWakeUp
  BY DEF IInv
<1> QED
  BY <1>1, InitIInv, NextIInv, PTL DEF Spec

-----------------------------------------------------------------------------
(* The book is the market.                                                  *)

Levels == [Sides -> SUBSET Prices]

\* A book after the changes of m.
Applied(b, m) == [s \in Sides |-> (b[s] \cup m.set[s]) \ m.del[s]]

\* No message sets and deletes the same level, so that the order in which its
\* changes are applied does not matter.
Consistent(m) == \A s \in Sides : m.set[s] \cap m.del[s] = {}

\* The books the subscriber will have: w[1] once it is done with the message it
\* applies, w[i + 1] after the i-th of those that wait, and at last the market.
Leads(w) ==
  /\ w \in [1 .. Len(queue) + 1 -> Levels]
  /\ w[1] = Applied(levels, todo)
  /\ \A i \in 1 .. Len(queue) : w[i + 1] = Applied(w[i], queue[i])
  /\ w[Len(queue) + 1] = market

\* A side the subscriber has left, and both when it waits, is done.
DoneWith(s) == pc \notin Sides \/ (s = "bids" /\ pc = "asks") => ~Touches(todo, s)

MarketInv ==
  /\ Consistent(todo) /\ \A i \in 1 .. Len(queue) : Consistent(queue[i])
  /\ \A s \in Sides : DoneWith(s)
  /\ ~lost => \E w : Leads(w)

\* At first one message is queued, the snapshot, and it is the market.
LEMMA MarketInit ==
  ASSUME Init PROVE MarketInv
<1>1. /\ market \in Levels /\ NoChange \in Levels /\ levels = NoChange /\ Len(queue) = 1
      /\ queue[1] = [set |-> market, del |-> NoChange]
      /\ todo = [set |-> NoChange, del |-> NoChange]
  BY DEF Init, Books, NoChange, Levels
<1>2. Consistent(todo) /\ Consistent(queue[1]) /\ \A s \in Sides : DoneWith(s)
  BY <1>1 DEF Consistent, NoChange, DoneWith, Touches
<1> DEFINE w == [i \in 1 .. 2 |-> IF i = 1 THEN NoChange ELSE market]
<1>3. Applied(levels, todo) = NoChange /\ Applied(NoChange, queue[1]) = market
  BY <1>1 DEF Applied, NoChange, Levels
<1>4. Leads(w)
  <2>1. w[1] = NoChange /\ w[2] = market /\ w \in [1 .. 2 -> Levels]
    BY <1>1
  <2> HIDE DEF w
  <2> QED
    BY <1>1, <1>3, <2>1 DEF Leads
<1> QED
  BY <1>1, <1>2, <1>4 DEF MarketInv

LEMMA MarketTake ==
  ASSUME TypeOK, MarketInv, Take PROVE MarketInv'
<1>1. /\ queue \in Seq(Changes) /\ queue # <<>> /\ queue' = Tail(queue) /\ todo' = queue[1]
      /\ UNCHANGED <<levels, market, lost>>
  BY DEF Take, TypeOK, book
<1>2. /\ Len(queue') \in Nat /\ Len(queue) = Len(queue') + 1
      /\ \A i \in 1 .. Len(queue') : queue'[i] = queue[i + 1]
  BY <1>1
<1>3. Consistent(todo)' /\ \A i \in 1 .. Len(queue') : Consistent(queue'[i])
  BY <1>1, <1>2 DEF MarketInv, Consistent
<1>4. \A s \in Sides : DoneWith(s)'
  BY DEF Take, DoneWith, Touches, Sides
<1>5. ASSUME ~lost' PROVE \E w : Leads(w)'
  <2>1. PICK w : Leads(w)
    BY <1>1, <1>5 DEF MarketInv
  <2> DEFINE v == [i \in 1 .. Len(queue') + 1 |-> w[i + 1]]
  <2>2. \A s \in Sides : ~Touches(todo, s)
    BY DEF MarketInv, DoneWith, Take, Sides
  <2>3. Applied(levels, todo) = levels
    BY <2>2 DEF Applied, Touches, TypeOK
  <2>4. w[1] = levels /\ w[2] = Applied(levels, queue[1])
    BY <1>2, <2>1, <2>3 DEF Leads
  <2>5. v \in [1 .. Len(queue') + 1 -> Levels] /\ v[1] = w[2] /\ v[Len(queue') + 1] = market
    BY <1>2, <2>1 DEF Leads
  <2>6. ASSUME NEW i \in 1 .. Len(queue') PROVE v[i + 1] = Applied(v[i], queue'[i])
    <3>1. i + 1 \in 1 .. Len(queue) /\ i + 1 \in 1 .. Len(queue') + 1 /\ i \in 1 .. Len(queue') + 1
      BY <1>2
    <3>2. w[(i + 1) + 1] = Applied(w[i + 1], queue[i + 1])
      BY <2>1, <3>1 DEF Leads
    <3> QED
      BY <1>2, <3>1, <3>2
  <2>7. v[1] = Applied(levels', todo')
    BY <1>1, <2>4, <2>5
  <2> HIDE DEF v
  <2>8. PICK u : u = v
    OBVIOUS
  <2>9. Leads(u)'
    BY <1>1, <2>5, <2>6, <2>7, <2>8 DEF Leads
  <2> QED
    BY <2>9
<1> QED
  BY <1>3, <1>4, <1>5 DEF MarketInv

\* Levels change one by one towards the same book.
LEMMA MarketLevel ==
  ASSUME TypeOK, MarketInv, NEW s \in Sides, SetLevel(s) \/ DeleteLevel(s) PROVE MarketInv'
<1>1. pc = s /\ UNCHANGED <<pc, queue, market, lost>>
  BY DEF SetLevel, DeleteLevel
<1>2. /\ levels \in Levels /\ todo.set \in Levels /\ todo.del \in Levels
      /\ todo = [set |-> todo.set, del |-> todo.del]
  BY DEF TypeOK, Changes, Levels
<1>3. PICK p \in Prices :
        \/ /\ p \in todo.set[s] /\ levels' = [levels EXCEPT ![s] = levels[s] \cup {p}]
           /\ todo' = [set |-> [todo.set EXCEPT ![s] = todo.set[s] \ {p}], del |-> todo.del]
        \/ /\ p \in todo.del[s] /\ levels' = [levels EXCEPT ![s] = levels[s] \ {p}]
           /\ todo' = [set |-> todo.set, del |-> [todo.del EXCEPT ![s] = todo.del[s] \ {p}]]
  BY <1>2 DEF SetLevel, DeleteLevel, Levels
<1>4. Consistent(todo)' /\ Applied(levels', todo') = Applied(levels, todo)
      /\ \A r \in Sides : Touches(todo', r) => Touches(todo, r)
  BY <1>2, <1>3 DEF Consistent, Applied, Touches, MarketInv, Levels
<1>5. \A r \in Sides : DoneWith(r)'
  BY <1>1, <1>4 DEF DoneWith, MarketInv
<1>6. \A w : Leads(w) => Leads(w)'
  BY <1>1, <1>4 DEF Leads
<1> QED
  BY <1>1, <1>4, <1>5, <1>6 DEF MarketInv

LEMMA MarketMoves ==
  ASSUME TypeOK, MarketInv, ExchangeMoves PROVE MarketInv'
<1>1. UNCHANGED <<levels, todo, pc>> /\ queue \in Seq(Changes) /\ market \in Levels
  BY DEF ExchangeMoves, book, TypeOK, Levels
<1> DEFINE Change(b) == [set |-> [s \in Sides |-> b[s] \ market[s]],
                         del |-> [s \in Sides |-> market[s] \ b[s]]]
<1>2. PICK b \in Levels :
        /\ market' = b
        /\ \/ queue' = Append(queue, Change(b)) /\ lost' = lost
           \/ queue' = queue /\ lost' = TRUE
  BY DEF ExchangeMoves, Books, Levels
<1> DEFINE m == Change(b)
<1>3. Consistent(m) /\ Applied(market, m) = b
  BY <1>1, <1>2 DEF Consistent, Applied, Levels
<1>4. Consistent(todo)' /\ \A s \in Sides : DoneWith(s)'
  BY <1>1 DEF MarketInv, Consistent, DoneWith, Touches
<1>5. CASE queue' = queue /\ lost' = TRUE
  BY <1>4, <1>5 DEF MarketInv
<1>6. CASE queue' = Append(queue, m) /\ lost' = lost
  <2>1. /\ Len(queue) \in Nat /\ Len(queue') = Len(queue) + 1
        /\ queue'[Len(queue) + 1] = m
        /\ \A i \in 1 .. Len(queue) : queue'[i] = queue[i]
    BY <1>1, <1>6
  <2>2. \A i \in 1 .. Len(queue') : Consistent(queue'[i])
    BY <1>3, <2>1 DEF MarketInv
  <2>3. ASSUME ~lost' PROVE \E w : Leads(w)'
    <3>1. PICK w : Leads(w)
      BY <1>6, <2>3 DEF MarketInv
    <3> DEFINE v == [i \in 1 .. Len(queue) + 2 |-> IF i = Len(queue) + 2 THEN b ELSE w[i]]
    <3>2. /\ v[Len(queue) + 2] = b
          /\ \A i \in 1 .. Len(queue) + 1 : v[i] = w[i]
          /\ v \in [1 .. Len(queue') + 1 -> Levels]
      BY <2>1, <3>1 DEF Leads
    <3> HIDE DEF v
    <3>3. v[1] = Applied(levels', todo') /\ v[Len(queue') + 1] = market'
      BY <1>1, <1>2, <2>1, <3>1, <3>2 DEF Leads
    <3>4. ASSUME NEW i \in 1 .. Len(queue') PROVE v[i + 1] = Applied(v[i], queue'[i])
      <4>1. CASE i = Len(queue) + 1
        <5>1. v[i + 1] = b /\ v[i] = market /\ queue'[i] = m
          BY <2>1, <3>1, <3>2, <4>1 DEF Leads
        <5> QED
          BY <1>3, <5>1
      <4>2. CASE i # Len(queue) + 1
        <5>1. i \in 1 .. Len(queue) /\ i + 1 \in 1 .. Len(queue) + 1 /\ i \in 1 .. Len(queue) + 1
          BY <2>1, <4>2
        <5>2. w[i + 1] = Applied(w[i], queue[i])
          BY <3>1, <5>1 DEF Leads
        <5> QED
          BY <2>1, <3>2, <5>1, <5>2
      <4> QED
        BY <4>1, <4>2
    <3>5. PICK u : u = v
      OBVIOUS
    <3>6. Leads(u)'
      BY <3>2, <3>3, <3>4, <3>5 DEF Leads
    <3> QED
      BY <3>6
  <2> QED
    BY <1>4, <2>2, <2>3 DEF MarketInv
<1> QED
  BY <1>2, <1>5, <1>6

LEMMA MarketStep == TypeOK /\ MarketInv /\ [Next]_vars => MarketInv'
<1> SUFFICES ASSUME TypeOK, MarketInv, [Next]_vars PROVE MarketInv'
  OBVIOUS
<1>1. ASSUME UNCHANGED <<levels, todo, queue, market, lost>>, \A s \in Sides : DoneWith(s)'
      PROVE  MarketInv'
  <2>1. \A w : Leads(w) => Leads(w)'
    BY <1>1 DEF Leads
  <2> QED
    BY <1>1, <2>1 DEF MarketInv
<1>2. ASSUME NEW s \in Sides, UpdateBest(s) PROVE MarketInv'
  <2>1. /\ UNCHANGED <<levels, todo, queue, market, lost>>
        /\ pc = s /\ ~Touches(todo, s)
        /\ pc' = IF s = "bids" /\ Touches(todo, "asks") THEN "asks" ELSE "spread"
    BY <1>2 DEF UpdateBest
  <2>2. \A r \in Sides : DoneWith(r)'
    BY <2>1 DEF DoneWith, Touches, MarketInv, Sides
  <2> QED
    BY <1>1, <2>1, <2>2
<1>3. CASE UpdateSpread \/ Publish \/ End
  <2>1. UNCHANGED <<levels, todo, queue, market, lost>> /\ pc \notin Sides /\ pc' \notin Sides
    BY <1>3 DEF UpdateSpread, Publish, End, book, Sides
  <2>2. \A r \in Sides : DoneWith(r)'
    BY <2>1 DEF DoneWith, Touches, MarketInv
  <2> QED
    BY <1>1, <2>1, <2>2
<1>4. CASE Wake \/ ReadSpread \/ ReadBest \/ UNCHANGED vars
  <2>1. UNCHANGED <<levels, todo, queue, market, lost, pc>>
    BY <1>4 DEF Wake, ReadSpread, ReadBest, vars, book
  <2>2. \A r \in Sides : DoneWith(r)'
    BY <2>1 DEF DoneWith, Touches, MarketInv
  <2> QED
    BY <1>1, <2>1, <2>2
<1> QED
  BY <1>2, <1>3, <1>4, MarketTake, MarketLevel, MarketMoves DEF Next

\* As long as no message was dropped for it the book is the exchange's whenever the
\* subscriber has nothing more to apply, after any number of changes.
THEOREM BookFollowsMarket == Spec => []BookIsMarket
<1>1. Init => TypeOK /\ MarketInv
  BY InitIInv, MarketInit DEF IInv, PricesFollow
<1>2. TypeOK /\ MarketInv => BookIsMarket
  <2> SUFFICES ASSUME TypeOK, MarketInv, ~lost, queue = <<>>, pc = "waiting"
               PROVE  levels = market
    BY DEF BookIsMarket
  <2>1. PICK w : Leads(w)
    BY DEF MarketInv
  <2>2. \A s \in Sides : ~Touches(todo, s)
    BY DEF MarketInv, DoneWith, Sides
  <2>3. Applied(levels, todo) = levels
    BY <2>2 DEF Applied, Touches, TypeOK
  <2> QED
    BY <2>1, <2>3 DEF Leads
<1>3. IInv => TypeOK
  BY DEF IInv, PricesFollow
<1> QED
  BY <1>1, <1>2, <1>3, InitIInv, NextIInv, MarketStep, PTL DEF Spec
=============================================================================
