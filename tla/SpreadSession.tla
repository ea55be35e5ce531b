---------------------------- MODULE SpreadSession ----------------------------
(***************************************************************************)
(* One session of the spread strategy: it buys base currency with a limit  *)
(* order kept at the top of the book, then sells what it bought the same   *)
(* way, and is done.  Three kinds of goroutine share the session's flags   *)
(* and ids, each field under its own short lock:                           *)
(*   - the decider (service/spread/decider.go, order.go) creates orders;   *)
(*   - the listener (strategy/spread.go, listenNewOrders) matches the      *)
(*     exchange's answers with the session's request ids, adopts created   *)
(*     orders and starts their watchers;                                   *)
(*   - one watcher per adopted order (service/spread/watch.go) moves,      *)
(*     cancels or settles it from what accounting put in the storage.      *)
(* The exchange answers each request once, at any later time, and fills    *)
(* or cancels orders by itself; accounting copies order states into the    *)
(* storage later still (subscriber/accounting.go).                         *)
(*                                                                         *)
(* Create and alter requests are numbered as they are sent; the order a    *)
(* request creates carries the request's number, so 0 is "no order" and    *)
(* "no request" alike, as in the code.  Prices, volumes and the order book *)
(* decide only WHETHER a step is taken, so every market condition is left  *)
(* open.                                                                   *)
(***************************************************************************)
EXTENDS Naturals, FiniteSets

CONSTANT MaxRequests      \* bound of the model: create and alter requests sent

ASSUME MaxRequestsAssumption == MaxRequests \in Nat

Sides    == {"buy", "sell"}
Requests == 1..MaxRequests
Ids      == 0..MaxRequests

\* Order states (dictionary.State*): Pending, Hold and Placing are "placing",
\* Rejected goes with "cancelled"; "absent" is no order.
OrderStates == {"absent", "placing", "active", "done", "cancelled"}
Live        == {"placing", "active"}
Final       == {"done", "cancelled"}

\* What a create or alter request may be answered (response/error.go), after
\* which its answer is used by the listener or discarded by it.
Answers  == {"created", "tooSmall", "doneCode", "error"}
Statuses == {"unsent", "sent", "used", "discarded"} \cup Answers

\* Where a watcher is; what a cancel and a get request have come to.
WatchStates  == {"none", "watch", "altered", "cancelling", "getting", "stopped"}
CancelStates == {"none", "sent", "ok", "done", "error"}
GetStates    == {"none", "sent"} \cup OrderStates

VARIABLES
  \* the Session record (storage/spread/session.go); Sides -> ...
  need,        \* IsNeedToCreateBuyOrder, IsNeedToCreateSellOrder
  active,      \* ActiveBuyOrderID, ActiveSellOrderID
  prev,        \* PrevBuyOrderID, PrevSellOrderID
  req,         \* activeBuyOrderRequestID, activeSellOrderRequestID
  orders,      \* BuyOrders, SellOrders
  completed,   \* CompletedBuyOrders, CompletedSellOrders
  isDone,
  \* the goroutines
  dpc,         \* decider: idle, sent (request id not stored yet), stopped
  dreq,        \* the create request the decider has sent
  lpc,         \* listener: off, idle, cancelling, stopped
  lord,        \* the previous order the listener is cancelling
  wpc,         \* Requests -> watcher of that order
  wreq,        \* Requests -> the alter request its watcher has sent
  failed,      \* the context of all goroutines is done: one of them returned an
               \* error, or the bot is shut down
  \* requests and the exchange
  last,        \* number of the newest request
  side,        \* Requests -> its side
  target,      \* Requests -> the order it alters, 0 for a create request
  status,      \* Requests -> how far the request and its answer are
  cancel,      \* Requests -> the cancel request out for that order
  get,         \* Requests -> the get request out for that order
  exch,        \* Requests -> the order's state at the exchange
  reported,    \* Requests -> the newest state accounting has applied
  stored,      \* Requests -> the state in storage.userOrders
  backwards    \* history: some stored state was overwritten by an earlier one

session  == <<need, active, prev, req, orders, completed, isDone>>
decider  == <<dpc, dreq>>
listener == <<lpc, lord>>
watchers == <<wpc, wreq>>
wire     == <<last, side, target, status>>
calls    == <<cancel, get>>
ledger   == <<exch, reported, stored, backwards>>

vars == <<need, active, prev, req, orders, completed, isDone, dpc, dreq, lpc,
          lord, wpc, wreq, failed, last, side, target, status, cancel, get, exch, reported,
          stored, backwards>>

\* The context of the session's goroutines is done: with all the others, or
\* because the decider returned and CreateSession cancels it.
ctxDone == failed \/ dpc = "stopped"

\* GetUserOrder(o) is not nil.
Stored(o) == o \in Requests /\ stored[o] # "absent"

SessionOK ==
  /\ need \in [Sides -> BOOLEAN]
  /\ active \in [Sides -> Ids]
  /\ prev \in [Sides -> Ids]
  /\ req \in [Sides -> Ids]
  /\ orders \in [Sides -> SUBSET Requests]
  /\ completed \in [Sides -> Nat]
  /\ isDone \in BOOLEAN

DeciderOK  == dpc \in {"idle", "sent", "stopped"} /\ dreq \in Ids
ListenerOK == lpc \in {"off", "idle", "cancelling", "stopped"} /\ lord \in Ids
WatchersOK == wpc \in [Requests -> WatchStates] /\ wreq \in [Requests -> Ids]

WireOK ==
  /\ last \in Ids
  /\ side \in [Requests -> Sides]
  /\ target \in [Requests -> Ids]
  /\ status \in [Requests -> Statuses]

CallsOK == cancel \in [Requests -> CancelStates] /\ get \in [Requests -> GetStates]

LedgerOK ==
  /\ exch \in [Requests -> OrderStates]
  /\ reported \in [Requests -> OrderStates]
  /\ stored \in [Requests -> OrderStates]
  /\ backwards \in BOOLEAN

TypeOK ==
  /\ SessionOK /\ DeciderOK /\ ListenerOK /\ WatchersOK
  /\ failed \in BOOLEAN
  /\ WireOK /\ CallsOK /\ LedgerOK

\* NewSession; the listener has not subscribed yet.
Init ==
  /\ need = [s \in Sides |-> s = "buy"]
  /\ active = [s \in Sides |-> 0]
  /\ prev = [s \in Sides |-> 0]
  /\ req = [s \in Sides |-> 0]
  /\ orders = [s \in Sides |-> {}]
  /\ completed = [s \in Sides |-> 0]
  /\ isDone = FALSE
  /\ dpc = "idle"
  /\ dreq = 0
  /\ lpc = "off"
  /\ lord = 0
  /\ wpc = [r \in Requests |-> "none"]
  /\ wreq = [r \in Requests |-> 0]
  /\ failed = FALSE
  /\ last = 0
  /\ side = [r \in Requests |-> "buy"]
  /\ target = [r \in Requests |-> 0]
  /\ status = [r \in Requests |-> "unsent"]
  /\ cancel = [r \in Requests |-> "none"]
  /\ get = [r \in Requests |-> "none"]
  /\ exch = [r \in Requests |-> "absent"]
  /\ reported = [r \in Requests |-> "absent"]
  /\ stored = [r \in Requests |-> "absent"]
  /\ backwards = FALSE

\* UpsertUserOrder: whoever comes last wins.
Rank(st) == CASE st = "absent" -> 0 [] st = "placing" -> 1 [] st = "active" -> 2
              [] OTHER -> 3

Upsert(o, st) ==
  /\ stored' = [stored EXCEPT ![o] = st]
  /\ backwards' = (backwards \/ Rank(st) < Rank(stored[o]))

-----------------------------------------------------------------------------
(* Steps the goroutines share.  The definitions named Slip... are not part *)
(* of the session: each holds a plausible mistake, and the checks show that *)
(* a property notices when it takes the place of the real definition.      *)

\* wsSvc.CreateOrder (alters = 0) and wsSvc.AlterOrder: the request is on its
\* way, but its number is not in the session yet.
SendOrder(s, alters) ==
  /\ last < MaxRequests
  /\ last' = last + 1
  /\ side' = [side EXCEPT ![last + 1] = s]
  /\ target' = [target EXCEPT ![last + 1] = alters]
  /\ status' = [status EXCEPT ![last + 1] = "sent"]

\* The previous order's id is kept.
SlipDoneKeepsPrev(s, o) ==
  /\ completed' = [completed EXCEPT ![s] = @ + 1]
  /\ IF s = "buy"
       THEN /\ active' = [t \in Sides |-> IF t = "buy" THEN o ELSE 0]
            /\ req' = [t \in Sides |-> 0]
            /\ need' = [need EXCEPT !["sell"] = TRUE]
            /\ UNCHANGED isDone
       ELSE /\ active' = [active EXCEPT !["sell"] = 0]
            /\ req' = [req EXCEPT !["sell"] = 0]
            /\ isDone' = TRUE
            /\ UNCHANGED need
  /\ UNCHANGED <<prev, orders>>

\* SetBuyOrderDoneFlags, SetSellOrderDoneFlags: one locked update of the
\* session for an order that counts as executed.
SetDoneFlags(s, o) ==
  /\ completed' = [completed EXCEPT ![s] = @ + 1]
  /\ prev' = [prev EXCEPT ![s] = 0]
  /\ IF s = "buy"
       THEN /\ active' = [t \in Sides |-> IF t = "buy" THEN o ELSE 0]
            /\ req' = [t \in Sides |-> 0]
            /\ need' = [need EXCEPT !["sell"] = TRUE]
            /\ UNCHANGED isDone
       ELSE /\ active' = [active EXCEPT !["sell"] = 0]
            /\ req' = [req EXCEPT !["sell"] = 0]
            /\ isDone' = TRUE
            /\ UNCHANGED need
  /\ UNCHANGED orders

-----------------------------------------------------------------------------
(* The decider.                                                            *)

\* decide, createBuyOrder, createSellOrder: the flag is lowered, then the
\* request sent.  The price condition of a sell order compares the ask with
\* the executed buy order, which has to be in the storage.  Without funds the
\* flag is raised again and nothing has happened.
DeciderSend(s) ==
  /\ dpc = "idle"
  /\ ~isDone
  /\ need[s]
  /\ s = "sell" => Stored(active["buy"])
  /\ need' = [need EXCEPT ![s] = FALSE]
  /\ SendOrder(s, 0)
  /\ dpc' = "sent"
  /\ dreq' = last + 1
  /\ UNCHANGED <<active, prev, req, orders, completed, isDone, listener, watchers,
                 failed, calls, ledger>>

\* The last statement of createBuyOrder and createSellOrder.
DeciderStore ==
  /\ dpc = "sent"
  /\ req' = [req EXCEPT ![side[dreq]] = dreq]
  /\ dpc' = "idle"
  /\ dreq' = 0
  /\ UNCHANGED <<need, active, prev, orders, completed, isDone, listener,
                 watchers, failed, wire, calls, ledger>>

\* The websocket refuses the request: decide returns the error.
DeciderSendFails(s) ==
  /\ dpc = "idle"
  /\ ~isDone
  /\ need[s]
  /\ s = "sell" => Stored(active["buy"])
  /\ need' = [need EXCEPT ![s] = FALSE]
  /\ dpc' = "stopped"
  /\ failed' = TRUE
  /\ UNCHANGED <<active, prev, req, orders, completed, isDone, dreq, listener,
                 watchers, wire, calls, ledger>>

\* The session is done, or the context is.
DeciderStop ==
  /\ dpc = "idle"
  /\ isDone \/ failed
  /\ dpc' = "stopped"
  /\ UNCHANGED <<session, dreq, listener, watchers, failed, wire, calls, ledger>>

-----------------------------------------------------------------------------
(* The listener.  It is started concurrently with the decider, and the     *)
(* broker forgets what it publishes before a subscription is registered.   *)

ListenerSubscribed ==
  /\ lpc = "off"
  /\ lpc' = "idle"
  /\ UNCHANGED <<session, decider, lord, watchers, failed, wire, calls, ledger>>

\* An answer published before the listener is registered, or one whose number
\* is not (yet) a request id of the session (spread.go:340), is lost on it.
ListenerDiscard(r) ==
  /\ status[r] \in Answers
  /\ \/ lpc = "off"
     \/ lpc = "idle" /\ r \notin {req["buy"], req["sell"]}
  /\ status' = [status EXCEPT ![r] = "discarded"]
  /\ UNCHANGED <<session, decider, listener, watchers, failed, last, side, target,
                 calls, ledger>>

\* The listener takes up answer a to the pending request r.
Takes(r, a) ==
  /\ lpc = "idle"
  /\ r = req[side[r]]
  /\ status[r] = a
  /\ status' = [status EXCEPT ![r] = "used"]
  /\ UNCHANGED <<last, side, target>>

\* The watcher is started, but the active order not set.
SlipAdoptInactive(r) ==
  /\ Takes(r, "created")
  /\ req' = [req EXCEPT ![side[r]] = 0]
  /\ orders' = [orders EXCEPT ![side[r]] = @ \cup {r}]
  /\ wpc' = [wpc EXCEPT ![r] = "watch"]
  /\ UNCHANGED <<need, active, prev, completed, isDone, decider, listener, wreq,
                 failed, calls, ledger>>

\* The order exists: it becomes the active one and gets its watcher.
ListenerAdopt(r) ==
  /\ Takes(r, "created")
  /\ active' = [active EXCEPT ![side[r]] = r]
  /\ req' = [req EXCEPT ![side[r]] = 0]
  /\ orders' = [orders EXCEPT ![side[r]] = @ \cup {r}]
  /\ wpc' = [wpc EXCEPT ![r] = "watch"]
  /\ UNCHANGED <<need, prev, completed, isDone, decider, listener, wreq, failed,
                 calls, ledger>>

\* Both kinds of expected errors are looked at only when some order came
\* before (checkListenOrderErrors, spread.go:401, 438).
hasPrev == prev["buy"] # 0 \/ prev["sell"] # 0

\* The previous order is taken for executed without a look at its state.
SlipTooSmallNoCancel(r) ==
  /\ Takes(r, "tooSmall")
  /\ hasPrev
  /\ Stored(prev[side[r]])
  /\ SetDoneFlags(side[r], prev[side[r]])
  /\ UNCHANGED <<decider, listener, watchers, failed, calls, ledger>>

\* What is left was filled, or is too little to trade: the previous order
\* counts as executed.  SetBuyOrderExecutedFlags cancels an order that still
\* looks active first.
ListenerTooSmall(r) ==
  /\ Takes(r, "tooSmall")
  /\ hasPrev
  /\ Stored(prev[side[r]])
  /\ LET o == prev[side[r]]
     IN  IF stored[o] = "active"
           THEN /\ lpc' = "cancelling"
                /\ lord' = o
                /\ cancel' = [cancel EXCEPT ![o] = "sent"]
                /\ UNCHANGED session
           ELSE /\ SetDoneFlags(side[r], o)
                /\ UNCHANGED <<listener, cancel>>
  /\ UNCHANGED <<decider, watchers, failed, get, ledger>>

\* The altered order is final already: if it was cancelled another one may be
\* created, if it was executed so is the session's side.
ListenerDoneCode(r) ==
  /\ Takes(r, "doneCode")
  /\ hasPrev
  /\ LET s == side[r]
         o == prev[s]
     IN  \/ /\ Stored(o) /\ stored[o] = "cancelled"
            /\ req' = [req EXCEPT ![s] = 0]
            /\ need' = [need EXCEPT ![s] = TRUE]
            /\ UNCHANGED <<active, prev, orders, completed, isDone>>
         \/ /\ Stored(o) /\ stored[o] = "done"
            /\ SetDoneFlags(s, o)
  /\ UNCHANGED <<decider, listener, watchers, failed, calls, ledger>>

\* An unexpected error is skipped.
SlipErrorSkipped(r) ==
  /\ ~hasPrev /\ (Takes(r, "tooSmall") \/ Takes(r, "doneCode"))
  /\ lpc' = "stopped"
  /\ failed' = TRUE
  /\ UNCHANGED <<session, decider, lord, watchers, calls, ledger>>

\* Any other error ends the listener, and with it the whole errgroup: an
\* expected error without a previous order, or one whose previous order is
\* not known to be final yet, or was rejected and not cancelled.
ListenerFails(r) ==
  /\ \/ Takes(r, "error")
     \/ ~hasPrev /\ (Takes(r, "tooSmall") \/ Takes(r, "doneCode"))
     \/ /\ Takes(r, "doneCode")
        /\ Stored(prev[side[r]])
        /\ stored[prev[side[r]]] # "done"
  /\ lpc' = "stopped"
  /\ failed' = TRUE
  /\ UNCHANGED <<session, decider, lord, watchers, calls, ledger>>

\* CancelOrder returns inside SetBuyOrderExecutedFlags, which returns with it
\* and sets no flag (order.go:250), or inside SetSellOrderExecutedFlags, which
\* goes on to set them.
ListenerCancelled ==
  /\ lpc = "cancelling"
  /\ cancel[lord] = "ok"
  /\ cancel' = [cancel EXCEPT ![lord] = "none"]
  /\ lpc' = "idle"
  /\ lord' = 0
  /\ IF side[lord] = "buy" THEN UNCHANGED session ELSE SetDoneFlags("sell", lord)
  /\ UNCHANGED <<decider, watchers, failed, wire, get, ledger>>

ListenerCancelFails ==
  /\ lpc = "cancelling"
  /\ cancel[lord] \in {"done", "error"}
  /\ cancel' = [cancel EXCEPT ![lord] = "none"]
  /\ lpc' = "stopped"
  /\ lord' = 0
  /\ failed' = TRUE
  /\ UNCHANGED <<session, decider, watchers, wire, get, ledger>>

ListenerStop ==
  /\ lpc = "idle"
  /\ ctxDone
  /\ lpc' = "stopped"
  /\ UNCHANGED <<session, decider, lord, watchers, failed, wire, calls, ledger>>

-----------------------------------------------------------------------------
(* The watcher of order o.  Book, accounting and forced-check events wake   *)
(* it all the time; what it does depends on the stored order alone, and on *)
(* the market.                                                             *)

\* moveBuyOrder, moveSellOrder with a better price to be had: AlterOrder is
\* sent.  A buy order is altered by the session's active id, a sell order by
\* the watcher's own.
WatchAlter(o) ==
  /\ wpc[o] = "watch"
  /\ stored[o] = "active"
  /\ side[o] = "sell" => Stored(active["buy"])
  /\ SendOrder(side[o], IF side[o] = "buy" THEN active["buy"] ELSE o)
  /\ wpc' = [wpc EXCEPT ![o] = "altered"]
  /\ wreq' = [wreq EXCEPT ![o] = last + 1]
  /\ UNCHANGED <<session, decider, listener, failed, calls, ledger>>

\* Then the session's ids are stored, the request id last, and the watcher
\* ends: the listener will start one for the new order.
WatchStore(o) ==
  /\ wpc[o] = "altered"
  /\ prev' = [prev EXCEPT ![side[o]] = o]
  /\ req' = [req EXCEPT ![side[o]] = wreq[o]]
  /\ wpc' = [wpc EXCEPT ![o] = "stopped"]
  /\ UNCHANGED <<need, active, orders, completed, isDone, decider, listener, wreq,
                 failed, wire, calls, ledger>>

\* cancelBuyOrder, cancelSellOrder when the spread got too small, and the move
\* functions when no better price is to be had: CancelOrder sends its request
\* and waits.
WatchCancel(o) ==
  /\ wpc[o] = "watch"
  /\ stored[o] = "active"
  /\ wpc' = [wpc EXCEPT ![o] = "cancelling"]
  /\ cancel' = [cancel EXCEPT ![o] = "sent"]
  /\ UNCHANGED <<session, decider, listener, wreq, failed, wire, get, ledger>>

\* The order is forgotten, and no other one asked for.
SlipReopenNot(s) ==
  /\ active' = [active EXCEPT ![s] = 0]
  /\ UNCHANGED <<need, req, orders, completed, isDone>>

\* The session may create another order.
Reopen(s) ==
  /\ active' = [active EXCEPT ![s] = 0]
  /\ need' = [need EXCEPT ![s] = TRUE]
  /\ UNCHANGED <<req, orders, completed, isDone>>

\* The answer to the cancel request is not waited for.
SlipCancelledEarly(o) ==
  /\ wpc[o] = "cancelling"
  /\ cancel[o] \in {"sent", "ok"}
  /\ prev' = [prev EXCEPT ![side[o]] = o]
  /\ Reopen(side[o])
  /\ wpc' = [wpc EXCEPT ![o] = "stopped"]
  /\ UNCHANGED <<decider, listener, wreq, failed, wire, calls, ledger>>

WatchCancelled(o) ==
  /\ wpc[o] = "cancelling"
  /\ cancel[o] = "ok"
  /\ cancel' = [cancel EXCEPT ![o] = "none"]
  /\ prev' = [prev EXCEPT ![side[o]] = o]
  /\ Reopen(side[o])
  /\ wpc' = [wpc EXCEPT ![o] = "stopped"]
  /\ UNCHANGED <<decider, listener, wreq, failed, wire, get, ledger>>

\* The watcher goes on waiting.
SlipCancelDoneWaits(o) ==
  /\ wpc[o] = "cancelling"
  /\ cancel[o] = "done"
  /\ cancel' = [cancel EXCEPT ![o] = "none"]
  /\ UNCHANGED <<session, decider, listener, watchers, failed, wire, get, ledger>>

\* ErrCantCancelDoneOrder: the watcher goes on until the storage shows it.
WatchCancelDone(o) ==
  /\ wpc[o] = "cancelling"
  /\ cancel[o] = "done"
  /\ cancel' = [cancel EXCEPT ![o] = "none"]
  /\ wpc' = [wpc EXCEPT ![o] = "watch"]
  /\ UNCHANGED <<session, decider, listener, wreq, failed, wire, get, ledger>>

\* The watcher does not end.
SlipDoneStays(o) ==
  /\ wpc[o] = "watch"
  /\ stored[o] = "done"
  /\ SetDoneFlags(side[o], o)
  /\ UNCHANGED <<decider, listener, watchers, failed, wire, calls, ledger>>

\* buyOrderExecuted, sellOrderExecuted for an executed order ...
WatchDone(o) ==
  /\ wpc[o] = "watch"
  /\ stored[o] = "done"
  /\ SetDoneFlags(side[o], o)
  /\ wpc' = [wpc EXCEPT ![o] = "stopped"]
  /\ UNCHANGED <<decider, listener, wreq, failed, wire, calls, ledger>>

\* ... and for a cancelled or rejected one, where only a buy order becomes
\* the previous one.
WatchGone(o) ==
  /\ wpc[o] = "watch"
  /\ stored[o] = "cancelled"
  /\ Reopen(side[o])
  /\ IF side[o] = "buy" THEN prev' = [prev EXCEPT !["buy"] = o] ELSE UNCHANGED prev
  /\ wpc' = [wpc EXCEPT ![o] = "stopped"]
  /\ UNCHANGED <<decider, listener, wreq, failed, wire, calls, ledger>>

\* Ten seconds without a trace of the order: ask for it and store the answer,
\* whatever accounting may have stored meanwhile.
WatchGet(o) ==
  /\ wpc[o] = "watch"
  /\ stored[o] = "absent"
  /\ wpc' = [wpc EXCEPT ![o] = "getting"]
  /\ get' = [get EXCEPT ![o] = "sent"]
  /\ UNCHANGED <<session, decider, listener, wreq, failed, wire, cancel, ledger>>

\* The answer is used before it is there.
SlipGotEarly(o) ==
  /\ wpc[o] = "getting"
  /\ Upsert(o, get[o])
  /\ get' = [get EXCEPT ![o] = "none"]
  /\ wpc' = [wpc EXCEPT ![o] = "watch"]
  /\ UNCHANGED <<session, decider, listener, wreq, failed, wire, cancel, exch,
                 reported>>

WatchGot(o) ==
  /\ wpc[o] = "getting"
  /\ get[o] \in OrderStates
  /\ Upsert(o, get[o])
  /\ get' = [get EXCEPT ![o] = "none"]
  /\ wpc' = [wpc EXCEPT ![o] = "watch"]
  /\ UNCHANGED <<session, decider, listener, wreq, failed, wire, cancel, exch,
                 reported>>

\* A call of the watcher fails: the websocket refuses a request, a cancel is
\* answered by another error, or the get request by an error or not in time.
WatchFails(o) ==
  /\ \/ wpc[o] = "watch" /\ stored[o] \in {"absent", "active"}
     \/ wpc[o] = "cancelling" /\ cancel[o] = "error"
     \/ wpc[o] = "getting"
  /\ wpc' = [wpc EXCEPT ![o] = "stopped"]
  /\ failed' = TRUE
  /\ UNCHANGED <<session, decider, listener, wreq, wire, calls, ledger>>

WatchStop(o) ==
  /\ wpc[o] \in {"watch", "getting"}
  /\ ctxDone
  /\ wpc' = [wpc EXCEPT ![o] = "stopped"]
  /\ UNCHANGED <<session, decider, listener, wreq, failed, wire, calls, ledger>>

-----------------------------------------------------------------------------
(* The exchange, accounting, and the rest of the bot.                      *)

\* A create request, or an alter request for an order that is still live,
\* makes an order; the altered one is cancelled by the same step.
ExchangeCreates(r) ==
  /\ status[r] = "sent"
  /\ target[r] # 0 => exch[target[r]] \in Live
  /\ status' = [status EXCEPT ![r] = "created"]
  /\ \E st \in Live :
       exch' = [o \in Requests |-> IF o = r THEN st
                                   ELSE IF o = target[r] THEN "cancelled"
                                   ELSE exch[o]]
  /\ UNCHANGED <<session, decider, listener, watchers, failed, last, side, target,
                 calls, reported, stored, backwards>>

\* Or it is refused: DoneOrderCode is for an altered order that is final.
ExchangeRefuses(r) ==
  /\ status[r] = "sent"
  /\ \E a \in {"tooSmall", "doneCode", "error"} :
       /\ a = "doneCode" => target[r] # 0 /\ exch[target[r]] \in Final
       /\ status' = [status EXCEPT ![r] = a]
  /\ UNCHANGED <<session, decider, listener, watchers, failed, last, side, target,
                 calls, ledger>>

\* An order is placed, filled, rejected, or cancelled by the account's owner.
ExchangeMoves(o) ==
  /\ exch[o] \in Live
  /\ \E st \in {"active"} \cup Final :
       /\ st # exch[o]
       /\ exch' = [exch EXCEPT ![o] = st]
  /\ UNCHANGED <<session, decider, listener, watchers, failed, wire, calls,
                 reported, stored, backwards>>

\* An executed order cannot be cancelled; a cancelled one says so, which
\* counts as success (service/order.go:277).
ExchangeCancels(o) ==
  /\ cancel[o] = "sent"
  /\ \/ /\ exch[o] \in Live
        /\ exch' = [exch EXCEPT ![o] = "cancelled"]
        /\ cancel' = [cancel EXCEPT ![o] = "ok"]
     \/ /\ cancel' = [cancel EXCEPT ![o] = IF exch[o] = "cancelled" THEN "ok"
                                            ELSE IF exch[o] = "done" THEN "done"
                                            ELSE "error"]
        /\ UNCHANGED exch
  /\ UNCHANGED <<session, decider, listener, watchers, failed, wire, get, reported,
                 stored, backwards>>

ExchangeGets(o) ==
  /\ get[o] = "sent"
  /\ get' = [get EXCEPT ![o] = exch[o]]
  /\ UNCHANGED <<session, decider, listener, watchers, failed, wire, cancel,
                 ledger>>

\* Accounting stores a later state of the order than it stored before: the
\* updates of one order come in its order, but any time after the fact.
Accounting(o) ==
  \E st \in OrderStates :
    /\ Rank(reported[o]) < Rank(st)
    /\ Rank(st) <= Rank(exch[o])
    /\ st \in Final => st = exch[o]
    /\ reported' = [reported EXCEPT ![o] = st]
    /\ Upsert(o, st)
    /\ UNCHANGED <<session, decider, listener, watchers, failed, wire, calls, exch>>

\* A signal, or an error of a goroutine that is not the session's.
Interrupted ==
  /\ ~failed
  /\ failed' = TRUE
  /\ UNCHANGED <<session, decider, listener, watchers, wire, calls, ledger>>

-----------------------------------------------------------------------------
Next ==
  \/ \E s \in Sides : DeciderSend(s) \/ DeciderSendFails(s)
  \/ DeciderStore \/ DeciderStop \/ Interrupted
  \/ ListenerSubscribed \/ ListenerCancelled \/ ListenerCancelFails \/ ListenerStop
  \/ \E r \in Requests :
       \/ ListenerDiscard(r) \/ ListenerAdopt(r) \/ ListenerTooSmall(r)
       \/ ListenerDoneCode(r) \/ ListenerFails(r)
       \/ WatchAlter(r) \/ WatchStore(r) \/ WatchCancel(r) \/ WatchCancelled(r)
       \/ WatchCancelDone(r) \/ WatchDone(r) \/ WatchGone(r) \/ WatchGet(r)
       \/ WatchGot(r) \/ WatchFails(r) \/ WatchStop(r)
       \/ ExchangeCreates(r) \/ ExchangeRefuses(r) \/ ExchangeMoves(r)
       \/ ExchangeCancels(r) \/ ExchangeGets(r) \/ Accounting(r)

Spec == Init /\ [][Next]_vars

-----------------------------------------------------------------------------
(* Safety.                                                                 *)

LiveOrders(s) == {o \in Requests : side[o] = s /\ exch[o] \in Live}

\* A request that has been sent and not been used by the listener.
Open(s) == {r \in Requests : side[r] = s /\ status[r] \in {"sent"} \cup Answers}

Watching(o) == wpc[o] \in {"watch", "altered", "cancelling", "getting"}

\* The session never has two orders of one side in the market, though
\* cancelling, altering and creating are three goroutines' work.
OneLiveOrder == \A s \in Sides : Cardinality(LiveOrders(s)) <= 1

\* What is sold is what was bought: once a sell order has been asked for, no
\* buy order is in the market or on its way there.
NoBuyWhileSelling ==
  ~backwards /\ (\E r \in 1..last : side[r] = "sell") => LiveOrders("buy") = {} /\ Open("buy") = {}

\* The decider is told to create an order only when nothing of that side is
\* in the market, on its way, or being watched.
NeedMeansIdle ==
  \A s \in Sides : need[s] => /\ LiveOrders(s) = {}
                            /\ Open(s) = {}
                            /\ \A o \in Requests : side[o] = s => ~Watching(o)

\* Profit is booked (SubProfit, AddProfit) with the done flags: once for what
\* was bought, and once, later, for what was sold.
BookedOnce == completed["buy"] <= 1 /\ completed["sell"] <= completed["buy"]

\* A finished session leaves nothing in the market: it will never be looked
\* at again (strategy/spread.go:111).
DoneIsFlat == isDone /\ ~backwards => \A s \in Sides : LiveOrders(s) = {} /\ Open(s) = {}

\* A watcher watches the session's active order, and so, for a side, alone.
\* moveBuyOrder relies on it: it alters the active order, not the watched one.
WatcherHasActive ==
  \A o \in Requests : Watching(o) => active[side[o]] = o

\* The code dereferences stored orders without looking: those the totals are
\* summed over when volumes are calculated, and the previous order of an
\* expected error.
NoNilOrder ==
  /\ \A s \in Sides : need[s] => \A o \in orders[s] : Stored(o)
  /\ \A o \in Requests : Watching(o) =>
       \A p \in orders[side[o]] \ {o} : Stored(p)
  /\ \A r \in Requests :
       status[r] \in {"tooSmall", "doneCode"} /\ r = req[side[r]] /\ hasPrev =>
         /\ Stored(prev[side[r]])
         /\ \A p \in orders[side[r]] : Stored(p)

\* A session that has neither finished nor failed has something left that can
\* carry it on, unless it ran into one of two traps: an answer was discarded
\* because its request id was not stored yet, or a buy order was cancelled
\* when its replacement was refused as too small.
Lost        == \E r \in Requests : status[r] = "discarded"
Trapped     == \E s \in Sides : req[s] # 0 /\ status[req[s]] = "used" /\ lpc # "cancelling"
CanGoOn     == \/ \E s \in Sides : need[s] \/ (req[s] # 0 /\ req[s] \in Open(s))
               \/ dpc = "sent" \/ lpc = "cancelling"
               \/ \E o \in Requests : Watching(o)
OnlyTwoTraps == ~isDone /\ ~failed => CanGoOn \/ Lost \/ Trapped

-----------------------------------------------------------------------------
(* Liveness.  Goroutines that can run do, the exchange answers every       *)
(* request, accounting gets to every update, and book events, which never  *)
(* end, wake the watchers.  Nothing makes the market move: no order has to *)
(* be filled, no move or cancellation is ever due, and no call has to fail.*)
Fairness ==
  /\ WF_vars(DeciderStore) /\ WF_vars(DeciderStop)
  /\ WF_vars(ListenerSubscribed) /\ WF_vars(ListenerCancelled)
  /\ WF_vars(ListenerCancelFails) /\ WF_vars(ListenerStop)
  /\ \A r \in Requests :
       /\ WF_vars(ListenerDiscard(r) \/ ListenerAdopt(r) \/ ListenerTooSmall(r)
                    \/ ListenerDoneCode(r) \/ ListenerFails(r))
       /\ WF_vars(ExchangeCreates(r) \/ ExchangeRefuses(r))
       /\ WF_vars(ExchangeCancels(r)) /\ WF_vars(ExchangeGets(r))
       /\ WF_vars(Accounting(r))
       /\ WF_vars(WatchStore(r)) /\ WF_vars(WatchCancelled(r))
       /\ WF_vars(WatchCancelDone(r)) /\ WF_vars(WatchDone(r))
       /\ WF_vars(WatchGone(r)) /\ WF_vars(WatchGot(r))
       /\ WF_vars(wpc[r] = "cancelling" /\ WatchFails(r)) /\ WF_vars(WatchStop(r))

FairSpec == Spec /\ Fairness

\* A request id does not stay in the session: its answer is acted upon, or the
\* session ends or falls into one of the traps.
RequestsSettle ==
  \A s \in Sides : (req[s] # 0) ~> (req[s] = 0 \/ ctxDone \/ Lost \/ Trapped)

\* A watcher does not miss that its order is gone from the market, even when it
\* was told so by the refusal of a cancellation first - if the storage is not
\* set back by a late answer or update.  Once the bot shuts down nobody publishes
\* answers any more.
FinalOrderNoticed ==
  \A o \in Requests :
    (Watching(o) /\ exch[o] \in Final) ~> (~Watching(o) \/ backwards \/ failed)

(* What the code says of itself and does not keep.                         *)

\* "Watch for created order." (service/spread/watch.go:21): every order that
\* stays in the market is watched, unless the session ends.
CreatedOrderWatched ==
  \A o \in Requests :
    (exch[o] \in Live) ~> (wpc[o] # "none" \/ exch[o] \in Final \/ ctxDone)

\* "consider prev buy order as executed, allow to place sell order"
\* (strategy/spread.go:408), after cancelling it if need be.
RefusedBuyAllowsSell ==
  (lpc = "cancelling" /\ side[lord] = "buy") ~> (completed["buy"] = 1 \/ failed)
=============================================================================
