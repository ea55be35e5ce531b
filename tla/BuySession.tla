----------------------------- MODULE BuySession -----------------------------
(***************************************************************************)
(* One session of the buy strategy (strategy/buy.go): it spends BuyTotal   *)
(* with limit orders kept at the top of the book, and is done when one of  *)
(* them is executed.  The goroutines are those of the spread session       *)
(* (module SpreadSession): a decider that creates orders, a listener that  *)
(* adopts the created ones, a watcher per order; Start creates a session,  *)
(* and cleans up when the bot is shut down.                                *)
(*                                                                         *)
(* Here volumes are modelled: an order is sized by what the storage says   *)
(* was bought so far, which lags behind what the exchange has filled.      *)
(* Volumes are in units of the quote currency, prices are left open, and   *)
(* market conditions decide only whether a step is taken.  A created order *)
(* carries the number of the request that created it; 0 is "none".  The     *)
(* session's setters that a goroutine calls in a row are one step: only    *)
(* the last of them tells another goroutine to act.                        *)
(***************************************************************************)
EXTENDS Naturals, FiniteSetsExt

CONSTANTS MaxRequests,    \* bound of the model: create and alter requests sent
          BuyTotal        \* what the session may spend

ASSUME BuyAssumption == MaxRequests \in Nat /\ BuyTotal \in Nat \ {0}

Requests == 1..MaxRequests
Ids      == 0..MaxRequests
Volumes  == 0..BuyTotal

OrderStates == {"absent", "placing", "active", "done", "cancelled"}
Live        == {"placing", "active"}
Final       == {"done", "cancelled"}
Answers     == {"created", "tooSmall", "doneCode", "error"}

\* An order as the exchange, accounting or the storage has it.
Snapshots == [st : OrderStates, got : Volumes]
Absent    == [st |-> "absent", got |-> 0]

VARIABLES
  \* the Session record (storage/buy/session.go), and the book's BoughtCost
  need, active, prev, req, orders, completed, isDone, booked,
  \* the goroutines
  spc,         \* Start: running, or cleaned (returned after its clean-up)
  dpc, dreq,   \* decider: idle, sent, stopped; the create request it has sent
  lpc, lord,   \* listener: off, idle, cancelling, stopped; what it cancels
  wpc, wreq,   \* Requests -> its watcher; the alter request that has sent
  failed,      \* the context of the whole bot is done
  \* requests and the exchange
  last,        \* number of the newest request
  target,      \* Requests -> the order it alters, 0 for a create request
  amount,      \* Requests -> the volume asked for
  status,      \* Requests -> unsent, sent, an answer, used, discarded
  cancel, get, \* Requests -> the cancel and get requests out for that order
  answer,      \* Requests -> what the get request brought
  exch,        \* Requests -> the order at the exchange
  reported,    \* Requests -> what accounting has applied last
  stored,      \* Requests -> the order in storage.userOrders
  backwards,   \* history: a stored order was overwritten by an earlier state
  missed       \* history: an order was sized without a fill that counts

session  == <<need, active, prev, req, orders, completed, isDone, booked>>
decider  == <<dpc, dreq>>
listener == <<lpc, lord>>
watchers == <<wpc, wreq>>
wire     == <<last, target, amount, status>>
calls    == <<cancel, get, answer>>
ledger   == <<exch, reported, stored, backwards>>

vars == <<need, active, prev, req, orders, completed, isDone, booked, spc, dpc,
          dreq, lpc, lord, wpc, wreq, failed, last, target, amount, status,
          cancel, get, answer, exch, reported, stored, backwards, missed>>

\* sessCtx, which CreateSession cancels when the decider has returned.
ctxDone   == failed \/ dpc = "stopped"
Stored(o) == o \in Requests /\ stored[o].st # "absent"

TypeOK ==
  /\ need \in BOOLEAN /\ isDone \in BOOLEAN
  /\ active \in Ids /\ prev \in Ids /\ req \in Ids
  /\ orders \subseteq Requests /\ completed \in Nat /\ booked \in Nat
  /\ spc \in {"running", "cleaned"}
  /\ dpc \in {"idle", "sent", "stopped"} /\ dreq \in Ids
  /\ lpc \in {"off", "idle", "cancelling", "stopped"} /\ lord \in Ids
  /\ wpc \in [Requests -> {"none", "watch", "altered", "cancelling", "getting",
                           "stopped"}]
  /\ wreq \in [Requests -> Ids]
  /\ failed \in BOOLEAN /\ backwards \in BOOLEAN /\ missed \in BOOLEAN
  /\ last \in Ids /\ target \in [Requests -> Ids] /\ amount \in [Requests -> Volumes]
  /\ status \in [Requests -> {"unsent", "sent", "used", "discarded"} \cup Answers]
  /\ cancel \in [Requests -> {"none", "sent", "ok", "done", "error"}]
  /\ get \in [Requests -> {"none", "sent", "answered"}]
  /\ answer \in [Requests -> Snapshots]
  /\ exch \in [Requests -> Snapshots]
  /\ reported \in [Requests -> Snapshots]
  /\ stored \in [Requests -> Snapshots]

Init ==
  /\ need = TRUE /\ isDone = FALSE
  /\ active = 0 /\ prev = 0 /\ req = 0
  /\ orders = {} /\ completed = 0 /\ booked = 0
  /\ spc = "running"
  /\ dpc = "idle" /\ dreq = 0
  /\ lpc = "off" /\ lord = 0
  /\ wpc = [r \in Requests |-> "none"] /\ wreq = [r \in Requests |-> 0]
  /\ failed = FALSE /\ backwards = FALSE /\ missed = FALSE
  /\ last = 0
  /\ target = [r \in Requests |-> 0] /\ amount = [r \in Requests |-> 0]
  /\ status = [r \in Requests |-> "unsent"]
  /\ cancel = [r \in Requests |-> "none"] /\ get = [r \in Requests |-> "none"]
  /\ exch = [r \in Requests |-> Absent]
  /\ answer = exch /\ reported = exch /\ stored = exch

Rank(st) == CASE st = "absent" -> 0 [] st = "placing" -> 1 [] st = "active" -> 2
              [] OTHER -> 3

\* UpsertUserOrder: whoever comes last wins.
Upsert(o, snap) ==
  /\ stored' = [stored EXCEPT ![o] = snap]
  /\ backwards' = (backwards \/ Rank(snap.st) < Rank(stored[o].st)
                             \/ snap.got < stored[o].got)

-----------------------------------------------------------------------------
(* Steps the goroutines share.  An operator named Slip... holds a mistake  *)
(* that a property notices when it replaces the definition after it.       *)

\* What the orders of S got together, as f has it.
Total(f, S) == MapThenSumSet(LAMBDA o : f[o].got, S)

\* GetSessTotalBoughtCost, as the storage has it; and what was really bought.
BoughtCost == Total(stored, orders)
Bought     == Total(exch, Requests)

\* Only the active order is counted.
SlipRemaining ==
  IF active = 0 \/ stored[active].got > BuyTotal THEN BuyTotal
  ELSE BuyTotal - stored[active].got

\* calculateBuyOrderVolume.
Remaining == IF BoughtCost > BuyTotal THEN 0 ELSE BuyTotal - BoughtCost

\* wsSvc.CreateOrder (alters = 0), wsSvc.AlterOrder: the request is on its way
\* but its number is not in the session yet.
SendOrder(alters) ==
  /\ last < MaxRequests
  /\ last' = last + 1
  /\ target' = [target EXCEPT ![last + 1] = alters]
  /\ amount' = [amount EXCEPT ![last + 1] = Remaining]
  /\ status' = [status EXCEPT ![last + 1] = "sent"]
  /\ missed' = (missed \/ \E o \in Requests : stored[o].got # exch[o].got)

\* setBuyOrderExecutedFlags once the order is not active: the locked update
\* SetBuyOrderExecutedFlags, then AddBoughtCost of the session's orders.
ExecutedFlags(o) ==
  /\ completed' = completed + 1
  /\ prev' = 0 /\ active' = o /\ req' = 0
  /\ isDone' = TRUE
  /\ booked' = booked + BoughtCost
  /\ UNCHANGED <<need, orders>>

\* The order is not in the market any more: another one may be created.
Reopen(o) ==
  /\ prev' = o /\ active' = 0 /\ need' = TRUE
  /\ UNCHANGED <<req, orders, completed, isDone, booked>>

-----------------------------------------------------------------------------
(* The decider: woken by book events alone.                                *)

\* isBuyOrderCreationAvailable; that spread and volume suit is left open.
BuyAvailable(force) == need \/ force

\* createBuyOrder; without funds the flag is raised again.
DeciderSend ==
  /\ dpc = "idle" /\ ~isDone /\ BuyAvailable(FALSE)
  /\ need' = FALSE
  /\ SendOrder(0)
  /\ dpc' = "sent" /\ dreq' = last + 1
  /\ UNCHANGED <<active, prev, req, orders, completed, isDone, booked, spc, listener,
                 watchers, failed, calls, ledger>>

DeciderStore ==
  /\ dpc = "sent"
  /\ req' = dreq
  /\ dpc' = "idle" /\ dreq' = 0
  /\ UNCHANGED <<need, active, prev, orders, completed, isDone, booked, spc,
                 listener, watchers, failed, wire, calls, ledger, missed>>

\* The session is done, the context is, or a request could not be sent: unlike
\* in the spread strategy, CreateSession swallows that error.
DeciderStop ==
  /\ dpc = "idle"
  /\ \/ (isDone \/ failed) /\ UNCHANGED need
     \/ ~isDone /\ need /\ need' = FALSE
  /\ dpc' = "stopped"
  /\ UNCHANGED <<active, prev, req, orders, completed, isDone, booked, spc, dreq,
                 listener, watchers, failed, wire, calls, ledger, missed>>

-----------------------------------------------------------------------------
(* The listener.                                                           *)

ListenerSubscribed ==
  /\ lpc = "off"
  /\ lpc' = "idle"
  /\ UNCHANGED <<session, spc, decider, lord, watchers, failed, wire, calls, ledger,
                 missed>>

\* Published before the subscription is registered, or before the request's
\* number is in the session.
ListenerDiscard(r) ==
  /\ status[r] \in Answers
  /\ lpc = "off" \/ (lpc = "idle" /\ r # req)
  /\ status' = [status EXCEPT ![r] = "discarded"]
  /\ UNCHANGED <<session, spc, decider, listener, watchers, failed, last, target,
                 amount, calls, ledger, missed>>

Takes(r, a) ==
  /\ lpc = "idle" /\ r = req /\ status[r] = a
  /\ status' = [status EXCEPT ![r] = "used"]
  /\ UNCHANGED <<last, target, amount>>

ListenerAdopt(r) ==
  /\ Takes(r, "created")
  /\ active' = r /\ req' = 0 /\ orders' = orders \cup {r}
  /\ wpc' = [wpc EXCEPT ![r] = "watch"]
  /\ UNCHANGED <<need, prev, completed, isDone, booked, spc, decider, listener,
                 wreq, failed, calls, ledger, missed>>

\* The previous order is taken for executed as it is.
SlipTooSmallNoCancel(r) ==
  /\ Takes(r, "tooSmall")
  /\ Stored(prev)
  /\ ExecutedFlags(prev)
  /\ UNCHANGED <<spc, decider, listener, watchers, failed, calls, ledger, missed>>

\* "probably prev order executed on max available amount": a previous order
\* that looks active is cancelled first.
ListenerTooSmall(r) ==
  /\ Takes(r, "tooSmall")
  /\ Stored(prev)
  /\ IF stored[prev].st = "active"
       THEN /\ lpc' = "cancelling" /\ lord' = prev
            /\ cancel' = [cancel EXCEPT ![prev] = "sent"]
            /\ UNCHANGED session
       ELSE /\ ExecutedFlags(prev)
            /\ UNCHANGED <<listener, cancel>>
  /\ UNCHANGED <<spc, decider, watchers, failed, get, answer, ledger, missed>>

\* The listener returns from the cancellation without the flags.
SlipCancelledOnly ==
  /\ lpc = "cancelling" /\ cancel[lord] = "ok"
  /\ cancel' = [cancel EXCEPT ![lord] = "none"]
  /\ lpc' = "idle" /\ lord' = 0
  /\ UNCHANGED <<session, spc, decider, watchers, failed, wire, get, answer, ledger,
                 missed>>

\* CancelOrder is back with success: then the flags are set.
ListenerCancelled ==
  /\ lpc = "cancelling" /\ cancel[lord] = "ok"
  /\ cancel' = [cancel EXCEPT ![lord] = "none"]
  /\ lpc' = "idle" /\ lord' = 0
  /\ ExecutedFlags(lord)
  /\ UNCHANGED <<spc, decider, watchers, failed, wire, get, answer, ledger, missed>>

\* Or with an error, ErrCantCancelDoneOrder among them, which ends the bot.
ListenerCancelFails ==
  /\ lpc = "cancelling" /\ cancel[lord] \in {"done", "error"}
  /\ cancel' = [cancel EXCEPT ![lord] = "none"]
  /\ lpc' = "stopped" /\ lord' = 0 /\ failed' = TRUE
  /\ UNCHANGED <<session, spc, decider, watchers, wire, get, answer, ledger, missed>>

ListenerDoneCode(r) ==
  /\ Takes(r, "doneCode")
  /\ Stored(prev)
  /\ \/ /\ stored[prev].st = "cancelled"
        /\ req' = 0 /\ need' = TRUE
        /\ UNCHANGED <<active, prev, orders, completed, isDone, booked>>
     \/ stored[prev].st = "done" /\ ExecutedFlags(prev)
  /\ UNCHANGED <<spc, decider, listener, watchers, failed, calls, ledger, missed>>

\* Any other error ends the listener and the bot (a rejected previous order
\* is stored as "cancelled" here).
ListenerFails(r) ==
  /\ \/ Takes(r, "error")
     \/ prev = 0 /\ (Takes(r, "tooSmall") \/ Takes(r, "doneCode"))
     \/ Takes(r, "doneCode") /\ Stored(prev) /\ stored[prev].st # "done"
  /\ lpc' = "stopped" /\ failed' = TRUE
  /\ UNCHANGED <<session, spc, decider, lord, watchers, calls, ledger, missed>>

ListenerStop ==
  /\ lpc = "idle" /\ ctxDone
  /\ lpc' = "stopped"
  /\ UNCHANGED <<session, spc, decider, lord, watchers, failed, wire, calls, ledger,
                 missed>>

-----------------------------------------------------------------------------
(* The watcher of order o.                                                 *)

\* checkOrderState manages an order that the storage has as active.
Managed(o) == wpc[o] = "watch" /\ stored[o].st = "active"

\* isMoveBuyOrderRequired: left open, a matter of the neighbouring prices.
MoveRequired(o) == Managed(o)

WatchAlter(o) ==
  /\ MoveRequired(o) /\ BuyAvailable(TRUE)
  /\ SendOrder(active)
  /\ wpc' = [wpc EXCEPT ![o] = "altered"]
  /\ wreq' = [wreq EXCEPT ![o] = last + 1]
  /\ UNCHANGED <<session, spc, decider, listener, failed, calls, ledger>>

WatchStore(o) ==
  /\ wpc[o] = "altered"
  /\ prev' = o /\ req' = wreq[o]
  /\ wpc' = [wpc EXCEPT ![o] = "stopped"]
  /\ UNCHANGED <<need, active, orders, completed, isDone, booked, spc, decider,
                 listener, wreq, failed, wire, calls, ledger, missed>>

\* Too small a spread, or a move that is not worth it.
WatchCancel(o) ==
  /\ Managed(o)
  /\ wpc' = [wpc EXCEPT ![o] = "cancelling"]
  /\ cancel' = [cancel EXCEPT ![o] = "sent"]
  /\ UNCHANGED <<session, spc, decider, listener, wreq, failed, wire, get, answer, ledger,
                 missed>>

\* The answer to the cancel request is not waited for.
SlipCancelledEarly(o) ==
  /\ wpc[o] = "cancelling" /\ cancel[o] \in {"sent", "ok"}
  /\ Reopen(o)
  /\ wpc' = [wpc EXCEPT ![o] = "stopped"]
  /\ UNCHANGED <<spc, decider, listener, wreq, failed, wire, calls, ledger, missed>>

WatchCancelled(o) ==
  /\ wpc[o] = "cancelling" /\ cancel[o] = "ok"
  /\ cancel' = [cancel EXCEPT ![o] = "none"]
  /\ Reopen(o)
  /\ wpc' = [wpc EXCEPT ![o] = "stopped"]
  /\ UNCHANGED <<spc, decider, listener, wreq, failed, wire, get, answer, ledger, missed>>

\* ErrCantCancelDoneOrder: the storage will show it.
WatchCancelDone(o) ==
  /\ wpc[o] = "cancelling" /\ cancel[o] = "done"
  /\ cancel' = [cancel EXCEPT ![o] = "none"]
  /\ wpc' = [wpc EXCEPT ![o] = "watch"]
  /\ UNCHANGED <<session, spc, decider, listener, wreq, failed, wire, get, answer, ledger,
                 missed>>

WatchFinal(o) ==
  /\ wpc[o] = "watch"
  /\ \/ stored[o].st = "done" /\ ExecutedFlags(o)
     \/ stored[o].st = "cancelled" /\ Reopen(o)
  /\ wpc' = [wpc EXCEPT ![o] = "stopped"]
  /\ UNCHANGED <<spc, decider, listener, wreq, failed, wire, calls, ledger, missed>>

\* updateOrderStateByID, when accounting has not brought the order in time.
WatchGet(o) ==
  /\ wpc[o] = "watch" /\ stored[o].st = "absent"
  /\ wpc' = [wpc EXCEPT ![o] = "getting"]
  /\ get' = [get EXCEPT ![o] = "sent"]
  /\ UNCHANGED <<session, spc, decider, listener, wreq, failed, wire, cancel, answer,
                 ledger,
                 missed>>

WatchGot(o) ==
  /\ wpc[o] = "getting" /\ get[o] = "answered"
  /\ Upsert(o, answer[o])
  /\ answer' = [answer EXCEPT ![o] = Absent]
  /\ get' = [get EXCEPT ![o] = "none"]
  /\ wpc' = [wpc EXCEPT ![o] = "watch"]
  /\ UNCHANGED <<session, spc, decider, listener, wreq, failed, wire, cancel, exch,
                 reported, missed>>

WatchFails(o) ==
  /\ \/ wpc[o] = "watch" /\ stored[o].st \in {"absent", "active"}
     \/ wpc[o] = "cancelling" /\ cancel[o] = "error"
     \/ wpc[o] = "getting"
  /\ wpc' = [wpc EXCEPT ![o] = "stopped"]
  /\ failed' = TRUE
  /\ UNCHANGED <<session, spc, decider, listener, wreq, wire, calls, ledger, missed>>

WatchStop(o) ==
  /\ wpc[o] \in {"watch", "getting"} /\ ctxDone
  /\ wpc' = [wpc EXCEPT ![o] = "stopped"]
  /\ UNCHANGED <<session, spc, decider, listener, wreq, failed, wire, calls, ledger,
                 missed>>

-----------------------------------------------------------------------------
(* Start's clean-up, the exchange, and accounting.                         *)

\* cleanUpActiveOrders sends a cancel request for the active order of every
\* unfinished session of SpreadSessions: in this bot there is none.
CleanUp ==
  /\ spc = "running" /\ failed
  /\ spc' = "cleaned"
  /\ UNCHANGED <<session, decider, listener, watchers, failed, wire, calls, ledger,
                 missed>>

Interrupted ==
  /\ ~failed
  /\ failed' = TRUE
  /\ UNCHANGED <<session, spc, decider, listener, watchers, wire, calls, ledger,
                 missed>>

\* A create request, or an alter request for a live order, makes an order; the
\* altered one is cancelled by the same step.
ExchangeCreates(r) ==
  /\ status[r] = "sent"
  /\ amount[r] > 0
  /\ target[r] # 0 => exch[target[r]].st \in Live
  /\ status' = [status EXCEPT ![r] = "created"]
  /\ \E st \in Live :
       exch' = [o \in Requests |-> IF o = r THEN [st |-> st, got |-> 0]
                                   ELSE IF o = target[r] THEN [exch[o] EXCEPT !.st = "cancelled"]
                                   ELSE exch[o]]
  /\ UNCHANGED <<session, spc, decider, listener, watchers, failed, last, target,
                 amount, calls, reported, stored, backwards, missed>>

ExchangeRefuses(r) ==
  /\ status[r] = "sent"
  /\ \E a \in {"tooSmall", "doneCode", "error"} :
       /\ a = "doneCode" => target[r] # 0 /\ exch[target[r]].st \in Final
       /\ status' = [status EXCEPT ![r] = a]
  /\ UNCHANGED <<session, spc, decider, listener, watchers, failed, last, target,
                 amount, calls, ledger, missed>>

\* An order is placed, rejected or cancelled, or filled by one unit; a fill
\* after an alter request was sized is one that request does not count.
ExchangeMoves(o) ==
  /\ \/ /\ exch[o].st = "placing"
        /\ exch' = [exch EXCEPT ![o].st = "active"]
        /\ UNCHANGED missed
     \/ /\ exch[o].st \in Live
        /\ exch' = [exch EXCEPT ![o].st = "cancelled"]
        /\ UNCHANGED missed
     \/ /\ exch[o].st = "active"
        /\ exch' = [exch EXCEPT ![o] = [st |-> IF @.got + 1 = amount[o] THEN "done" ELSE "active",
                                        got |-> @.got + 1]]
        /\ missed' = (missed \/ \E r \in Requests : target[r] = o /\ status[r] = "sent")
  /\ UNCHANGED <<session, spc, decider, listener, watchers, failed, wire, calls,
                 reported, stored, backwards>>

ExchangeCancels(o) ==
  /\ cancel[o] = "sent"
  /\ \/ /\ exch[o].st \in Live
        /\ exch' = [exch EXCEPT ![o].st = "cancelled"]
        /\ cancel' = [cancel EXCEPT ![o] = "ok"]
     \/ /\ cancel' = [cancel EXCEPT ![o] = CASE exch[o].st = "cancelled" -> "ok"
                                             [] exch[o].st = "done" -> "done"
                                             [] OTHER -> "error"]
        /\ UNCHANGED exch
  /\ UNCHANGED <<session, spc, decider, listener, watchers, failed, wire, get, answer,
                 reported,
                 stored, backwards, missed>>

ExchangeGets(o) ==
  /\ get[o] = "sent"
  /\ get' = [get EXCEPT ![o] = "answered"]
  /\ answer' = [answer EXCEPT ![o] = exch[o]]
  /\ UNCHANGED <<session, spc, decider, listener, watchers, failed, wire, cancel,
                 ledger, missed>>

\* Accounting stores a later snapshot of the order than it stored before.
Accounting(o) ==
  /\ reported[o] # exch[o]
  /\ \E snap \in {exch[o]} \cup [st : Live, got : Volumes] :
       /\ snap # reported[o]
       /\ Rank(reported[o].st) <= Rank(snap.st) /\ Rank(snap.st) <= Rank(exch[o].st)
       /\ reported[o].got <= snap.got /\ snap.got <= exch[o].got
       /\ snap.st = "placing" => snap.got = 0
       /\ snap.st \in Live => snap.got < amount[o]
       /\ reported' = [reported EXCEPT ![o] = snap]
       /\ Upsert(o, snap)
  /\ UNCHANGED <<session, spc, decider, listener, watchers, failed, wire, calls, exch,
                 missed>>

-----------------------------------------------------------------------------
Next ==
  \/ DeciderSend \/ DeciderStore \/ DeciderStop \/ CleanUp \/ Interrupted
  \/ ListenerSubscribed \/ ListenerCancelled \/ ListenerCancelFails \/ ListenerStop
  \/ \E r \in Requests :
       \/ ListenerDiscard(r) \/ ListenerAdopt(r) \/ ListenerTooSmall(r)
       \/ ListenerDoneCode(r) \/ ListenerFails(r)
       \/ WatchAlter(r) \/ WatchStore(r) \/ WatchCancel(r) \/ WatchCancelled(r)
       \/ WatchCancelDone(r) \/ WatchFinal(r) \/ WatchGet(r) \/ WatchGot(r)
       \/ WatchFails(r) \/ WatchStop(r)
       \/ ExchangeCreates(r) \/ ExchangeRefuses(r) \/ ExchangeMoves(r)
       \/ ExchangeCancels(r) \/ ExchangeGets(r) \/ Accounting(r)

Spec == Init /\ [][Next]_vars

-----------------------------------------------------------------------------
(* Safety.                                                                 *)

LiveOrders  == {o \in Requests : exch[o].st \in Live}
Open        == {r \in Requests : status[r] \in {"sent"} \cup Answers}
Watching(o) == wpc[o] \in {"watch", "altered", "cancelling", "getting"}

\* Decider, listener and watchers create, alter and cancel; between them they
\* never have two orders in the market.
OneLiveOrder == Cardinality(LiveOrders) <= 1

\* The decider is told to create an order only when none is in the market, on
\* its way there, or being watched.
NeedMeansIdle ==
  need /\ ~isDone => LiveOrders = {} /\ Open = {} /\ \A o \in Requests : ~Watching(o)

\* The session buys for no more than BuyTotal, over all its orders, partly
\* filled ones included - unless an order was sized from a storage that lagged
\* behind the exchange, or its predecessor was filled while it was altered.
SpendsNoMore == Bought <= BuyTotal \/ missed

\* AddBoughtCost books the session's cost once, and never more than was spent.
BookedOnce == completed <= 1 /\ booked <= Bought

\* A session that ended by itself leaves nothing in the market for the next
\* one, which Start creates at the next tick, to trade against.
EndedIsFlat ==
  (isDone \/ dpc = "stopped") /\ ~failed /\ ~backwards => LiveOrders = {} /\ Open = {}

\* A watcher watches the active order: moveBuyOrder alters that one.
WatcherHasActive == \A o \in Requests : Watching(o) => active = o

\* The stored orders the code dereferences without looking are there: those of
\* the totals, and the previous order of an expected error.
NoNilOrder ==
  /\ need => \A o \in orders : Stored(o)
  /\ \A o \in Requests : Watching(o) => \A p \in orders \ {o} : Stored(p)
  /\ \A r \in Requests :
       status[r] \in {"tooSmall", "doneCode"} /\ r = req /\ prev # 0 =>
         Stored(prev) /\ \A p \in orders : Stored(p)

\* A session that has neither ended nor failed has something left to carry it
\* on, unless the answer to its request came before the listener could know
\* the request's number.
Lost == \E r \in Requests : status[r] = "discarded"

OnlyOneTrap ==
  \/ ctxDone \/ Lost \/ isDone
  \/ need \/ req \in Open \/ dpc = "sent" \/ lpc = "cancelling"
  \/ \E o \in Requests : Watching(o)

\* Buying by moving orders is safe: one order in the market at a time, a new one
\* only when there is none, the cost booked once, no order dereferenced that is
\* not stored, and no way into a standstill but the one known.
SessionSafe ==
  /\ TypeOK /\ OneLiveOrder /\ NeedMeansIdle /\ BookedOnce /\ WatcherHasActive
  /\ NoNilOrder /\ OnlyOneTrap

-----------------------------------------------------------------------------
(* Liveness.  Goroutines that can run do; book events, which never end,    *)
(* wake decider and watchers; the exchange answers and accounting reports. *)
(* No order has to be filled, moved or cancelled and no call has to fail.  *)
Fairness ==
  /\ WF_vars(DeciderStore) /\ WF_vars((isDone \/ failed) /\ DeciderStop)
  /\ WF_vars(ListenerSubscribed) /\ WF_vars(ListenerCancelled)
  /\ WF_vars(ListenerCancelFails) /\ WF_vars(ListenerStop)
  /\ \A r \in Requests :
       /\ WF_vars(ListenerDiscard(r) \/ ListenerAdopt(r) \/ ListenerTooSmall(r)
                    \/ ListenerDoneCode(r) \/ ListenerFails(r))
       /\ WF_vars(ExchangeCreates(r) \/ ExchangeRefuses(r))
       /\ WF_vars(ExchangeCancels(r)) /\ WF_vars(ExchangeGets(r))
       /\ WF_vars(Accounting(r))
       /\ WF_vars(WatchStore(r)) /\ WF_vars(WatchCancelled(r))
       /\ WF_vars(WatchCancelDone(r)) /\ WF_vars(WatchFinal(r))
       /\ WF_vars(WatchGot(r))
       /\ WF_vars(wpc[r] = "cancelling" /\ WatchFails(r)) /\ WF_vars(WatchStop(r))

FairSpec == Spec /\ Fairness

\* A replacement refused as too small ends the session as executed, also when
\* its predecessor has to be cancelled first (the spread session gets stuck
\* there, SpreadSession!RefusedBuyAllowsSell).
RefusedBuyFinishes == (lpc = "cancelling") ~> (isDone \/ failed)

\* The watcher, of which there is one (WatcherHasActive), does not miss that its
\* order is gone from the market, even when a refused cancellation told it first.
\* Once the bot shuts down nobody publishes answers any more.
WatchesGone == \E o \in Requests : Watching(o) /\ exch[o].st \in Final

FinalOrderNoticed == WatchesGone ~> (~WatchesGone \/ backwards \/ failed)

\* The session gets on after a refused replacement and after the end of an order.
SessionProgress == RefusedBuyFinishes /\ FinalOrderNoticed

(* What the code says of itself and does not keep.                         *)

\* "cleanup active orders finished" (strategy/buy.go:135): when Start has
\* cleaned up, the active order of an unfinished session, known to be in the
\* market, has its cancel request.
CleanUpCancels ==
  [][spc' # spc /\ ~isDone /\ Stored(active) /\ stored[active].st \in Live
       => cancel'[active] # "none"]_vars
=============================================================================
