------------------------------ MODULE Arbitrage ------------------------------
(***************************************************************************)
(* The arbitrage strategy (strategy/arbitrage.go): book events of its      *)
(* pairs are collected in a bounded channel; Start takes them one by one   *)
(* and, when the prices allow it, runs a chain of three orders: buy base   *)
(* for USDT, sell base for quoted, sell quoted for USDT.  Start runs the   *)
(* first two steps itself, the third runs in a goroutine of its own and    *)
(* may overlap the chains after it.                                        *)
(*                                                                         *)
(* A step creates its order, waits for the answer, subscribes to the       *)
(* accounting events and watches the order until it is done, gone or late, *)
(* and cancels it in the latter two cases.  Answers may get lost: what is  *)
(* published before the broker has served a subscription, or while the     *)
(* subscriber's channel is full, does not reach it (module Broker).  Only  *)
(* an accounting event makes the watcher look at the storage.  Prices only *)
(* decide whether a chain starts, which is left open; volumes are counted  *)
(* in fills.                                                               *)
(***************************************************************************)
EXTENDS Naturals, FiniteSets

CONSTANTS Pairs,        \* whose book events are collected
          ChSize,       \* capacity of the channel (chSize)
          Volume,       \* what the first step buys
          MaxChains,    \* bounds of the model: chains started,
          MaxNoise      \* and accounting events of other orders

ASSUME ArbitrageAssumption ==
  /\ ChSize \in Nat \ {0} /\ Volume \in Nat \ {0}
  /\ MaxChains \in Nat /\ MaxNoise \in Nat

Chains == 1..MaxChains
Steps  == 1..3
Orders == Chains \X Steps

\* An order is known to the exchange or to the storage in one of these forms.
OrderStates == {"absent", "live", "done", "cancelled"}
Snapshots   == [st : OrderStates, got : 0..Volume]
Absent      == [st |-> "absent", got |-> 0]

VARIABLES
  ch,        \* events in the channel
  lpc,       \* Pairs -> listenPairEvents: listen, sending, stopped
  spc,       \* Start: idle, busy (with steps 1 and 2 of a chain), stopped
  failed,    \* the context is done: an error of a goroutine or a signal
  last,      \* number of the newest chain
  step,      \* Chains -> the step it is at
  at,        \* Chains -> where its step is
  known,     \* Chains -> the step knows its order's id (it is 0 if not)
  woken,     \* Chains -> an accounting event waits for its watcher
  result,    \* Chains -> how it ended
  amount,    \* Orders -> volume asked for
  wire,      \* Orders -> the create request
  cancel,    \* Orders -> the cancel request
  exch,      \* Orders -> the order at the exchange
  stored,    \* Orders -> the order in storage.userOrders
  noise      \* accounting events of other orders so far

events   == <<ch, lpc>>
chain    == <<step, at, known, woken, result>>
exchange == <<amount, wire, cancel, exch>>
vars     == <<ch, lpc, spc, failed, last, step, at, known, woken, result, amount,
              wire, cancel, exch, stored, noise>>

Order(k) == <<k, step[k]>>

TypeOK ==
  /\ ch \in 0..ChSize
  /\ lpc \in [Pairs -> {"listen", "sending", "stopped"}]
  /\ spc \in {"idle", "busy", "stopped"} /\ failed \in BOOLEAN
  /\ last \in 0..MaxChains /\ noise \in 0..MaxNoise
  /\ step \in [Chains -> Steps]
  /\ at \in [Chains -> {"off", "ready", "sent", "answered", "watch", "cancelling",
                        "ended"}]
  /\ known \in [Chains -> BOOLEAN] /\ woken \in [Chains -> BOOLEAN]
  /\ result \in [Chains -> {"none", "success", "notCompleted", "error"}]
  /\ amount \in [Orders -> 0..Volume]
  /\ wire \in [Orders -> {"none", "sent", "created", "refused", "used", "lost"}]
  /\ cancel \in [Orders -> {"none", "sent", "ok", "done", "error", "lost"}]
  /\ exch \in [Orders -> Snapshots] /\ stored \in [Orders -> Snapshots]

Init ==
  /\ ch = 0 /\ lpc = [p \in Pairs |-> "listen"]
  /\ spc = "idle" /\ failed = FALSE /\ last = 0 /\ noise = 0
  /\ step = [k \in Chains |-> 1] /\ at = [k \in Chains |-> "off"]
  /\ known = [k \in Chains |-> FALSE] /\ woken = [k \in Chains |-> FALSE]
  /\ result = [k \in Chains |-> "none"]
  /\ amount = [o \in Orders |-> 0]
  /\ wire = [o \in Orders |-> "none"] /\ cancel = [o \in Orders |-> "none"]
  /\ exch = [o \in Orders |-> Absent] /\ stored = exch

-----------------------------------------------------------------------------
(* Events of the pairs' books.  Slip... operators are mistakes that the    *)
(* checks put in the place of the definition after them.                   *)

\* listenPairEvents takes a book event ...
PairEvent(p) ==
  /\ lpc[p] = "listen"
  /\ lpc' = [lpc EXCEPT ![p] = "sending"]
  /\ UNCHANGED <<ch, spc, failed, last, chain, exchange, stored, noise>>

\* ... and hands it on with a plain send, which waits while the channel is
\* full, whatever the context says.
PairForward(p) ==
  /\ lpc[p] = "sending"
  /\ ch < ChSize
  /\ ch' = ch + 1
  /\ lpc' = [lpc EXCEPT ![p] = "listen"]
  /\ UNCHANGED <<spc, failed, last, chain, exchange, stored, noise>>

\* The listener ends only when there is nothing left in the channel.
SlipPairStop(p) ==
  /\ lpc[p] = "listen" /\ failed /\ ch = 0
  /\ lpc' = [lpc EXCEPT ![p] = "stopped"]
  /\ UNCHANGED <<ch, spc, failed, last, chain, exchange, stored, noise>>

PairStop(p) ==
  /\ lpc[p] = "listen" /\ failed
  /\ lpc' = [lpc EXCEPT ![p] = "stopped"]
  /\ UNCHANGED <<ch, spc, failed, last, chain, exchange, stored, noise>>

\* Start takes an event and checks: a book is not complete or the spread too
\* small ...
CheckNothing ==
  /\ spc = "idle" /\ ch > 0
  /\ ch' = ch - 1
  /\ UNCHANGED <<lpc, spc, failed, last, chain, exchange, stored, noise>>

\* The check does not wait for its chain.
SlipCheckConcurrent ==
  /\ spc = "idle" /\ ch > 0 /\ last < MaxChains
  /\ ch' = ch - 1
  /\ last' = last + 1
  /\ at' = [at EXCEPT ![last + 1] = "ready"]
  /\ amount' = [amount EXCEPT ![<<last + 1, 1>>] = Volume]
  /\ UNCHANGED <<lpc, spc, failed, step, known, woken, result, wire, cancel, exch,
                 stored, noise>>

\* ... or a chain is started.
CheckStarts ==
  /\ spc = "idle" /\ ch > 0 /\ last < MaxChains
  /\ ch' = ch - 1
  /\ spc' = "busy"
  /\ last' = last + 1
  /\ at' = [at EXCEPT ![last + 1] = "ready"]
  /\ amount' = [amount EXCEPT ![<<last + 1, 1>>] = Volume]
  /\ UNCHANGED <<lpc, failed, step, known, woken, result, wire, cancel, exch, stored,
                 noise>>

StartStop ==
  /\ spc = "idle" /\ failed
  /\ spc' = "stopped"
  /\ UNCHANGED <<events, failed, last, chain, exchange, stored, noise>>

-----------------------------------------------------------------------------
(* One step of chain k: createAndWaitExecOrder and what its caller does.   *)

\* Steps 1 and 2 are Start's own: an error ends it and with it the whole bot,
\* anything else lets it go on.  What step 3 ends with is only its own.
End(k, res) ==
  /\ at' = [at EXCEPT ![k] = "ended"]
  /\ result' = [result EXCEPT ![k] = res]
  /\ IF step[k] = 3 THEN UNCHANGED <<spc, failed>>
     ELSE IF res = "error" THEN spc' = "stopped" /\ failed' = TRUE
     ELSE spc' = "idle" /\ UNCHANGED failed

\* sendCreateOrderRequest asks the broker for a subscription, which is served at
\* the broker's own time, and sends.
Send(k) ==
  /\ at[k] = "ready"
  /\ wire' = [wire EXCEPT ![Order(k)] = "sent"]
  /\ at' = [at EXCEPT ![k] = "sent"]
  /\ known' = [known EXCEPT ![k] = FALSE]
  /\ UNCHANGED <<events, spc, failed, last, step, woken, result, amount, cancel, exch,
                 stored, noise>>

\* The answer comes before the subscription is served, or finds the channel
\* full: nobody tells the call, which has no time-out.
AnswerLost(k) ==
  /\ at[k] = "sent"
  /\ wire[Order(k)] \in {"created", "refused"}
  /\ wire' = [wire EXCEPT ![Order(k)] = "lost"]
  /\ UNCHANGED <<events, spc, failed, last, chain, amount, cancel, exch, stored, noise>>

Answered(k) ==
  /\ at[k] = "sent"
  /\ wire[Order(k)] \in {"created", "refused"}
  /\ wire' = [wire EXCEPT ![Order(k)] = "used"]
  /\ IF wire[Order(k)] = "refused"
       THEN End(k, "error") /\ UNCHANGED known
       ELSE /\ known' = [known EXCEPT ![k] = TRUE]
            /\ at' = [at EXCEPT ![k] = "answered"]
            /\ UNCHANGED <<spc, failed, result>>
  /\ UNCHANGED <<events, last, step, woken, amount, cancel, exch, stored, noise>>

\* The context is done: the call returns order id 0 and no error.
AnswerGivenUp(k) ==
  /\ at[k] = "sent" /\ failed
  /\ at' = [at EXCEPT ![k] = "answered"]
  /\ UNCHANGED <<events, spc, failed, last, step, known, woken, result, exchange, stored,
                 noise>>

\* watchOrder subscribes to the accounting events: what was stored before does
\* not wake it.
Subscribe(k) ==
  /\ at[k] = "answered"
  /\ at' = [at EXCEPT ![k] = "watch"]
  /\ woken' = [woken EXCEPT ![k] = FALSE]
  /\ UNCHANGED <<events, spc, failed, last, step, known, result, exchange, stored, noise>>

\* The order is stored as done: the next step sells what it brought.  After
\* the second one Start is free again.
Completes(k) ==
  /\ at[k] = "watch" /\ woken[k] /\ known[k]
  /\ stored[Order(k)].st = "done"
  /\ woken' = [woken EXCEPT ![k] = FALSE]
  /\ IF step[k] = 3 THEN End(k, "success") /\ UNCHANGED <<step, amount>>
     ELSE /\ step' = [step EXCEPT ![k] = @ + 1]
          /\ amount' = [amount EXCEPT ![<<k, step[k] + 1>>] = stored[Order(k)].got]
          /\ at' = [at EXCEPT ![k] = "ready"]
          /\ spc' = IF step[k] = 2 THEN "idle" ELSE spc
          /\ UNCHANGED <<failed, result>>
  /\ UNCHANGED <<events, last, known, wire, cancel, exch, stored, noise>>

\* Still absent or live: go on.  Ten seconds without a trace are an error.
StillWaits(k) ==
  /\ at[k] = "watch" /\ woken[k]
  /\ ~known[k] \/ stored[Order(k)].st \in {"absent", "live"}
  /\ woken' = [woken EXCEPT ![k] = FALSE]
  /\ \/ UNCHANGED <<at, result, spc, failed>>
     \/ (~known[k] \/ stored[Order(k)].st = "absent") /\ End(k, "error")
  /\ UNCHANGED <<events, last, step, known, exchange, stored, noise>>

\* The order is left as it is.
SlipGivesUp(k) ==
  /\ at[k] = "watch"
  /\ End(k, "notCompleted")
  /\ UNCHANGED <<events, last, step, known, woken, exchange, stored, noise>>

\* Cancelled or rejected, the context is done, or the timer fires, which it
\* may at any time: ErrOrderNotCompleted makes the caller cancel the order, by
\* an id that may be 0.
GivesUp(k) ==
  /\ at[k] = "watch"
  /\ at' = [at EXCEPT ![k] = "cancelling"]
  /\ cancel' = IF known[k] THEN [cancel EXCEPT ![Order(k)] = "sent"] ELSE cancel
  /\ UNCHANGED <<events, spc, failed, last, step, known, woken, result, amount, wire,
                 exch, stored, noise>>

\* cancelOrder: that the order is done is no error, and no reason to go on.
CancelBack(k) ==
  /\ at[k] = "cancelling"
  /\ \/ known[k] /\ cancel[Order(k)] \in {"ok", "done"} /\ End(k, "notCompleted")
     \/ (known[k] => cancel[Order(k)] = "error") /\ End(k, "error")
  /\ UNCHANGED <<events, last, step, known, woken, exchange, stored, noise>>

\* The same loss.  CancelOrder's time-out starts anew with every message and then
\* panics (module OrderCalls), and it has no context: it does not return.
CancelLost(k) ==
  /\ at[k] = "cancelling" /\ known[k]
  /\ cancel[Order(k)] \in {"ok", "done", "error"}
  /\ cancel' = [cancel EXCEPT ![Order(k)] = "lost"]
  /\ UNCHANGED <<events, spc, failed, last, chain, amount, wire, exch, stored, noise>>

-----------------------------------------------------------------------------
(* The exchange, accounting, and a signal.                                 *)

Creates(o) ==
  /\ wire[o] = "sent"
  /\ \/ /\ amount[o] > 0
        /\ wire' = [wire EXCEPT ![o] = "created"]
        /\ exch' = [exch EXCEPT ![o].st = "live"]
     \/ /\ wire' = [wire EXCEPT ![o] = "refused"]
        /\ UNCHANGED exch
  /\ UNCHANGED <<events, spc, failed, last, chain, amount, cancel, stored, noise>>

\* A fill, or the exchange cancels or rejects the order.
Moves(o) ==
  /\ exch[o].st = "live"
  /\ \/ exch' = [exch EXCEPT ![o] = [st  |-> IF @.got + 1 = amount[o] THEN "done" ELSE "live",
                                     got |-> @.got + 1]]
     \/ exch' = [exch EXCEPT ![o].st = "cancelled"]
  /\ UNCHANGED <<events, spc, failed, last, chain, amount, wire, cancel, stored, noise>>

Cancels(o) ==
  /\ cancel[o] = "sent"
  /\ \/ /\ exch[o].st = "live"
        /\ exch' = [exch EXCEPT ![o].st = "cancelled"]
        /\ cancel' = [cancel EXCEPT ![o] = "ok"]
     \/ /\ cancel' = [cancel EXCEPT ![o] = CASE exch[o].st = "cancelled" -> "ok"
                                             [] exch[o].st = "done" -> "done"
                                             [] OTHER -> "error"]
        /\ UNCHANGED exch
  /\ UNCHANGED <<events, spc, failed, last, chain, amount, wire, stored, noise>>

\* The accounting subscriber stores the order and tells the watchers, those whose
\* subscription is served by now and whose channel has room; or the event is about
\* another order of the account.
Wake ==
  \E told \in SUBSET {k \in Chains : at[k] = "watch"} :
    woken' = [k \in Chains |-> woken[k] \/ k \in told]

Accounting(o) ==
  /\ stored[o] # exch[o]
  /\ stored' = [stored EXCEPT ![o] = exch[o]]
  /\ Wake
  /\ UNCHANGED <<events, spc, failed, last, step, at, known, result, exchange, noise>>

OtherAccounting ==
  /\ noise < MaxNoise
  /\ noise' = noise + 1
  /\ Wake
  /\ UNCHANGED <<events, spc, failed, last, step, at, known, result, exchange, stored>>

Interrupted ==
  /\ ~failed
  /\ failed' = TRUE
  /\ UNCHANGED <<events, spc, last, chain, exchange, stored, noise>>

-----------------------------------------------------------------------------
Next ==
  \/ \E p \in Pairs : PairEvent(p) \/ PairForward(p) \/ PairStop(p)
  \/ CheckNothing \/ CheckStarts \/ StartStop \/ OtherAccounting \/ Interrupted
  \/ \E k \in Chains :
       \/ Send(k) \/ Answered(k) \/ AnswerLost(k) \/ AnswerGivenUp(k) \/ Subscribe(k)
       \/ Completes(k) \/ StillWaits(k) \/ GivesUp(k) \/ CancelBack(k) \/ CancelLost(k)
  \/ \E o \in Orders : Creates(o) \/ Moves(o) \/ Cancels(o) \/ Accounting(o)

Spec == Init /\ [][Next]_vars

-----------------------------------------------------------------------------
(* Safety.                                                                 *)

Got(k, s)   == exch[<<k, s>>].got
InMarket(o) == exch[o].st = "live" \/ wire[o] = "sent"

\* A chain never sells more than its previous step has brought, though orders
\* are cancelled, filled in part and filled while they are being cancelled.
SellsWhatItBought == \A k \in Chains : Got(k, 2) <= Got(k, 1) /\ Got(k, 3) <= Got(k, 2)

\* Only third steps overlap: as long as the bot runs, at most one order of a
\* first or second step is in the market or on its way there.
OneFirstOrder == ~failed => Cardinality({o \in Orders : o[2] # 3 /\ InMarket(o)}) <= 1

\* Start and the chains agree: Start is busy exactly while one chain, the
\* newest, is at its first or second step, so no event is checked meanwhile.
BusyMeansFirstSteps ==
  \A k \in Chains :
    at[k] \notin {"off", "ended"} /\ step[k] # 3 <=> spc = "busy" /\ k = last

\* A chain that ended without an error has left nothing in the market.
EndedIsFlat ==
  \A k \in Chains : result[k] \in {"success", "notCompleted"} =>
    \A s \in Steps : ~InMarket(<<k, s>>)

\* An order may stay in the market after its step has ended, but only by an error:
\* the context ended while its answer was awaited, accounting did not bring it in
\* time, or its cancellation was refused.  One whose answer was lost stays there
\* unwatched as well, while its step still waits for the answer.
AbandonedOnlyByError ==
  \A k \in Chains : \A s \in Steps :
    InMarket(<<k, s>>) => \/ s = step[k] /\ at[k] # "ended"
                          \/ result[k] = "error"

\* Chains keep to the money they were given: one chain at a time spends on first
\* and second steps, none sells what it has not bought, and no order is forgotten
\* but by an error.
ChainSafe ==
  TypeOK /\ SellsWhatItBought /\ OneFirstOrder /\ BusyMeansFirstSteps
    /\ AbandonedOnlyByError

-----------------------------------------------------------------------------
(* Liveness.  Goroutines that can run do, timers fire when no event comes  *)
(* between, the exchange answers, accounting reports.  No order has to be  *)
(* filled, no chain to be started, nothing to fail, no answer to be lost.  *)
(* At shutdown WS.Start ends as well: what is answered then may never be   *)
(* published.                                                              *)
Fairness ==
  /\ \A p \in Pairs : WF_vars(PairForward(p)) /\ WF_vars(PairStop(p))
  /\ WF_vars(CheckNothing) /\ WF_vars(StartStop)
  /\ \A k \in Chains :
       /\ WF_vars(Send(k)) /\ WF_vars(Answered(k) \/ AnswerGivenUp(k)) /\ WF_vars(Subscribe(k))
       /\ WF_vars(Completes(k)) /\ WF_vars(StillWaits(k)) /\ WF_vars(GivesUp(k))
       /\ WF_vars(known[k] /\ CancelBack(k))
  /\ \A o \in Orders :
       WF_vars(~failed /\ (Creates(o) \/ Cancels(o))) /\ WF_vars(~failed /\ Accounting(o))

FairSpec == Spec /\ Fairness

\* The answer that chain k waits for was lost.
Silent(k) ==
  \/ at[k] = "sent" /\ wire[Order(k)] = "lost"
  \/ at[k] = "cancelling" /\ known[k] /\ cancel[Order(k)] = "lost"

\* A chain that was started ends, filled or not, unless one of its answers is
\* lost, if other orders' accounting events, each of which starts the watcher's
\* timer anew, become rare.
ChainEnds ==
  \A k \in Chains : (at[k] = "ready") ~> (at[k] = "ended" \/ failed \/ Silent(k))

\* When the context is done Start ends, unless it waits for the answer to a
\* cancellation, which was lost or which nobody publishes any more, and so does
\* every listener that is not caught in its send.
ShutDownOrBlocked ==
  failed ~> /\ spc = "stopped" \/ \E k \in Chains : at[k] = "cancelling"
            /\ \A p \in Pairs : lpc[p] = "stopped" \/ (lpc[p] = "sending" /\ ch = ChSize)

\* Chains end, and so does the strategy, but for what the two above except.
ChainProgress == ChainEnds /\ ShutDownOrBlocked

(* What the code says of itself and does not keep.                         *)

\* "start graceful shutting down" (service/manager.go:47): then the strategy's
\* goroutines end, which cmd/arbitrage.go waits for.
ShutDownEnds == failed ~> \A p \in Pairs : lpc[p] = "stopped"

\* "create order selling what was bought on the first step"
\* (strategy/arbitrage.go:397): what a first step has bought does not stay
\* unsold for ever when the second step is cancelled.
FirstStepSoldBack ==
  \A k \in Chains :
    (result[k] = "notCompleted" /\ step[k] = 2 /\ Got(k, 1) > Got(k, 2) /\ ~failed)
      ~> (Got(k, 1) <= Got(k, 2) \/ failed)

\* "order state is not executed" (strategy/arbitrage.go:712): a watcher that
\* gives an order up, with no accounting event to look at, has not got it in
\* the storage as executed.
LateIsNotExecuted ==
  [][\A k \in Chains :
       at[k] = "watch" /\ at'[k] = "cancelling" /\ ~woken[k] /\ ~failed
         => stored[Order(k)].st # "done"]_vars

\* "order creation event not received" (strategy/arbitrage.go:672): a step does not
\* wait for ever for the creation of its order.
LostAnswerIsNoticed ==
  \A k \in Chains :
    (at[k] = "sent" /\ wire[Order(k)] = "lost") ~> (at[k] # "sent" \/ failed)
=============================================================================
