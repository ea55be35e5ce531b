------------------------------ MODULE OrderCalls ------------------------------
(***************************************************************************)
(* The order service (src/service/order.go) as calls over the event broker: *)
(* each call subscribes to the websocket messages, sends its request and   *)
(* reads until the message with its request id comes, or a timer fires, or *)
(* the context is done.  CancelOrder (Cancellers) subscribes and then      *)
(* sends; UpdateOrderState (Getters) is given the id of a request already  *)
(* sent and subscribes after it; UpdateOrdersStates (Batches) asks for     *)
(* every order it holds for live and counts the answers.                   *)
(*                                                                         *)
(* The broker registers a subscription some time after Subscribe returned  *)
(* (module Broker), and every registered call receives every message.  The *)
(* 1024 places of a call's channel are taken to suffice.                   *)
(***************************************************************************)
EXTENDS Naturals, Sequences, FiniteSets

CONSTANTS
  Callers,       \* goroutines that call the service, once each
  Orders,
  Nobody,        \* the caller of a message that answers no request
  Noisy          \* the calls that such messages (the order book's) come to

ASSUME NoiseAssumption == Nobody \notin Callers /\ Noisy \subseteq Callers
ASSUME OrdersAssumption == IsFiniteSet(Orders)

States   == {"live", "done", "cancelled"}
Results  == States \cup {"ok", "wasCancelled", "wasDone", "refused", "noOrder"}
Answers  == [caller : Callers, order : Orders, result : Results]
Noise    == [caller |-> Nobody, result |-> "none"]

VARIABLES
  kind,          \* Callers -> the method of the service it calls
  pc,            \* Callers -> how far the call is
  target,        \* Callers -> the orders it asks about (reqIds)
  asked,         \* Callers -> those whose request was sent
  processed,     \* Callers -> answers it has counted (oNumberProcessed)
  outcome,       \* Callers -> what the call returned
  got,           \* Callers -> the state UpdateOrderState stored and returned
  joining,       \* subscriptions the broker has not registered yet
  registered,    \* the broker's subscribers
  wire,          \* requests the exchange has not answered: <<caller, order>>
  publishCh,     \* answers the broker has not fanned out
  inbox,         \* Callers -> content of its channel
  market,        \* Orders -> state at the exchange
  ctxDone,
  atSend,        \* history: Callers -> the order's state when UpdateOrderState's
                 \* request was sent
  heard          \* history: answers that reached their caller's channel

call    == <<kind, pc, target, asked, processed, outcome, got>>
broker  == <<joining, registered, publishCh, inbox, heard>>
vars == <<kind, pc, target, asked, processed, outcome, got, joining, registered, wire,
          publishCh, inbox, market, ctxDone, atSend, heard>>

Cancellers == {c \in Callers : kind[c] = "CancelOrder"}
Getters    == {c \in Callers : kind[c] = "UpdateOrderState"}
Batches    == {c \in Callers : kind[c] = "UpdateOrdersStates"}

TypeOK ==
  /\ kind \in [Callers -> {"CancelOrder", "UpdateOrderState", "UpdateOrdersStates"}]
  /\ pc \in [Callers -> {"idle", "subscribed", "sent", "listening", "ended"}]
  /\ target \in [Callers -> SUBSET Orders]
  /\ asked \in [Callers -> SUBSET Orders]
  /\ processed \in [Callers -> 0 .. Cardinality(Orders)]
  /\ outcome \in [Callers -> {"none", "ok", "nil", "doneOrder", "error",
                              "timeout", "panic"}]
  /\ got \in [Callers -> States \cup {"none"}]
  /\ joining \subseteq Callers
  /\ registered \subseteq Callers
  /\ wire \subseteq Callers \X Orders
  /\ publishCh \in Seq(Answers)
  /\ inbox \in [Callers -> Seq(Answers \cup {Noise})]
  /\ market \in [Orders -> States]
  /\ ctxDone \in BOOLEAN
  /\ atSend \in [Callers -> States \cup {"none"}]
  /\ heard \subseteq Callers \X Orders

\* Two calls that ask about different orders share no more than the channel, and
\* are left out.
Init ==
  /\ kind \in [Callers -> {"CancelOrder", "UpdateOrderState", "UpdateOrdersStates"}]
  /\ Cardinality(Batches) <= 1
  /\ pc = [c \in Callers |-> "idle"]
  /\ target \in [Callers -> SUBSET Orders]
  /\ \A c \in Callers \ Batches : Cardinality(target[c]) = 1
  /\ \A c, d \in Callers \ Batches : target[c] = target[d]
  /\ asked = [c \in Callers |-> {}]
  /\ processed = [c \in Callers |-> 0]
  /\ outcome = [c \in Callers |-> "none"]
  /\ got = [c \in Callers |-> "none"]
  /\ joining = {}
  /\ registered = {}
  /\ wire = {}
  /\ publishCh = <<>>
  /\ inbox = [c \in Callers |-> <<>>]
  /\ market \in [Orders -> States]
  /\ \A c \in Batches : {o \in Orders : market[o] = "live"} \subseteq target[c]
  /\ ctxDone = FALSE
  /\ atSend = [c \in Callers |-> "none"]
  /\ heard = {}

-----------------------------------------------------------------------------
\* LoadFromStateFile refreshes the orders before the command starts anything else
\* that uses the service (cmd/spread.go): a batch has no other call beside it, and
\* what follows it is a run without it.
MayBegin(c) == pc[c] = "idle" /\ (c \in Batches \/ Batches = {})

(* The first half of a call.  An operator named Slip... is a mistake that  *)
(* the checks put in the place of the definition after it.                 *)

Subscribe(c) ==
  /\ IF c \in Getters THEN pc[c] = "sent" ELSE MayBegin(c)
  /\ pc' = [pc EXCEPT ![c] = IF c \in Getters THEN "listening" ELSE "subscribed"]
  /\ joining' = joining \cup {c}
  /\ UNCHANGED <<kind, target, asked, processed, outcome, got, registered, wire,
                 publishCh, inbox, market, ctxDone, atSend, heard>>

\* A batch sends its requests one by one and listens after the last.
Send(c) ==
  /\ IF c \in Getters THEN MayBegin(c) ELSE pc[c] = "subscribed"
  /\ \E o \in target[c] \ asked[c] :
       /\ asked' = [asked EXCEPT ![c] = @ \cup {o}]
       /\ wire' = wire \cup {<<c, o>>}
       /\ atSend' = [atSend EXCEPT ![c] = IF c \in Getters THEN market[o] ELSE @]
  /\ pc' = [pc EXCEPT ![c] = IF c \in Getters THEN "sent"
                             ELSE IF asked'[c] = target[c] THEN "listening" ELSE @]
  /\ UNCHANGED <<kind, target, processed, outcome, got, broker, market, ctxDone>>

\* UpdateOrdersStates without an order to ask about waits all the same.
NothingToSend(c) ==
  /\ pc[c] = "subscribed" /\ target[c] = {}
  /\ pc' = [pc EXCEPT ![c] = "listening"]
  /\ UNCHANGED <<kind, target, asked, processed, outcome, got, broker, wire, market,
                 ctxDone, atSend>>

-----------------------------------------------------------------------------
(* The second half: one turn of the select.                                *)

Listens(c) == pc[c] = "listening" /\ inbox[c] # <<>>
Own(c)     == Head(inbox[c]).caller = c

\* The call returns; its deferred Unsubscribe is taken as immediate, since
\* nobody reads the channel any more.
Return(c, r) ==
  /\ pc' = [pc EXCEPT ![c] = "ended"]
  /\ outcome' = [outcome EXCEPT ![c] = r]
  /\ joining' = joining \ {c}
  /\ registered' = registered \ {c}
  /\ inbox' = [inbox EXCEPT ![c] = <<>>]

Discard(c) ==
  /\ Listens(c) /\ ~Own(c)
  /\ inbox' = [inbox EXCEPT ![c] = Tail(@)]
  /\ UNCHANGED <<call, joining, registered, wire, publishCh, market,
                 ctxDone, atSend, heard>>

\* CancelOrder: an order that was cancelled before counts as cancelled.
CancelReturns(r) ==
  CASE r = "wasDone" -> "doneOrder"
    [] r = "refused" -> "error"
    [] OTHER         -> "ok"

SlipCancelTakesAny(c) ==
  /\ c \in Cancellers /\ Listens(c) /\ Head(inbox[c]).caller # Nobody
  /\ Return(c, CancelReturns(Head(inbox[c]).result))
  /\ UNCHANGED <<kind, target, asked, processed, got, wire, publishCh, market,
                 ctxDone, atSend, heard>>

CancelAnswered(c) ==
  /\ c \in Cancellers /\ Listens(c) /\ Own(c)
  /\ Return(c, CancelReturns(Head(inbox[c]).result))
  /\ UNCHANGED <<kind, target, asked, processed, got, wire, publishCh, market,
                 ctxDone, atSend, heard>>

\* processOrderMsg: an error, no order, or the state is stored; nobody reads the
\* storage here, so only the state that UpdateOrderState also returns is kept.
Process(c, m) ==
  got' = [got EXCEPT ![c] = IF c \in Getters /\ m.result \in States THEN m.result ELSE @]

GetReturns(r) ==
  CASE r \in States   -> "ok"
    [] r = "noOrder"  -> "nil"
    [] OTHER          -> "error"

SlipGetTakesAny(c) ==
  /\ c \in Getters /\ Listens(c) /\ Head(inbox[c]).caller # Nobody
  /\ Process(c, Head(inbox[c]))
  /\ Return(c, GetReturns(Head(inbox[c]).result))
  /\ UNCHANGED <<kind, target, asked, processed, wire, publishCh, market, ctxDone,
                 atSend, heard>>

GetAnswered(c) ==
  /\ c \in Getters /\ Listens(c) /\ Own(c)
  /\ Process(c, Head(inbox[c]))
  /\ Return(c, GetReturns(Head(inbox[c]).result))
  /\ UNCHANGED <<kind, target, asked, processed, wire, publishCh, market, ctxDone,
                 atSend, heard>>

BatchAnswered(c) ==
  /\ c \in Batches /\ Listens(c) /\ Own(c)
  /\ Process(c, Head(inbox[c]))
  /\ IF GetReturns(Head(inbox[c]).result) = "error"
       THEN Return(c, "error") /\ UNCHANGED processed
       ELSE /\ processed' = [processed EXCEPT ![c] = @ + 1]
            /\ IF processed'[c] = Cardinality(asked[c])
                 THEN Return(c, "ok")
                 ELSE /\ inbox' = [inbox EXCEPT ![c] = Tail(@)]
                      /\ UNCHANGED <<pc, outcome, joining, registered>>
  /\ UNCHANGED <<kind, target, asked, wire, publishCh, market, ctxDone, atSend, heard>>

SlipTimerOfCancels(c) ==
  /\ c \in Cancellers /\ pc[c] = "listening" /\ inbox[c] = <<>>
  /\ Return(c, "panic")
  /\ UNCHANGED <<kind, target, asked, processed, got, wire, publishCh, market,
                 ctxDone, atSend, heard>>

\* time.After is made anew in every turn of the select: the timer fires after
\* a time without any message.  CancelOrder then formats an error that is nil.
TimesOut(c) ==
  /\ pc[c] = "listening" /\ inbox[c] = <<>>
  /\ Return(c, IF c \in Cancellers THEN "panic" ELSE "timeout")
  /\ UNCHANGED <<kind, target, asked, processed, got, wire, publishCh, market,
                 ctxDone, atSend, heard>>

\* CancelOrder has no context.
ContextEnds(c) ==
  /\ c \notin Cancellers /\ pc[c] = "listening" /\ ctxDone
  /\ Return(c, "nil")
  /\ UNCHANGED <<kind, target, asked, processed, got, wire, publishCh, market,
                 ctxDone, atSend, heard>>

-----------------------------------------------------------------------------
(* The broker, the exchange and the signal.                                *)

Register(c) ==
  /\ c \in joining
  /\ joining' = joining \ {c}
  /\ registered' = registered \cup {c}
  /\ UNCHANGED <<call, wire, publishCh, inbox, market, ctxDone, atSend,
                 heard>>

FanOut ==
  /\ publishCh # <<>>
  /\ LET m == Head(publishCh) IN
       /\ inbox' = [c \in Callers |-> IF c \in registered THEN Append(inbox[c], m)
                                      ELSE inbox[c]]
       /\ heard' = IF m.caller \in registered THEN heard \cup {<<m.caller, m.order>>}
                   ELSE heard
  /\ publishCh' = Tail(publishCh)
  /\ UNCHANGED <<call, joining, registered, wire, market, ctxDone, atSend>>

\* The messages of the order book and of accounting, which may go on and on; one
\* of them is in a channel at a time.
FanOutNoise(c) ==
  /\ c \in Noisy \cap registered /\ inbox[c] = <<>>
  /\ inbox' = [inbox EXCEPT ![c] = <<Noise>>]
  /\ UNCHANGED <<call, joining, registered, wire, publishCh, market,
                 ctxDone, atSend, heard>>

Answer(c, o, r) ==
  /\ <<c, o>> \in wire
  /\ wire' = wire \ {<<c, o>>}
  /\ publishCh' = Append(publishCh, [caller |-> c, order |-> o, result |-> r])
  /\ UNCHANGED <<call, joining, registered, inbox, ctxDone, atSend, heard>>

ExchangeCancels(c, o) ==
  /\ c \in Cancellers
  /\ \/ /\ market[o] = "live"
        /\ Answer(c, o, "ok")
        /\ market' = [market EXCEPT ![o] = "cancelled"]
     \/ /\ market[o] # "live"
        /\ Answer(c, o, IF market[o] = "done" THEN "wasDone" ELSE "wasCancelled")
        /\ UNCHANGED market
     \/ Answer(c, o, "refused") /\ UNCHANGED market

ExchangeGets(c, o) ==
  /\ c \notin Cancellers
  /\ \E r \in {market[o], "refused", "noOrder"} : Answer(c, o, r)
  /\ UNCHANGED market

\* An order nobody asks about, or will, may as well stay as it is.
ExchangeMoves(o) ==
  /\ market[o] = "live" /\ \E c \in Callers : pc[c] # "ended" /\ o \in target[c]
  /\ \E s \in {"done", "cancelled"} : market' = [market EXCEPT ![o] = s]
  /\ UNCHANGED <<call, broker, wire, ctxDone, atSend>>

Interrupted ==
  /\ ~ctxDone /\ ctxDone' = TRUE
  /\ UNCHANGED <<call, broker, wire, market, atSend>>

Answered(c) == CancelAnswered(c) \/ GetAnswered(c) \/ BatchAnswered(c)

Next ==
  \/ \E c \in Callers :
       \/ Subscribe(c) \/ Send(c) \/ NothingToSend(c)
       \/ Discard(c) \/ Answered(c) \/ TimesOut(c) \/ ContextEnds(c)
       \/ Register(c) \/ FanOutNoise(c)
       \/ \E o \in Orders : ExchangeCancels(c, o) \/ ExchangeGets(c, o)
  \/ FanOut
  \/ \E o \in Orders : ExchangeMoves(o)
  \/ Interrupted

Spec == Init /\ [][Next]_vars

\* Goroutines that can run do, the broker serves its channels, timers fire;
\* of a select's ready cases each is taken now and then.  Nothing is assumed
\* of the exchange, nor that messages of others come.
FairSpec ==
  /\ Spec
  /\ \A c \in Callers :
       /\ WF_vars(Subscribe(c) \/ Send(c) \/ NothingToSend(c))
       /\ WF_vars(Discard(c) \/ Answered(c))
       /\ WF_vars(TimesOut(c))
       /\ WF_vars(ContextEnds(c))
       /\ WF_vars(Register(c))
  /\ WF_vars(FanOut)

-----------------------------------------------------------------------------

\* What CancelOrder tells its caller is so at the exchange, whatever answers to
\* other calls, about other orders, it read before its own.
CancelTellsTruth ==
  \A c \in Cancellers : \A o \in target[c] :
    /\ outcome[c] = "ok" => market[o] = "cancelled"
    /\ outcome[c] = "doneOrder" => market[o] = "done"

\* The state UpdateOrderState returns and stores is the order's, of some moment
\* after its request was sent: the caller decides by it.
AnswerIsFresh ==
  \A c \in Getters : \A o \in target[c] :
    outcome[c] = "ok" => got[c] \in {atSend[c], market[o]}

\* A call that gave up did not have its answer: an answer in the channel is
\* neither skipped as somebody else's nor overtaken by the timer.
GivesUpUnheard ==
  \A c \in Callers :
    outcome[c] \in {"timeout", "panic"} => ({c} \X target[c]) \ heard # {}
                                           \/ target[c] = {}

\* UpdateOrdersStates succeeds only when the answer for each order it held for
\* live has come: the recovery after a restart relies on it.
BatchLooksAtAll ==
  \A c \in Batches : outcome[c] = "ok" => {c} \X target[c] \subseteq heard

\* What the calls tell their callers is so, and they give up on nothing that came.
CallsSafe == TypeOK /\ CancelTellsTruth /\ GivesUpUnheard /\ BatchLooksAtAll

\* Every call returns, even one whose answer was published before the broker had
\* registered it, if messages of others pause long enough for its timer.
QuietAtLast == <>[][\A c \in Callers : ~FanOutNoise(c)]_vars
CallsReturn == QuietAtLast => <>[](\A c \in Callers : pc[c] \in {"idle", "ended"})

\* The calls with a context return at shutdown, whatever goes on arriving.
ShutDownReturns ==
  <>[](ctxDone => \A c \in Getters \cup Batches : pc[c] \in {"idle", "ended"})

\* Calls return, by their timer or by their context.
CallsEnd == CallsReturn /\ ShutDownReturns

\* "cancel order state timeout" (dictionary/error.go:25): a cancellation that is
\* not answered in time fails with an error.  It panics.
TimeOutIsReported == \A c \in Cancellers : outcome[c] # "panic"

\* cancelOrderTimeout: a cancellation is waited for ten seconds, no longer.  With
\* other messages coming in the timer never fires.
CancelTimesOut ==
  \A c \in Callers : (c \in Cancellers /\ pc[c] = "listening") ~> pc[c] = "ended"
=============================================================================
