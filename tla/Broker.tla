------------------------------- MODULE Broker -------------------------------
(***************************************************************************)
(* The event broker (src/broker/broker.go): one goroutine (Start) that     *)
(* serves three channels - subscriptions, unsubscriptions and published    *)
(* messages - and fans every message out to the buffered channel of each   *)
(* subscriber, dropping it for a subscriber whose buffer is full.  Every   *)
(* other part of the bot talks through such a broker: websocket messages,  *)
(* order book events, accounting events and forced checks.                 *)
(*                                                                         *)
(* A message is the number of its publication, in the order in which       *)
(* publishCh accepted them.                                                *)
(***************************************************************************)
EXTENDS Naturals, Sequences, FiniteSets

CONSTANTS
  Chans,         \* the channels ever made by Subscribe
  Publishers,    \* the goroutines that call Publish
  NoChan,        \* "the buffered channel of capacity 1 is empty"
  PublishCap,    \* capacity of publishCh   (eventChSize, 1024, in the code)
  ChanCap,       \* capacity of a subscriber (eventChSize, 1024, in the code)
  MaxMessages    \* bound of the model: messages ever published

ASSUME NoChanAssumption == NoChan \notin Chans
ASSUME CapAssumption ==
  /\ PublishCap \in Nat \ {0}
  /\ ChanCap \in Nat \ {0}
ASSUME BoundAssumption == MaxMessages \in Nat

VARIABLES
  subscribers,   \* the keys of the subscribers map
  subCh,         \* the channel waiting to be registered, or NoChan
  unsubCh,       \* the channel waiting to be removed, or NoChan
  publishCh,     \* accepted messages the broker has not taken yet
  buf,           \* Chans -> content of the subscriber's channel
  closed,        \* channels the broker has closed
  phase,         \* Chans -> where its owner is: new, open or left
  calling,       \* publishers inside Publish, blocked until there is room
  pc,            \* the broker: in its select, in the fan-out loop, or sending
  todo,          \* subscribers the fan-out loop has still to visit
  target,        \* the subscriber found with room, about to be sent to
  published,     \* number of messages accepted so far
  handled,       \* number of messages taken from publishCh so far
  since,         \* history: handled when the channel was registered
  delivered,     \* history: everything ever sent to the channel
  missed         \* history: how many messages were dropped for the channel

chans   == <<subCh, unsubCh, publishCh, buf, closed>>
loop    == <<pc, todo, target>>
history == <<since, delivered, missed>>
vars == <<subscribers, subCh, unsubCh, publishCh, buf, closed, phase, calling,
          pc, todo, target, published, handled, since, delivered, missed>>

TypeOK ==
  /\ subscribers \in SUBSET Chans
  /\ subCh \in Chans \cup {NoChan}
  /\ unsubCh \in Chans \cup {NoChan}
  /\ publishCh \in Seq(Nat)
  /\ Len(publishCh) <= PublishCap
  /\ buf \in [Chans -> Seq(Nat)]
  /\ closed \in SUBSET Chans
  /\ phase \in [Chans -> {"new", "open", "left"}]
  /\ calling \in SUBSET Publishers
  /\ pc \in {"select", "loop", "send"}
  /\ todo \in SUBSET Chans
  /\ target \in Chans \cup {NoChan}
  /\ published \in Nat
  /\ handled \in Nat
  /\ since \in [Chans -> Nat]
  /\ delivered \in [Chans -> Seq(Nat)]
  /\ missed \in [Chans -> Nat]

Init ==
  /\ subscribers = {}
  /\ subCh = NoChan
  /\ unsubCh = NoChan
  /\ publishCh = <<>>
  /\ buf = [c \in Chans |-> <<>>]
  /\ closed = {}
  /\ phase = [c \in Chans |-> "new"]
  /\ calling = {}
  /\ pc = "select"
  /\ todo = {}
  /\ target = NoChan
  /\ published = 0
  /\ handled = 0
  /\ since = [c \in Chans |-> 0]
  /\ delivered = [c \in Chans |-> <<>>]
  /\ missed = [c \in Chans |-> 0]

-----------------------------------------------------------------------------
(* The callers.  The definitions named Slip... are not part of the broker: *)
(* each is an action with a plausible mistake in it, and the checks show    *)
(* that a property notices when it takes the place of the real one.        *)

\* Subscribe makes the channel and hands it over; it returns before the
\* broker has registered it, and blocks only while another one is waiting.
Subscribe(c) ==
  /\ phase[c] = "new"
  /\ subCh = NoChan
  /\ subCh' = c
  /\ phase' = [phase EXCEPT ![c] = "open"]
  /\ UNCHANGED <<subscribers, unsubCh, publishCh, buf, closed, calling, loop,
                 published, handled, history>>

\* Every subscriber defers one Unsubscribe and reads nothing after it.
Unsubscribe(c) ==
  /\ phase[c] = "open"
  /\ unsubCh = NoChan
  /\ unsubCh' = c
  /\ phase' = [phase EXCEPT ![c] = "left"]
  /\ UNCHANGED <<subscribers, subCh, publishCh, buf, closed, calling, loop,
                 published, handled, history>>

Receive(c) ==
  /\ phase[c] = "open"
  /\ buf[c] # <<>>
  /\ buf' = [buf EXCEPT ![c] = Tail(@)]
  /\ UNCHANGED <<subscribers, subCh, unsubCh, publishCh, closed, phase, calling,
                 loop, published, handled, history>>

CallPublish(p) ==
  /\ p \notin calling
  /\ published + Cardinality(calling) < MaxMessages
  /\ calling' = calling \cup {p}
  /\ UNCHANGED <<subscribers, chans, phase, loop, published, handled, history>>

\* The queue has no limit.
SlipPublishUnbounded(p) ==
  /\ p \in calling
  /\ publishCh' = Append(publishCh, published + 1)
  /\ published' = published + 1
  /\ calling' = calling \ {p}
  /\ UNCHANGED <<subscribers, subCh, unsubCh, buf, closed, phase, loop, handled,
                 history>>

\* Publish returns when publishCh has taken the message.
Publish(p) ==
  /\ p \in calling
  /\ Len(publishCh) < PublishCap
  /\ publishCh' = Append(publishCh, published + 1)
  /\ published' = published + 1
  /\ calling' = calling \ {p}
  /\ UNCHANGED <<subscribers, subCh, unsubCh, buf, closed, phase, loop, handled,
                 history>>

-----------------------------------------------------------------------------
(* The broker goroutine.  Its select takes any ready case.                 *)

Register ==
  /\ pc = "select"
  /\ subCh # NoChan
  /\ subscribers' = subscribers \cup {subCh}
  /\ since' = [since EXCEPT ![subCh] = handled]
  /\ subCh' = NoChan
  /\ UNCHANGED <<unsubCh, publishCh, buf, closed, phase, calling, loop,
                 published, handled, delivered, missed>>

\* The channel is forgotten but not closed.
SlipRemoveOpen ==
  /\ pc = "select"
  /\ unsubCh # NoChan
  /\ subscribers' = subscribers \ {unsubCh}
  /\ unsubCh' = NoChan
  /\ UNCHANGED <<subCh, publishCh, buf, closed, phase, calling, loop, published,
                 handled, history>>

\* A channel that is not registered (yet) is ignored, not closed.
Remove ==
  /\ pc = "select"
  /\ unsubCh # NoChan
  /\ IF unsubCh \in subscribers
       THEN /\ subscribers' = subscribers \ {unsubCh}
            /\ closed' = closed \cup {unsubCh}
       ELSE UNCHANGED <<subscribers, closed>>
  /\ unsubCh' = NoChan
  /\ UNCHANGED <<subCh, publishCh, buf, phase, calling, loop, published, handled,
                 history>>

Take ==
  /\ pc = "select"
  /\ publishCh # <<>>
  /\ publishCh' = Tail(publishCh)
  /\ handled' = handled + 1
  /\ pc' = "loop"
  /\ todo' = subscribers
  /\ UNCHANGED <<subscribers, subCh, unsubCh, buf, closed, phase, calling, target,
                 published, history>>

\* The length is not looked at.
SlipVisitBlind(c) ==
  /\ pc = "loop"
  /\ c \in todo
  /\ todo' = todo \ {c}
  /\ pc' = "send"
  /\ target' = c
  /\ UNCHANGED <<subscribers, chans, phase, calling, published, handled, history>>

\* A full buffer ends the loop instead of the turn ("break" for "continue").
SlipVisitBreaks(c) ==
  /\ pc = "loop"
  /\ c \in todo
  /\ IF Len(buf[c]) = ChanCap
       THEN /\ missed' = [missed EXCEPT ![c] = @ + 1]
            /\ todo' = {}
            /\ UNCHANGED <<pc, target>>
       ELSE /\ todo' = todo \ {c}
            /\ pc' = "send"
            /\ target' = c
            /\ UNCHANGED missed
  /\ UNCHANGED <<subscribers, chans, phase, calling, published, handled, since,
                 delivered>>

\* A subscriber that does not keep up is closed.
SlipVisitCloses(c) ==
  /\ pc = "loop"
  /\ c \in todo
  /\ todo' = todo \ {c}
  /\ IF Len(buf[c]) = ChanCap
       THEN /\ subscribers' = subscribers \ {c}
            /\ closed' = closed \cup {c}
            /\ UNCHANGED <<pc, target>>
       ELSE /\ pc' = "send"
            /\ target' = c
            /\ UNCHANGED <<subscribers, closed>>
  /\ UNCHANGED <<subCh, unsubCh, publishCh, buf, phase, calling, published,
                 handled, history>>

\* A subscriber may be visited twice for one message.
SlipVisitRepeats(c) ==
  /\ pc = "loop"
  /\ c \in todo
  /\ Len(buf[c]) < ChanCap
  /\ pc' = "send"
  /\ target' = c
  /\ UNCHANGED <<subscribers, chans, phase, calling, todo, published, handled,
                 history>>

\* One turn of the fan-out loop, first half: the length of the buffer is
\* looked at, and a full one is skipped.
Visit(c) ==
  /\ pc = "loop"
  /\ c \in todo
  /\ todo' = todo \ {c}
  /\ IF Len(buf[c]) = ChanCap
       THEN /\ missed' = [missed EXCEPT ![c] = @ + 1]
            /\ UNCHANGED <<pc, target>>
       ELSE /\ pc' = "send"
            /\ target' = c
            /\ UNCHANGED missed
  /\ UNCHANGED <<subscribers, chans, phase, calling, published, handled, since,
                 delivered>>

\* Second half: the send.  It would block on a full channel and panic on a
\* closed one.
Send ==
  /\ pc = "send"
  /\ Len(buf[target]) < ChanCap
  /\ buf' = [buf EXCEPT ![target] = Append(@, handled)]
  /\ delivered' = [delivered EXCEPT ![target] = Append(@, handled)]
  /\ pc' = "loop"
  /\ target' = NoChan
  /\ UNCHANGED <<subscribers, subCh, unsubCh, publishCh, closed, phase, calling,
                 todo, published, handled, since, missed>>

LoopDone ==
  /\ pc = "loop"
  /\ todo = {}
  /\ pc' = "select"
  /\ UNCHANGED <<subscribers, chans, phase, calling, todo, target, published,
                 handled, history>>

Next ==
  \/ \E c \in Chans : Subscribe(c) \/ Unsubscribe(c) \/ Receive(c)
  \/ \E p \in Publishers : CallPublish(p) \/ Publish(p)
  \/ Register \/ Remove \/ Take \/ LoopDone \/ Send
  \/ \E c \in Chans : Visit(c)

(* The broker goroutine keeps running.  Go's select chooses at random among *)
(* the ready cases, so a case that is ready again and again is taken, and   *)
(* blocked senders of a channel are served first come, first served.        *)
Fairness ==
  /\ SF_vars(Register) /\ SF_vars(Remove) /\ SF_vars(Take)
  /\ WF_vars(Send) /\ WF_vars(LoopDone)
  /\ \A c \in Chans : WF_vars(Visit(c))
  /\ \A p \in Publishers : SF_vars(Publish(p))

Spec == Init /\ [][Next]_vars /\ Fairness

-----------------------------------------------------------------------------
(* Safety.                                                                 *)

\* When the broker is about to send (broker.go:57) the channel is neither
\* full nor closed, whatever its owner did since the length was looked at:
\* one slow or departed subscriber can neither block nor crash the fan-out.
SendIsSafe ==
  pc = "send" => /\ target \notin closed
                 /\ Len(buf[target]) < ChanCap

\* Nothing is lost silently: a registered channel has been given, or has
\* visibly dropped, every message handled since its registration, except the
\* one whose fan-out has not reached it yet.
Pending(c) == IF c \in todo \/ (pc = "send" /\ target = c) THEN 1 ELSE 0

EveryMessageAccounted ==
  \A c \in subscribers :
    Len(delivered[c]) + missed[c] + Pending(c) = handled - since[c]

\* No goroutine that still reads sees its channel closed: only an owner that
\* has called Unsubscribe can find it so.  The watchers and subscribers of the
\* bot end with ErrEventChannelClosed when they do (watch.go:131).
ClosedOnlyAfterLeaving == \A c \in closed : phase[c] = "left"

(* Liveness.                                                               *)

\* A publisher never waits forever, even if no subscriber ever reads again.
PublishReturns == \A p \in Publishers : (p \in calling) ~> (p \notin calling)

\* An unsubscribed channel that was registered is closed in the end: its
\* goroutine's range or receive ends.
LeaverIsClosed ==
  \A c \in Chans : (phase[c] = "left" /\ c \in subscribers /\ unsubCh = c)
                     ~> (c \in closed)

(* Refinement: the broker implements PubSub.                               *)
memberOf(c) == IF c \in subscribers THEN "in"
               ELSE IF c \in closed THEN "gone" ELSE "out"

Abstract == INSTANCE PubSub WITH
  accepted <- published,
  pos      <- handled,
  member   <- [c \in Chans |-> memberOf(c)],
  from     <- since,
  inbox    <- delivered

\* Each subscriber is given a subsequence of the published messages, in
\* order, without duplicates, and only while it is registered.
ImplementsPubSub == Abstract!Spec
=============================================================================
