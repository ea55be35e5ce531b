------------------------------- MODULE WsClient -------------------------------
(***************************************************************************)
(* The websocket client (src/client/client.go) from the connection to the  *)
(* end of the process: read, write and pinger, the goroutines that send    *)
(* requests (Workers: subscribers and strategy) and WS.Start, which drains *)
(* ReadCh; main, which authorises, waits for the group and closes the      *)
(* client; the signal manager with its kill timer.                         *)
(*                                                                         *)
(* read and write are a group of their own (wsG): an error of theirs is    *)
(* turned into an interrupt once both have ended.  An error of a worker    *)
(* cancels the group's context and arms no kill timer.                     *)
(***************************************************************************)
EXTENDS Naturals, Sequences

CONSTANTS
  Workers,
  SendCap,       \* capacity of sendCh   (writeChSize, 1024, in the code)
  ReadCap,       \* capacity of ReadCh   (readChSize, 1024, in the code)
  MaxRequests,   \* bound of the model: requests ever sent
  MaxMessages,   \* bound of the model: messages ever read
  MaxPings       \* bound of the model: pings before the connection is lost

ASSUME CapAssumption == SendCap \in Nat \ {0} /\ ReadCap \in Nat \ {0}
ASSUME BoundAssumption ==
  MaxRequests \in Nat /\ MaxMessages \in Nat /\ MaxPings \in Nat

VARIABLES
  reader,        \* read: reading, sending to ReadCh, ok or failed
  writer,        \* write: waiting, writing, ok or failed
  writing,       \* the message write has taken
  pinger,        \* waiting, or sending after its check of isClosed
  worker,        \* Workers -> working, sending or ended
  starter,       \* WS.Start: running or ended
  main,          \* auth, running, the steps of Close, dump, over
  conn,          \* up, closed (a close frame was exchanged) or broken
  isClosed,
  sendCh, sendClosed,
  readCh, readClosed,    \* how many messages ReadCh holds
  ctxDone,       \* the group's context
  armed,         \* the manager got a signal: its kill timer runs
  exit,          \* no, done, killed or panic
  requests,      \* number of requests made
  reads,         \* number of messages read
  pings,         \* number of pings while the connection is up
  written        \* history: what reached the exchange, in order

chans == <<sendCh, sendClosed, readCh, readClosed>>
procs == <<reader, writer, writing, pinger, worker, starter, main>>
count == <<requests, reads, pings, written>>
vars == <<reader, writer, writing, pinger, worker, starter, main, conn, isClosed,
          sendCh, sendClosed, readCh, readClosed, ctxDone, armed, exit, requests,
          reads, pings, written>>

Messages == {"request", "ping", "close"}

TypeOK ==
  /\ reader \in {"reading", "sending", "ok", "failed"}
  /\ writer \in {"waiting", "writing", "ok", "failed"}
  /\ writing \in Messages
  /\ pinger \in {"waiting", "sending"}
  /\ worker \in [Workers -> {"working", "sending", "ended"}]
  /\ starter \in {"running", "ended"}
  /\ main \in {"auth", "running", "set", "goodbye", "closeSend", "closeRead",
               "dump", "over"}
  /\ conn \in {"up", "closed", "broken"}
  /\ isClosed \in BOOLEAN
  /\ sendCh \in Seq(Messages) /\ Len(sendCh) <= SendCap
  /\ sendClosed \in BOOLEAN
  /\ readCh \in 0 .. ReadCap
  /\ readClosed \in BOOLEAN
  /\ ctxDone \in BOOLEAN
  /\ armed \in BOOLEAN
  /\ exit \in {"no", "done", "killed", "panic"}
  /\ requests \in 0 .. MaxRequests
  /\ reads \in 0 .. MaxMessages
  /\ pings \in 0 .. MaxPings
  /\ written \in Seq(Messages)

Init ==
  /\ reader = "reading"
  /\ writer = "waiting" /\ writing = "ping"
  /\ pinger = "waiting"
  /\ worker = [w \in Workers |-> "working"]
  /\ starter = "running"
  /\ main = "auth"
  /\ conn = "up"
  /\ isClosed = FALSE
  /\ sendCh = <<"request">> /\ sendClosed = FALSE
  /\ readCh = 0 /\ readClosed = FALSE
  /\ ctxDone = FALSE /\ armed = FALSE /\ exit = "no"
  /\ requests = 0 /\ reads = 0 /\ pings = 0
  /\ written = <<>>

Alive   == exit = "no"
Started == main # "auth"
Panic   == exit' = "panic"

-----------------------------------------------------------------------------
(* read.  An operator named Slip... is a mistake that the checks put in    *)
(* the place of the definition after it.                                   *)

\* ReadMessage, then the check of isClosed: a message that comes after Close
\* is only logged.  The exchange is silent until it has the first request.
Read ==
  /\ Alive /\ reader = "reading" /\ conn = "up" /\ reads < MaxMessages
  /\ written # <<>>
  /\ reads' = reads + 1
  /\ reader' = IF isClosed THEN "reading" ELSE "sending"
  /\ UNCHANGED <<writer, writing, pinger, worker, starter, main, conn, isClosed,
                 chans, ctxDone, armed, exit, requests, pings, written>>

\* ReadCh <- message: blocks while it is full, panics if Close has closed it.
ReadSends ==
  /\ Alive /\ reader = "sending"
  /\ \/ readClosed /\ Panic /\ UNCHANGED <<reader, readCh>>
     \/ /\ ~readClosed /\ readCh < ReadCap
        /\ readCh' = readCh + 1
        /\ reader' = "reading"
        /\ UNCHANGED exit
  /\ UNCHANGED <<writer, writing, pinger, worker, starter, main, conn, isClosed,
                 sendCh, sendClosed, readClosed, ctxDone, armed, count>>

\* A close frame of the normal kind is no error.
ReadEnds ==
  /\ Alive /\ reader = "reading" /\ conn # "up"
  /\ reader' = IF conn = "closed" THEN "ok" ELSE "failed"
  /\ UNCHANGED <<writer, writing, pinger, worker, starter, main, conn, isClosed,
                 chans, ctxDone, armed, exit, count>>

-----------------------------------------------------------------------------
(* write, pinger and sendMessage.                                          *)

WriteTakes ==
  /\ Alive /\ writer = "waiting"
  /\ \/ /\ sendCh # <<>>
        /\ writing' = Head(sendCh)
        /\ sendCh' = Tail(sendCh)
        /\ writer' = "writing"
     \/ /\ sendCh = <<>> /\ sendClosed
        /\ writer' = "ok"
        /\ UNCHANGED <<writing, sendCh>>
  /\ UNCHANGED <<reader, pinger, worker, starter, main, conn, isClosed,
                 sendClosed, readCh, readClosed, ctxDone, armed, exit, count>>

\* The exchange answers a close frame with its own.
Write ==
  /\ Alive /\ writer = "writing" /\ conn = "up"
  /\ written' = Append(written, writing)
  /\ conn' = IF writing = "close" THEN "closed" ELSE conn
  /\ writer' = "waiting"
  /\ UNCHANGED <<reader, writing, pinger, worker, starter, main, isClosed, chans,
                 ctxDone, armed, exit, requests, reads, pings>>

SlipWriteForgives ==
  /\ Alive /\ writer = "writing" /\ conn # "up"
  /\ writer' = "waiting"
  /\ UNCHANGED <<reader, writing, pinger, worker, starter, main, conn, isClosed,
                 chans, ctxDone, armed, exit, count>>

\* Only a failed ping ends write for certain; a failed request is forgotten.
WriteFails ==
  /\ Alive /\ writer = "writing" /\ conn # "up"
  /\ \/ writer' = "failed"
     \/ ~(writing = "ping" /\ ~isClosed) /\ writer' = "waiting"
  /\ UNCHANGED <<reader, writing, pinger, worker, starter, main, conn, isClosed,
                 chans, ctxDone, armed, exit, count>>

\* Fifteen seconds passed.
Tick ==
  /\ Alive /\ pinger = "waiting" /\ ~isClosed
  /\ conn = "up" => pings < MaxPings
  /\ pings' = IF conn = "up" THEN pings + 1 ELSE pings
  /\ pinger' = "sending"
  /\ UNCHANGED <<reader, writer, writing, worker, starter, main, conn, isClosed,
                 chans, ctxDone, armed, exit, requests, reads, written>>

\* sendCh <- m: blocks while it is full, panics if Close has closed it.
Enqueue(m) ==
  \/ sendClosed /\ Panic /\ UNCHANGED sendCh
  \/ /\ ~sendClosed /\ Len(sendCh) < SendCap
     /\ sendCh' = Append(sendCh, m)
     /\ UNCHANGED exit

PingSends ==
  /\ Alive /\ pinger = "sending"
  /\ Enqueue("ping")
  /\ pinger' = "waiting"
  /\ UNCHANGED <<reader, writer, writing, worker, starter, main, conn, isClosed,
                 sendClosed, readCh, readClosed, ctxDone, armed, count>>

\* A request is made, and the check of isClosed passed; a cleaning-up strategy
\* still makes requests when its context is done.
Requesting(w) ==
  /\ Alive /\ Started /\ worker[w] = "working" /\ requests < MaxRequests
  /\ requests' = requests + 1
  /\ worker' = [worker EXCEPT ![w] = IF isClosed THEN @ ELSE "sending"]
  /\ UNCHANGED <<reader, writer, writing, pinger, starter, main, conn, isClosed,
                 chans, ctxDone, armed, exit, reads, pings, written>>

Sends(w) ==
  /\ Alive /\ worker[w] = "sending"
  /\ Enqueue("request")
  /\ worker' = [worker EXCEPT ![w] = "working"]
  /\ UNCHANGED <<reader, writer, writing, pinger, starter, main, conn, isClosed,
                 sendClosed, readCh, readClosed, ctxDone, armed, count>>

WorkerEnds(w) ==
  /\ Alive /\ Started /\ worker[w] = "working" /\ ctxDone
  /\ worker' = [worker EXCEPT ![w] = "ended"]
  /\ UNCHANGED <<reader, writer, writing, pinger, starter, main, conn, isClosed,
                 chans, ctxDone, armed, exit, count>>

\* A worker returns an error: the group cancels its context, and no more.
WorkerFails(w) ==
  /\ Alive /\ Started /\ worker[w] = "working" /\ ~ctxDone
  /\ worker' = [worker EXCEPT ![w] = "ended"]
  /\ ctxDone' = TRUE
  /\ UNCHANGED <<reader, writer, writing, pinger, starter, main, conn, isClosed,
                 chans, armed, exit, count>>

\* WS.Start publishes what it reads.
StarterTakes ==
  /\ Alive /\ Started /\ starter = "running" /\ readCh > 0
  /\ readCh' = readCh - 1
  /\ UNCHANGED <<procs, conn, isClosed, sendCh, sendClosed, readClosed, ctxDone,
                 armed, exit, count>>

SlipStarterDrains ==
  /\ Alive /\ Started /\ starter = "running" /\ readClosed /\ readCh = 0
  /\ starter' = "ended"
  /\ UNCHANGED <<reader, writer, writing, pinger, worker, main, conn, isClosed,
                 chans, ctxDone, armed, exit, count>>

StarterEnds ==
  /\ Alive /\ Started /\ starter = "running" /\ ctxDone
  /\ starter' = "ended"
  /\ UNCHANGED <<reader, writer, writing, pinger, worker, main, conn, isClosed,
                 chans, ctxDone, armed, exit, count>>

-----------------------------------------------------------------------------
(* main, the manager and the world.                                        *)

\* Connect waits for the first message, which answers Auth; after an error of
\* the exchange main returns.
Authorised ==
  /\ Alive /\ main = "auth" /\ readCh > 0
  /\ readCh' = readCh - 1
  /\ \/ main' = "running" /\ UNCHANGED exit
     \/ main' = "over" /\ exit' = "done"
  /\ UNCHANGED <<reader, writer, writing, pinger, worker, starter, conn, isClosed,
                 sendCh, sendClosed, readClosed, ctxDone, armed, count>>

SlipGroupNotAwaited ==
  /\ Alive /\ main = "running" /\ ctxDone
  /\ main' = "set"
  /\ UNCHANGED <<reader, writer, writing, pinger, worker, starter, conn, isClosed,
                 chans, ctxDone, armed, exit, count>>

GroupWaited ==
  /\ Alive /\ main = "running"
  /\ starter = "ended" /\ \A w \in Workers : worker[w] = "ended"
  /\ main' = "set"
  /\ UNCHANGED <<reader, writer, writing, pinger, worker, starter, conn, isClosed,
                 chans, ctxDone, armed, exit, count>>

CloseSets ==
  /\ Alive /\ main = "set"
  /\ isClosed' = TRUE
  /\ main' = "goodbye"
  /\ UNCHANGED <<reader, writer, writing, pinger, worker, starter, conn, chans,
                 ctxDone, armed, exit, count>>

CloseSaysGoodbye ==
  /\ Alive /\ main = "goodbye"
  /\ Enqueue("close")
  /\ main' = "closeSend"
  /\ UNCHANGED <<reader, writer, writing, pinger, worker, starter, conn, isClosed,
                 sendClosed, readCh, readClosed, ctxDone, armed, count>>

CloseSendCh ==
  /\ Alive /\ main = "closeSend"
  /\ sendClosed' = TRUE
  /\ main' = "closeRead"
  /\ UNCHANGED <<reader, writer, writing, pinger, worker, starter, conn, isClosed,
                 sendCh, readCh, readClosed, ctxDone, armed, exit, count>>

CloseReadCh ==
  /\ Alive /\ main = "closeRead"
  /\ readClosed' = TRUE
  /\ main' = "dump"
  /\ UNCHANGED <<reader, writer, writing, pinger, worker, starter, conn, isClosed,
                 sendCh, sendClosed, readCh, ctxDone, armed, exit, count>>

\* The state file is written (by the spread bot), main returns.
MainReturns ==
  /\ Alive /\ main = "dump"
  /\ main' = "over" /\ exit' = "done"
  /\ UNCHANGED <<reader, writer, writing, pinger, worker, starter, conn, isClosed,
                 chans, ctxDone, armed, count>>

Interrupt == armed' = TRUE /\ ctxDone' = TRUE

Signal ==
  /\ Alive /\ ~armed
  /\ Interrupt
  /\ UNCHANGED <<procs, conn, isClosed, chans, exit, count>>

\* wsG.Wait is called after Connect, and waits for both.
WsGroupFailed ==
  /\ Alive /\ Started /\ ~armed
  /\ reader \in {"ok", "failed"} /\ writer \in {"ok", "failed"}
  /\ "failed" \in {reader, writer}
  /\ Interrupt
  /\ UNCHANGED <<procs, conn, isClosed, chans, exit, count>>

\* Ten seconds after the signal.
Killed ==
  /\ Alive /\ armed
  /\ exit' = "killed"
  /\ UNCHANGED <<procs, conn, isClosed, chans, ctxDone, armed, count>>

ConnectionEnds ==
  /\ Alive /\ conn = "up"
  /\ conn' \in {"closed", "broken"}
  /\ UNCHANGED <<procs, isClosed, chans, ctxDone, armed, exit, count>>

Close == CloseSets \/ CloseSaysGoodbye \/ CloseSendCh \/ CloseReadCh

Next ==
  \/ Read \/ ReadSends \/ ReadEnds
  \/ WriteTakes \/ Write \/ WriteFails
  \/ Tick \/ PingSends
  \/ \E w \in Workers : Requesting(w) \/ Sends(w) \/ WorkerEnds(w) \/ WorkerFails(w)
  \/ StarterTakes \/ StarterEnds
  \/ Authorised \/ GroupWaited \/ Close \/ MainReturns
  \/ Signal \/ WsGroupFailed \/ Killed \/ ConnectionEnds

Spec == Init /\ [][Next]_vars

\* Goroutines that can run do, and the two timers fire.  Nothing is assumed of
\* the exchange, of the user, or of workers returning errors.
FairSpec ==
  /\ Spec
  /\ WF_vars(ReadSends) /\ WF_vars(ReadEnds)
  /\ WF_vars(WriteTakes) /\ WF_vars(Write \/ WriteFails)
  /\ WF_vars(Tick) /\ WF_vars(PingSends)
  /\ \A w \in Workers : WF_vars(Sends(w)) /\ WF_vars(WorkerEnds(w))
  /\ WF_vars(StarterTakes) /\ WF_vars(StarterEnds)
  /\ WF_vars(Authorised) /\ WF_vars(GroupWaited) /\ WF_vars(Close \/ MainReturns)
  /\ WF_vars(WsGroupFailed) /\ WF_vars(Killed)

-----------------------------------------------------------------------------

\* Subscribers and strategy never meet a closed channel, nor does WS.Start: main
\* closes the client when all of them have ended.
GroupNeverMeetsClosed ==
  /\ sendClosed => \A w \in Workers : worker[w] # "sending"
  /\ readClosed => starter = "ended"

\* No request, and so no cancellation of an order at shutdown, is queued behind
\* the close frame.  A ping may be.
Queue == written \o (IF writer = "writing" THEN <<writing>> ELSE <<>>) \o sendCh

RequestsBeforeGoodbye ==
  \A i, j \in 1 .. Len(Queue) :
    Queue[i] = "close" /\ Queue[j] = "request" => j < i

\* The client is closed after its users, and last in what is written.
ClosesLast == TypeOK /\ GroupNeverMeetsClosed /\ RequestsBeforeGoodbye

\* A lost connection ends the bot: read's error alone does not, nor does a failed
\* request; the next ping does.
LossEndsBot == (conn # "up" /\ main = "running") ~> ~Alive

\* Once the group's context is done the process ends, whether it was a signal,
\* with the kill timer behind it, or a failed goroutine, with nothing.
ShutDownEnds == (ctxDone /\ Started) ~> ~Alive

\* "got message, but read channel closed" (client.go:99) and "got message fot
\* sent, but write channel closed" (client.go:387): what comes after Close is
\* logged.  Between the check of isClosed and the send, Close closes the channel.
LateIsOnlyLogged == exit # "panic"

\* "cleanup active orders finished" (strategy/spread.go:128): the cancellations
\* of the shutdown were sent.  They are in sendCh when the process ends.
RequestsSentAtExit ==
  exit = "done" /\ conn = "up" /\ main = "over" /\ isClosed =>
    \A i \in 1 .. Len(sendCh) : sendCh[i] # "request"

\* ErrWsReadChannelClosed (client.go:403): Auth fails when the connection does.
\* Nothing closes ReadCh then, and Auth waits for ever.
AuthEnds == (main = "auth" /\ conn = "broken") ~> (main # "auth" \/ ~Alive)
=============================================================================
