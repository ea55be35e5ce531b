---------------------------- MODULE WsClientProofs ----------------------------
(***************************************************************************)
(* The client is closed after its users and says goodbye last, for any     *)
(* number of workers, any capacities and any number of messages.           *)
(***************************************************************************)
EXTENDS WsClient, SequenceTheorems, TLAPS

(* Queues in which no request follows a close frame.                       *)

Has(s, m) == \E i \in 1 .. Len(s) : s[i] = m

Ordered(s) ==
  \A i, j \in 1 .. Len(s) : s[i] = "close" /\ s[j] = "request" => j < i

LEMMA AppendOrdered ==
  ASSUME NEW s \in Seq(Messages), NEW m \in Messages, Ordered(s),
         m = "request" => ~Has(s, "close")
  PROVE  /\ Append(s, m) \in Seq(Messages) /\ Ordered(Append(s, m))
         /\ \A x \in Messages : Has(Append(s, m), x) => Has(s, x) \/ x = m
<1> DEFINE t == Append(s, m)
<1>1. /\ t \in Seq(Messages) /\ Len(s) \in Nat /\ Len(t) = Len(s) + 1
      /\ t[Len(s) + 1] = m
      /\ \A i \in 1 .. Len(s) : t[i] = s[i]
  BY AppendProperties
<1> HIDE DEF t
<1>2. \A i \in 1 .. Len(t) : i \in 1 .. Len(s) \/ i = Len(s) + 1
  BY <1>1
<1>3. ASSUME NEW i \in 1 .. Len(t), NEW j \in 1 .. Len(t),
             t[i] = "close", t[j] = "request"
      PROVE  j < i
  <2>1. CASE i \in 1 .. Len(s) /\ j \in 1 .. Len(s)
    BY <2>1, <1>1, <1>3 DEF Ordered
  <2>2. CASE i \in 1 .. Len(s) /\ j = Len(s) + 1
    BY <2>2, <1>1, <1>3 DEF Has
  <2>3. CASE i = Len(s) + 1
    <3>1. j # Len(s) + 1
      BY <2>3, <1>1, <1>3
    <3> QED
      BY <3>1, <2>3, <1>1, <1>2
  <2> QED
    BY <2>1, <2>2, <2>3, <1>2
<1>4. ASSUME NEW x \in Messages, Has(t, x) PROVE Has(s, x) \/ x = m
  <2>1. PICK i \in 1 .. Len(t) : t[i] = x
    BY <1>4 DEF Has
  <2> QED
    BY <2>1, <1>1, <1>2 DEF Has
<1>5. Ordered(t)
  BY <1>3 DEF Ordered
<1> QED
  BY <1>1, <1>4, <1>5 DEF t

LEMMA TailOrdered ==
  ASSUME NEW s \in Seq(Messages), s # <<>>, Ordered(s)
  PROVE  /\ Head(s) \in Messages /\ Tail(s) \in Seq(Messages) /\ Ordered(Tail(s))
         /\ Len(Tail(s)) <= Len(s)
         /\ Has(s, Head(s)) /\ \A x \in Messages : Has(Tail(s), x) => Has(s, x)
         /\ Head(s) = "close" => ~Has(Tail(s), "request")
<1> DEFINE t == Tail(s)
<1>1. /\ Head(s) \in Messages /\ t \in Seq(Messages)
      /\ Len(s) \in Nat /\ Len(s) > 0 /\ Len(t) = Len(s) - 1
      /\ Head(s) = s[1]
      /\ \A i \in 1 .. Len(t) : t[i] = s[i + 1]
  BY HeadTailProperties, EmptySeq
<1> HIDE DEF t
<1>2. \A i \in 1 .. Len(t) : i + 1 \in 1 .. Len(s)
  BY <1>1
<1>3. Ordered(t)
  <2>1. ASSUME NEW i \in 1 .. Len(t), NEW j \in 1 .. Len(t),
               t[i] = "close", t[j] = "request"
        PROVE  j < i
    <3>1. j + 1 < i + 1
      BY <2>1, <1>1, <1>2 DEF Ordered
    <3> QED
      BY <3>1
  <2> QED
    BY <2>1 DEF Ordered
<1>4. Has(s, Head(s)) /\ \A x \in Messages : Has(t, x) => Has(s, x)
  BY <1>1, <1>2 DEF Has
<1>5. Head(s) = "close" => ~Has(t, "request")
  <2> SUFFICES ASSUME s[1] = "close", NEW j \in 1 .. Len(t), t[j] = "request" PROVE FALSE
    BY <1>1 DEF Has
  <2>1. j + 1 < 1
    BY <1>1, <1>2 DEF Ordered
  <2> QED
    BY <2>1
<1> QED
  BY <1>1, <1>3, <1>4, <1>5 DEF t

LEMMA ConcatOrdered ==
  ASSUME NEW s \in Seq(Messages), NEW t \in Seq(Messages), Ordered(s), Ordered(t),
         Has(s, "close") => ~Has(t, "request")
  PROVE  /\ s \o t \in Seq(Messages) /\ Ordered(s \o t)
         /\ Has(s \o t, "close") => Has(s, "close") \/ Has(t, "close")
<1> DEFINE u == s \o t
<1>1. /\ u \in Seq(Messages) /\ Len(s) \in Nat /\ Len(t) \in Nat
      /\ Len(u) = Len(s) + Len(t)
      /\ \A i \in 1 .. Len(s) : u[i] = s[i]
      /\ \A i \in 1 .. Len(u) : i > Len(s) => u[i] = t[i - Len(s)]
  BY ConcatProperties
<1> HIDE DEF u
<1>2. \A i \in 1 .. Len(u) : i \in 1 .. Len(s)
                          \/ (i > Len(s) /\ i - Len(s) \in 1 .. Len(t))
  BY <1>1
<1>3. ASSUME NEW i \in 1 .. Len(u), NEW j \in 1 .. Len(u),
             u[i] = "close", u[j] = "request"
      PROVE  j < i
  <2>1. CASE i \in 1 .. Len(s) /\ j \in 1 .. Len(s)
    BY <2>1, <1>1, <1>3 DEF Ordered
  <2>2. CASE i \in 1 .. Len(s) /\ j > Len(s) /\ j - Len(s) \in 1 .. Len(t)
    BY <2>2, <1>1, <1>3 DEF Has
  <2>3. CASE i > Len(s) /\ j \in 1 .. Len(s)
    BY <2>3, <1>1
  <2>4. CASE /\ i > Len(s) /\ i - Len(s) \in 1 .. Len(t)
             /\ j > Len(s) /\ j - Len(s) \in 1 .. Len(t)
    <3>1. j - Len(s) < i - Len(s)
      BY <2>4, <1>1, <1>3 DEF Ordered
    <3> QED
      BY <3>1, <1>1
  <2> QED
    BY <2>1, <2>2, <2>3, <2>4, <1>2
<1>4. Ordered(u)
  BY <1>3 DEF Ordered
<1>5. Has(u, "close") => Has(s, "close") \/ Has(t, "close")
  BY <1>1, <1>2 DEF Has
<1> QED
  BY <1>1, <1>4, <1>5 DEF u

(* The inductive invariant.  AllEnded is what main waits for before Close: *)
(* from then on no request is made, and before that nothing is closed and  *)
(* no close frame is queued.                                               *)

AllEnded == starter = "ended" /\ \A w \in Workers : worker[w] = "ended"

Closing == main \in {"set", "goodbye", "closeSend", "closeRead", "dump"}

ClosedInv == sendClosed \/ readClosed \/ Closing => AllEnded

Writing(m) == writer = "writing" /\ writing = m

GoodbyeInv ==
  Has(written, "close") \/ Writing("close") \/ Has(sendCh, "close") => AllEnded

OrderInv ==
  /\ Ordered(written) /\ Ordered(sendCh)
  /\ Has(written, "close") => ~Writing("request")
  /\ Has(written, "close") \/ Writing("close") => ~Has(sendCh, "request")

IInv == TypeOK /\ ClosedInv /\ GoodbyeInv /\ OrderInv

LEMMA InitIInv == Init => IInv
<1> SUFFICES ASSUME Init PROVE IInv
  OBVIOUS
<1>1. /\ sendCh = <<"request">> /\ written = <<>> /\ writer = "waiting"
      /\ Len(sendCh) = 1 /\ Len(written) = 0 /\ sendCh[1] = "request"
  BY DEF Init
<1>2. TypeOK
  <2>1. sendCh \in Seq(Messages) /\ written \in Seq(Messages) /\ Len(sendCh) <= SendCap
    BY <1>1, CapAssumption DEF Messages
  <2>2. /\ readCh \in 0 .. ReadCap /\ requests \in 0 .. MaxRequests
        /\ reads \in 0 .. MaxMessages /\ pings \in 0 .. MaxPings
    BY CapAssumption, BoundAssumption DEF Init
  <2>3. /\ isClosed \in BOOLEAN /\ sendClosed \in BOOLEAN /\ readClosed \in BOOLEAN
        /\ ctxDone \in BOOLEAN /\ armed \in BOOLEAN
    BY DEF Init
  <2>4. /\ reader = "reading" /\ writer = "waiting" /\ writing = "ping"
        /\ pinger = "waiting" /\ worker = [w \in Workers |-> "working"]
        /\ starter = "running" /\ main = "auth" /\ conn = "up" /\ exit = "no"
    BY DEF Init
  <2> QED
    BY <2>1, <2>2, <2>3, <2>4 DEF TypeOK, Messages
<1>3. ClosedInv
  BY DEF Init, ClosedInv, Closing
<1>4. /\ ~Has(written, "close") /\ ~Has(sendCh, "close") /\ ~Writing("close")
      /\ Ordered(written) /\ Ordered(sendCh)
  BY <1>1 DEF Has, Ordered, Writing
<1> QED
  BY <1>2, <1>3, <1>4 DEF IInv, GoodbyeInv, OrderInv

(* Steps that queue nothing, write nothing and start nothing.              *)

\* What has ended stays ended, and the queue is left alone.
LEMMA QueueKept ==
  ASSUME IInv, TypeOK',
         UNCHANGED <<writer, writing, sendCh, sendClosed, written>>,
         AllEnded => AllEnded',
         readClosed' \/ Closing' => readClosed \/ Closing
  PROVE  IInv'
  BY DEF IInv, ClosedInv, GoodbyeInv, OrderInv, Writing

LEMMA ReaderStep ==
  ASSUME IInv, Read \/ ReadSends \/ ReadEnds PROVE IInv'
<1>1. UNCHANGED <<writer, writing, pinger, worker, starter, main, conn, isClosed, sendCh,
                  sendClosed, readClosed, ctxDone, armed, requests, pings, written>>
  BY DEF Read, ReadSends, ReadEnds, chans, count
<1>2. /\ reader' \in {"reading", "sending", "ok", "failed"}
      /\ readCh' \in 0 .. ReadCap /\ reads' \in 0 .. MaxMessages
      /\ exit' \in {"no", "done", "killed", "panic"}
  BY CapAssumption, BoundAssumption
  DEF Read, ReadSends, ReadEnds, chans, count, Panic, Alive, IInv, TypeOK
<1>3. TypeOK'
  BY <1>1, <1>2 DEF IInv, TypeOK
<1> QED
  BY <1>1, <1>3, QueueKept DEF AllEnded, Closing

\* Workers and WS.Start end, and nothing else of theirs touches the queue.
LEMMA GroupStep ==
  ASSUME IInv,
         \/ \E w \in Workers : Requesting(w) \/ WorkerEnds(w) \/ WorkerFails(w)
         \/ StarterTakes \/ StarterEnds
  PROVE  IInv'
<1>1. UNCHANGED <<reader, writer, writing, pinger, main, conn, isClosed, sendCh, sendClosed,
                  readClosed, armed, exit, reads, pings, written>>
  BY DEF Requesting, WorkerEnds, WorkerFails, StarterTakes, StarterEnds, chans, count, procs
<1>2. /\ requests' \in 0 .. MaxRequests
      /\ readCh' \in 0 .. ReadCap
      /\ starter' \in {"running", "ended"}
  BY CapAssumption, BoundAssumption
  DEF Requesting, WorkerEnds, WorkerFails, StarterTakes, StarterEnds, chans, count, procs,
      IInv, TypeOK
<1>3. ctxDone' \in BOOLEAN
  BY DEF Requesting, WorkerEnds, WorkerFails, StarterTakes, StarterEnds, IInv, TypeOK
<1>4. worker' \in [Workers -> {"working", "sending", "ended"}]
  BY DEF Requesting, WorkerEnds, WorkerFails, StarterTakes, StarterEnds, procs, IInv, TypeOK
<1>5. AllEnded => AllEnded'
  BY DEF Requesting, WorkerEnds, WorkerFails, StarterTakes, StarterEnds, procs, AllEnded,
         IInv, TypeOK
<1>6. TypeOK'
  BY <1>1, <1>2, <1>3, <1>4 DEF IInv, TypeOK
<1> QED
  BY <1>1, <1>5, <1>6, QueueKept DEF Closing

\* main, the manager and the world, but for the close frame and the channels.
LEMMA WorldStep ==
  ASSUME IInv,
         \/ Tick \/ Authorised \/ CloseSets \/ MainReturns
         \/ Signal \/ WsGroupFailed \/ Killed \/ ConnectionEnds
  PROVE  IInv'
<1>1. UNCHANGED <<reader, writer, writing, worker, starter, sendCh, sendClosed, readClosed,
                  requests, reads, written>>
  BY DEF Tick, Authorised, CloseSets, MainReturns, Signal, WsGroupFailed, Killed,
         ConnectionEnds, chans, count, procs
<1>2. /\ pinger' \in {"waiting", "sending"}
      /\ pings' \in 0 .. MaxPings
      /\ readCh' \in 0 .. ReadCap
      /\ conn' \in {"up", "closed", "broken"}
      /\ exit' \in {"no", "done", "killed", "panic"}
      /\ main' \in {"auth", "running", "set", "goodbye", "closeSend", "closeRead",
                    "dump", "over"}
  BY CapAssumption, BoundAssumption
  DEF Tick, Authorised, CloseSets, MainReturns, Signal, WsGroupFailed, Killed,
      ConnectionEnds, chans, count, procs, IInv, TypeOK
<1>3. isClosed' \in BOOLEAN /\ ctxDone' \in BOOLEAN /\ armed' \in BOOLEAN
  BY DEF Tick, Authorised, CloseSets, MainReturns, Signal, WsGroupFailed, Killed,
         ConnectionEnds, Interrupt, IInv, TypeOK
<1>4. Closing' => Closing
  BY DEF Tick, Authorised, CloseSets, MainReturns, Signal, WsGroupFailed, Killed,
         ConnectionEnds, procs, Closing
<1>5. TypeOK'
  BY <1>1, <1>2, <1>3 DEF IInv, TypeOK
<1> QED
  BY <1>1, <1>4, <1>5, QueueKept DEF AllEnded

(* Steps that queue a message.                                             *)

\* A message is appended to sendCh: a close frame only when all have ended, a
\* request only before.
LEMMA QueueGrows ==
  ASSUME IInv, NEW m \in Messages, Enqueue(m),
         UNCHANGED <<writer, writing, written, AllEnded>>,
         m = "request" => ~AllEnded,
         m = "close" => AllEnded
  PROVE  /\ sendCh' \in Seq(Messages) /\ Len(sendCh') <= SendCap
         /\ exit' \in {"no", "done", "killed", "panic"}
         /\ GoodbyeInv' /\ OrderInv'
<1>1. exit' \in {"no", "done", "killed", "panic"}
  BY DEF Enqueue, Panic, IInv, TypeOK
<1>2. CASE UNCHANGED sendCh
  BY <1>1, <1>2 DEF IInv, TypeOK, GoodbyeInv, OrderInv, Writing
<1>3. CASE Len(sendCh) < SendCap /\ sendCh' = Append(sendCh, m)
  <2>1. sendCh \in Seq(Messages) /\ Ordered(sendCh) /\ (m = "request" => ~Has(sendCh, "close"))
    BY DEF IInv, TypeOK, OrderInv, GoodbyeInv
  <2>2. /\ sendCh' \in Seq(Messages) /\ Ordered(sendCh')
        /\ \A x \in Messages : Has(sendCh', x) => Has(sendCh, x) \/ x = m
    BY <2>1, <1>3, AppendOrdered
  <2>3. Len(sendCh') <= SendCap
    BY <2>1, <1>3, AppendProperties, CapAssumption
  <2>4. /\ Has(sendCh', "close") => Has(sendCh, "close") \/ m = "close"
        /\ Has(sendCh', "request") => Has(sendCh, "request") \/ m = "request"
    BY <2>2 DEF Messages
  <2>5. GoodbyeInv'
    BY <2>4 DEF IInv, GoodbyeInv, Writing
  <2>6. OrderInv'
    BY <2>2, <2>4 DEF IInv, GoodbyeInv, OrderInv, Writing
  <2> QED
    BY <2>2, <2>3, <2>5, <2>6, <1>1
<1> QED
  BY <1>2, <1>3 DEF Enqueue

LEMMA PingStep ==
  ASSUME IInv, PingSends PROVE IInv'
<1>1. /\ Enqueue("ping") /\ pinger' = "waiting"
      /\ UNCHANGED <<reader, writer, writing, worker, starter, main, conn, isClosed,
                     sendClosed, readCh, readClosed, ctxDone, armed, count>>
  BY DEF PingSends
<1>2. UNCHANGED <<written, AllEnded>> /\ "ping" \in Messages
  BY <1>1 DEF count, AllEnded, Messages
<1>3. /\ sendCh' \in Seq(Messages) /\ Len(sendCh') <= SendCap
      /\ exit' \in {"no", "done", "killed", "panic"}
      /\ GoodbyeInv' /\ OrderInv'
  BY <1>1, <1>2, QueueGrows
<1>4. TypeOK'
  BY <1>1, <1>3 DEF IInv, TypeOK, count
<1>5. ClosedInv'
  BY <1>1, <1>2 DEF IInv, ClosedInv, Closing
<1> QED
  BY <1>3, <1>4, <1>5 DEF IInv

LEMMA SendsStep ==
  ASSUME IInv, NEW w \in Workers, Sends(w) PROVE IInv'
<1>1. /\ Enqueue("request") /\ worker[w] = "sending"
      /\ worker' = [worker EXCEPT ![w] = "working"]
      /\ UNCHANGED <<reader, writer, writing, pinger, starter, main, conn, isClosed,
                     sendClosed, readCh, readClosed, ctxDone, armed, count>>
  BY DEF Sends
<1>2. ~AllEnded /\ ~AllEnded'
  BY <1>1 DEF AllEnded, IInv, TypeOK
<1>3. UNCHANGED written /\ "request" \in Messages
  BY <1>1 DEF count, Messages
<1>4. /\ sendCh' \in Seq(Messages) /\ Len(sendCh') <= SendCap
      /\ exit' \in {"no", "done", "killed", "panic"}
      /\ GoodbyeInv' /\ OrderInv'
  <2>1. UNCHANGED AllEnded
    BY <1>2 DEF AllEnded
  <2> QED
    BY <2>1, <1>1, <1>2, <1>3, QueueGrows
<1>5. worker' \in [Workers -> {"working", "sending", "ended"}]
  BY <1>1 DEF IInv, TypeOK
<1>6. TypeOK'
  BY <1>1, <1>4, <1>5 DEF IInv, TypeOK, count
<1>7. ClosedInv'
  BY <1>1, <1>2 DEF IInv, ClosedInv, Closing
<1> QED
  BY <1>4, <1>6, <1>7 DEF IInv

\* Close: main has waited for the group.
LEMMA CloseStep ==
  ASSUME IInv, GroupWaited \/ CloseSaysGoodbye \/ CloseSendCh \/ CloseReadCh PROVE IInv'
<1>1. CASE GroupWaited
  <2>1. AllEnded /\ AllEnded'
    BY <1>1 DEF GroupWaited, AllEnded
  <2>2. TypeOK'
    BY <1>1 DEF GroupWaited, IInv, TypeOK, chans, count
  <2> QED
    BY <2>1, <2>2, <1>1
    DEF GroupWaited, IInv, ClosedInv, GoodbyeInv, OrderInv, Writing, chans, count
<1>2. CASE CloseSaysGoodbye
  <2>1. /\ Enqueue("close") /\ main = "goodbye" /\ main' = "closeSend"
        /\ UNCHANGED <<reader, writer, writing, pinger, worker, starter, conn, isClosed,
                       sendClosed, readCh, readClosed, ctxDone, armed, count>>
    BY <1>2 DEF CloseSaysGoodbye
  <2>2. AllEnded /\ AllEnded'
    BY <2>1 DEF IInv, ClosedInv, Closing, AllEnded
  <2>3. UNCHANGED <<written, AllEnded>> /\ "close" \in Messages
    BY <2>1 DEF count, Messages, AllEnded
  <2>4. /\ sendCh' \in Seq(Messages) /\ Len(sendCh') <= SendCap
        /\ exit' \in {"no", "done", "killed", "panic"}
        /\ GoodbyeInv' /\ OrderInv'
    BY <2>1, <2>2, <2>3, QueueGrows
  <2>5. TypeOK'
    BY <2>1, <2>4 DEF IInv, TypeOK, count
  <2> QED
    BY <2>2, <2>4, <2>5 DEF IInv, ClosedInv
<1>3. CASE CloseSendCh \/ CloseReadCh
  <2>1. /\ main \in {"closeSend", "closeRead"}
        /\ UNCHANGED <<reader, writer, writing, pinger, worker, starter, conn, isClosed,
                       sendCh, readCh, ctxDone, armed, exit, count>>
    BY <1>3 DEF CloseSendCh, CloseReadCh
  <2>2. AllEnded /\ AllEnded'
    BY <2>1 DEF IInv, ClosedInv, Closing, AllEnded
  <2>3. /\ sendClosed' \in BOOLEAN /\ readClosed' \in BOOLEAN
        /\ main' \in {"closeRead", "dump"}
    BY <1>3 DEF CloseSendCh, CloseReadCh, IInv, TypeOK
  <2>4. TypeOK'
    BY <2>1, <2>3 DEF IInv, TypeOK, count
  <2> QED
    BY <2>1, <2>2, <2>4 DEF IInv, ClosedInv, GoodbyeInv, OrderInv, Writing, count
<1> QED
  BY <1>1, <1>2, <1>3

(* Steps of write: the message goes from sendCh to the exchange, or is     *)
(* lost.                                                                   *)

LEMMA WriteTakesStep ==
  ASSUME IInv, WriteTakes PROVE IInv'
<1>1. /\ writer = "waiting"
      /\ UNCHANGED <<reader, pinger, worker, starter, main, conn, isClosed,
                     sendClosed, readCh, readClosed, ctxDone, armed, exit, count>>
  BY DEF WriteTakes
<1>2. UNCHANGED AllEnded /\ UNCHANGED written
  BY <1>1 DEF AllEnded, count
<1>3. ClosedInv'
  BY <1>1, <1>2 DEF IInv, ClosedInv, Closing
<1>4. CASE writer' = "ok" /\ UNCHANGED <<writing, sendCh>>
  <2>1. TypeOK'
    BY <1>1, <1>4 DEF IInv, TypeOK, count
  <2> QED
    BY <2>1, <1>1, <1>2, <1>3, <1>4 DEF IInv, GoodbyeInv, OrderInv, Writing
<1>5. CASE /\ sendCh # <<>> /\ writing' = Head(sendCh) /\ sendCh' = Tail(sendCh)
           /\ writer' = "writing"
  <2>1. sendCh \in Seq(Messages) /\ Ordered(sendCh) /\ Len(sendCh) <= SendCap
    BY DEF IInv, TypeOK, OrderInv
  <2>2. /\ writing' \in Messages /\ sendCh' \in Seq(Messages) /\ Ordered(sendCh')
        /\ Len(sendCh') <= Len(sendCh)
        /\ Has(sendCh, writing')
        /\ \A x \in Messages : Has(sendCh', x) => Has(sendCh, x)
        /\ writing' = "close" => ~Has(sendCh', "request")
    BY <2>1, <1>5, TailOrdered
  <2>3. Len(sendCh') <= SendCap
    BY <2>1, <2>2, CapAssumption
  <2>4. /\ Has(sendCh', "close") => Has(sendCh, "close")
        /\ Has(sendCh', "request") => Has(sendCh, "request")
    BY <2>2 DEF Messages
  <2>5. TypeOK'
    BY <2>2, <2>3, <1>1, <1>5 DEF IInv, TypeOK, count
  <2>6. GoodbyeInv'
    BY <2>2, <2>4, <1>2 DEF IInv, GoodbyeInv, Writing
  <2>7. OrderInv'
    BY <2>2, <2>4, <1>2, <1>5 DEF IInv, OrderInv, Writing
  <2> QED
    BY <2>5, <2>6, <2>7, <1>3 DEF IInv
<1> QED
  BY <1>4, <1>5 DEF WriteTakes

LEMMA WriteStep ==
  ASSUME IInv, Write \/ WriteFails PROVE IInv'
<1>1. /\ writer = "writing"
      /\ UNCHANGED <<reader, writing, pinger, worker, starter, main, isClosed, chans,
                     ctxDone, armed, exit, requests, reads, pings>>
  BY DEF Write, WriteFails, count
<1>2. writer' \in {"waiting", "failed"} /\ conn' \in {"up", "closed", "broken"}
  BY DEF Write, WriteFails, IInv, TypeOK
<1>3. UNCHANGED AllEnded /\ UNCHANGED <<sendCh, sendClosed, readClosed>>
  BY <1>1 DEF AllEnded, chans
<1>4. ClosedInv'
  BY <1>1, <1>3 DEF IInv, ClosedInv, Closing
<1>5. written' = written \/ written' = Append(written, writing)
  BY DEF Write, WriteFails, count
<1>6. CASE written' = written
  <2>1. TypeOK'
    BY <1>1, <1>2, <1>6 DEF IInv, TypeOK, chans
  <2> QED
    BY <2>1, <1>2, <1>3, <1>4, <1>6 DEF IInv, GoodbyeInv, OrderInv, Writing
<1>7. CASE written' = Append(written, writing)
  <2>1. /\ written \in Seq(Messages) /\ writing \in Messages /\ Ordered(written)
        /\ writing = "request" => ~Has(written, "close")
    BY <1>1 DEF IInv, TypeOK, OrderInv, Writing
  <2>2. /\ written' \in Seq(Messages) /\ Ordered(written')
        /\ \A x \in Messages : Has(written', x) => Has(written, x) \/ x = writing
    BY <2>1, <1>7, AppendOrdered
  <2>3. Has(written', "close") => Has(written, "close") \/ Writing("close")
    BY <2>2, <1>1 DEF Messages, Writing
  <2>4. TypeOK'
    BY <2>2, <1>1, <1>2 DEF IInv, TypeOK, chans
  <2>5. GoodbyeInv'
    BY <2>3, <1>2, <1>3 DEF IInv, GoodbyeInv, Writing
  <2>6. OrderInv'
    BY <2>2, <2>3, <1>2, <1>3 DEF IInv, OrderInv, Writing
  <2> QED
    BY <2>4, <2>5, <2>6, <1>4 DEF IInv
<1> QED
  BY <1>5, <1>6, <1>7

LEMMA NextIInv == IInv /\ [Next]_vars => IInv'
<1> SUFFICES ASSUME IInv, [Next]_vars PROVE IInv'
  OBVIOUS
<1>1. CASE Next
  BY <1>1, ReaderStep, GroupStep, WorldStep, PingStep, SendsStep, CloseStep,
     WriteTakesStep, WriteStep
  DEF Next, Close
<1>2. CASE UNCHANGED vars
  <2>1. TypeOK'
    BY <1>2 DEF vars, IInv, TypeOK
  <2> QED
    BY <2>1, <1>2, QueueKept DEF vars, AllEnded, Closing
<1> QED
  BY <1>1, <1>2

LEMMA IInvSafe == IInv => ClosesLast
<1> SUFFICES ASSUME IInv PROVE ClosesLast
  OBVIOUS
<1>1. GroupNeverMeetsClosed
  BY DEF IInv, ClosedInv, AllEnded, GroupNeverMeetsClosed
<1>2. RequestsBeforeGoodbye
  <2> DEFINE mid == IF writer = "writing" THEN <<writing>> ELSE <<>>
  <2>1. /\ written \in Seq(Messages) /\ sendCh \in Seq(Messages) /\ writing \in Messages
        /\ Ordered(written) /\ Ordered(sendCh)
    BY DEF IInv, TypeOK, OrderInv
  <2>2. /\ mid \in Seq(Messages) /\ Ordered(mid)
        /\ Has(mid, "request") => Writing("request")
        /\ Has(mid, "close") => Writing("close")
    <3>1. CASE writer = "writing"
      <4>1. mid = <<writing>> /\ mid \in Seq(Messages) /\ Len(mid) = 1 /\ mid[1] = writing
        BY <3>1, <2>1
      <4> HIDE DEF mid
      <4> QED
        BY <4>1, <3>1 DEF Ordered, Has, Writing
    <3>2. CASE writer # "writing"
      <4>1. mid = <<>> /\ mid \in Seq(Messages) /\ Len(mid) = 0
        BY <3>2
      <4> HIDE DEF mid
      <4> QED
        BY <4>1 DEF Ordered, Has
    <3> QED
      BY <3>1, <3>2
  <2> HIDE DEF mid
  <2>3. Has(written, "close") => ~Has(mid, "request")
    BY <2>2 DEF IInv, OrderInv
  <2>4. /\ written \o mid \in Seq(Messages) /\ Ordered(written \o mid)
        /\ Has(written \o mid, "close") => Has(written, "close") \/ Has(mid, "close")
    BY <2>1, <2>2, <2>3, ConcatOrdered
  <2>5. Has(written \o mid, "close") => ~Has(sendCh, "request")
    BY <2>2, <2>4 DEF IInv, OrderInv
  <2>6. Ordered((written \o mid) \o sendCh)
    BY <2>1, <2>4, <2>5, ConcatOrdered
  <2>7. Queue = (written \o mid) \o sendCh
    BY DEF Queue, mid
  <2> QED
    BY <2>6, <2>7 DEF RequestsBeforeGoodbye, Ordered
<1> QED
  BY <1>1, <1>2 DEF ClosesLast, IInv

\* However connection, timers, signals and errors of goroutines fall: who sends to
\* the client's channels, but for read and the pinger, has ended before they are
\* closed, and no request is queued or written behind the close frame.
THEOREM ClientClosesLast == Spec => []ClosesLast
<1> QED
  BY InitIInv, NextIInv, IInvSafe, PTL DEF Spec
===============================================================================
