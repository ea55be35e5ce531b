---------------------------- MODULE BrokerProofs ----------------------------
(***************************************************************************)
(* The broker's fan-out is safe, and implements PubSub, for any number of  *)
(* channels and publishers, any capacities and any number of messages.     *)
(***************************************************************************)
EXTENDS Broker, SequenceTheorems, TLAPS

(* The inductive invariant, part by part.                                  *)

\* What the fan-out loop still has to visit, or is sending to, is registered:
\* the goroutine that removes subscribers is the one that runs the loop.
LoopInv ==
  /\ todo \subseteq subscribers
  /\ pc = "select" => todo = {}
  /\ \A c \in Chans : Len(buf[c]) <= ChanCap
  /\ pc = "send" => /\ target \in subscribers
                    /\ target \notin todo
                    /\ Len(buf[target]) < ChanCap

\* A channel goes through new, waiting, registered, closed, and never back.
LifeInv ==
  /\ subscribers \cap closed = {}
  /\ subCh # NoChan => /\ subCh \notin subscribers \cup closed
                       /\ phase[subCh] # "new"
  /\ unsubCh # NoChan => phase[unsubCh] = "left"
  /\ \A c \in Chans : phase[c] = "new" => c \notin subscribers \cup closed
  /\ \A c \in closed : phase[c] = "left"

\* Message numbers: what is queued has been accepted and not been handled, and
\* a channel still to be visited has been given older messages only.
Awaited(c) == c \in todo \/ (pc = "send" /\ target = c)

CountInv ==
  /\ published = handled + Len(publishCh)
  /\ \A c \in Chans : since[c] <= handled
  /\ \A c \in Chans : \A i \in 1..Len(delivered[c]) : delivered[c][i] <= handled
  /\ \A c \in Chans : Awaited(c) =>
       /\ since[c] < handled
       /\ \A i \in 1..Len(delivered[c]) : delivered[c][i] < handled

IInv == TypeOK /\ LoopInv /\ LifeInv /\ CountInv

LEMMA InitIInv == Init => IInv
  BY CapAssumption DEF Init, IInv, TypeOK, LoopInv, LifeInv, CountInv, Awaited

(* One lemma per part: every step of Next preserves it.                     *)

\* Variables keep their types.
LEMMA TypeStep ==
  ASSUME IInv, [Next]_vars PROVE TypeOK'
<1> USE NoChanAssumption, CapAssumption DEF IInv, TypeOK, LoopInv
<1>1. CASE \E c \in Chans : Subscribe(c)
  BY <1>1 DEF Subscribe, chans, loop, history
<1>2. CASE \E c \in Chans : Unsubscribe(c)
  BY <1>2 DEF Unsubscribe, chans, loop, history
<1>3. CASE \E c \in Chans : Receive(c)
  <2>1. PICK c \in Chans : Receive(c)
    BY <1>3
  <2>2. Tail(buf[c]) \in Seq(Nat)
    BY <2>1 DEF Receive
  <2>3. buf' \in [Chans -> Seq(Nat)]
    BY <2>1, <2>2 DEF Receive
  <2> QED
    BY <2>1, <2>3 DEF Receive, loop, history
<1>4. CASE \E p \in Publishers : CallPublish(p)
  BY <1>4 DEF CallPublish, chans, loop, history
<1>5. CASE \E p \in Publishers : Publish(p)
  <2>1. PICK p \in Publishers : Publish(p)
    BY <1>5
  <2>2. /\ publishCh' \in Seq(Nat)
        /\ Len(publishCh) \in Nat
        /\ Len(publishCh') = Len(publishCh) + 1
        /\ published' = published + 1
    BY <2>1, published + 1 \in Nat, AppendProperties DEF Publish
  <2> QED
    <3>1. Len(publishCh') <= PublishCap
      BY <2>1, <2>2 DEF Publish
    <3>2. published' \in Nat /\ calling' \in SUBSET Publishers
      BY <2>1, <2>2 DEF Publish
    <3> QED
      BY <2>1, <2>2, <3>1, <3>2 DEF Publish, loop, history
<1>6. CASE Register
  BY <1>6 DEF Register, chans, loop, history
<1>7. CASE Remove
  BY <1>7 DEF Remove, chans, loop, history
<1>8. CASE Take
  <2>1. /\ publishCh' \in Seq(Nat)
        /\ Len(publishCh) \in Nat
        /\ Len(publishCh') = Len(publishCh) - 1
    BY <1>8, HeadTailProperties DEF Take
  <2> QED
    <3>1. Len(publishCh') <= PublishCap
      BY <2>1
    <3>2. handled' \in Nat /\ todo' \in SUBSET Chans
      BY <1>8 DEF Take
    <3> QED
      BY <1>8, <2>1, <3>1, <3>2 DEF Take, history
<1>9. CASE \E c \in Chans : Visit(c)
  <2>1. PICK c \in Chans : Visit(c)
    BY <1>9
  <2>2. CASE Len(buf[c]) = ChanCap
    <3>1. missed' = [missed EXCEPT ![c] = missed[c] + 1] /\ UNCHANGED <<pc, target>>
      BY <2>1, <2>2 DEF Visit
    <3>2. missed \in [Chans -> Nat]
      OBVIOUS
    <3>3. missed' \in [Chans -> Nat]
      <4> HIDE DEF IInv, TypeOK, LoopInv
      <4> QED
        BY <3>1, <3>2
    <3> QED
      BY <2>1, <3>1, <3>3 DEF Visit, chans
  <2>3. CASE Len(buf[c]) # ChanCap
    BY <2>1, <2>3 DEF Visit, chans
  <2> QED
    BY <2>2, <2>3
<1>10. CASE Send
  <2>1. target \in Chans
    BY <1>10 DEF Send
  <2>2. Append(buf[target], handled) \in Seq(Nat) /\ Append(delivered[target], handled) \in Seq(Nat)
    BY <2>1, AppendProperties
  <2>3. buf' \in [Chans -> Seq(Nat)] /\ delivered' \in [Chans -> Seq(Nat)]
    BY <1>10, <2>1, <2>2 DEF Send
  <2> QED
    BY <1>10, <2>3 DEF Send
<1>11. CASE LoopDone
  BY <1>11 DEF LoopDone, chans, loop, history
<1>12. CASE UNCHANGED vars
  BY <1>12 DEF vars
<1> QED
  BY <1>1, <1>2, <1>3, <1>4, <1>5, <1>6, <1>7, <1>8, <1>9, <1>10, <1>11, <1>12 DEF Next

\* Nobody but the broker touches the loop, and nobody but it fills a buffer.
LEMMA LoopStep ==
  ASSUME IInv, [Next]_vars PROVE LoopInv'
<1> USE NoChanAssumption, CapAssumption DEF IInv, TypeOK, LoopInv
<1>1. CASE \E c \in Chans : Subscribe(c)
  BY <1>1 DEF Subscribe, chans, loop, history
<1>2. CASE \E c \in Chans : Unsubscribe(c)
  BY <1>2 DEF Unsubscribe, chans, loop, history
<1>3. CASE \E c \in Chans : Receive(c)
  <2>1. PICK c \in Chans : Receive(c)
    BY <1>3
  <2>2. Len(Tail(buf[c])) = Len(buf[c]) - 1 /\ Len(buf[c]) \in Nat
    BY <2>1, HeadTailProperties DEF Receive
  <2>3. \A d \in Chans : Len(buf[d]) \in Nat /\ Len(buf[d]) <= ChanCap
    OBVIOUS
  <2>31. buf \in [Chans -> Seq(Nat)] /\ buf' = [buf EXCEPT ![c] = Tail(buf[c])]
    BY <2>1 DEF Receive
  <2>32. pc = "send" => target \in Chans /\ Len(buf[target]) < ChanCap
    OBVIOUS
  <2>33. \A d \in Chans : Len(buf'[d]) = IF d = c THEN Len(buf[d]) - 1 ELSE Len(buf[d])
    <3> HIDE DEF IInv, TypeOK, LoopInv
    <3> QED
      BY <2>2, <2>31
  <2>4. \A d \in Chans : Len(buf'[d]) <= ChanCap
    <3> HIDE DEF IInv, TypeOK, LoopInv
    <3> QED
      BY <2>3, <2>33
  <2>5. pc = "send" => Len(buf'[target]) < ChanCap
    <3> HIDE DEF IInv, TypeOK, LoopInv
    <3> QED
      BY <2>3, <2>32, <2>33
  <2> QED
    BY <2>1, <2>4, <2>5 DEF Receive, loop
<1>4. CASE \E p \in Publishers : CallPublish(p)
  BY <1>4 DEF CallPublish, chans, loop, history
<1>5. CASE \E p \in Publishers : Publish(p)
  BY <1>5 DEF Publish, chans, loop, history
<1>6. CASE Register
  BY <1>6 DEF Register, chans, loop, history
<1>7. CASE Remove
  BY <1>7 DEF Remove, chans, loop, history
<1>8. CASE Take
  BY <1>8 DEF Take, chans, loop, history
<1>9. CASE \E c \in Chans : Visit(c)
  <2>1. PICK c \in Chans : Visit(c)
    BY <1>9
  <2>2. c \in subscribers /\ todo' = todo \ {c} /\ buf' = buf /\ subscribers' = subscribers
    BY <2>1 DEF Visit, chans
  <2> Len(buf[c]) \in Nat
    BY <2>1
  <2>3. CASE Len(buf[c]) = ChanCap
    BY <2>1, <2>2, <2>3 DEF Visit
  <2>4. CASE Len(buf[c]) # ChanCap
    <3>1. pc' = "send" /\ target' = c
      BY <2>1, <2>4 DEF Visit
    <3>2. Len(buf[c]) < ChanCap
      BY <2>4
    <3> QED
      BY <2>2, <3>1, <3>2
  <2> QED
    BY <2>3, <2>4
<1>10. CASE Send
  <2>1. Len(Append(buf[target], handled)) = Len(buf[target]) + 1 /\ Len(buf[target]) \in Nat
    BY <1>10, AppendProperties DEF Send
  <2>2. \A d \in Chans : Len(buf'[d]) <= ChanCap
    BY <1>10, <2>1 DEF Send
  <2> QED
    BY <1>10, <2>2 DEF Send
<1>11. CASE LoopDone
  BY <1>11 DEF LoopDone, chans, loop, history
<1>12. CASE UNCHANGED vars
  BY <1>12 DEF vars
<1> QED
  BY <1>1, <1>2, <1>3, <1>4, <1>5, <1>6, <1>7, <1>8, <1>9, <1>10, <1>11, <1>12 DEF Next

\* A channel is handed over once and removed once.
LEMMA LifeStep ==
  ASSUME IInv, [Next]_vars PROVE LifeInv'
<1> USE NoChanAssumption, CapAssumption DEF IInv, TypeOK, LoopInv, LifeInv
<1>1. CASE \E c \in Chans : Subscribe(c)
  BY <1>1 DEF Subscribe, chans, loop, history
<1>2. CASE \E c \in Chans : Unsubscribe(c)
  BY <1>2 DEF Unsubscribe, chans, loop, history
<1>3. CASE \E c \in Chans : Receive(c)
  BY <1>3 DEF Receive, chans, loop, history
<1>4. CASE \E p \in Publishers : CallPublish(p)
  BY <1>4 DEF CallPublish, chans, loop, history
<1>5. CASE \E p \in Publishers : Publish(p)
  BY <1>5 DEF Publish, chans, loop, history
<1>6. CASE Register
  BY <1>6 DEF Register, chans, loop, history
<1>7. CASE Remove
  BY <1>7 DEF Remove, chans, loop, history
<1>8. CASE Take
  BY <1>8 DEF Take, chans, loop, history
<1>9. CASE \E c \in Chans : Visit(c)
  BY <1>9 DEF Visit, chans, loop, history
<1>10. CASE Send
  BY <1>10 DEF Send, chans, loop, history
<1>11. CASE LoopDone
  BY <1>11 DEF LoopDone, chans, loop, history
<1>12. CASE UNCHANGED vars
  BY <1>12 DEF vars
<1> QED
  BY <1>1, <1>2, <1>3, <1>4, <1>5, <1>6, <1>7, <1>8, <1>9, <1>10, <1>11, <1>12 DEF Next

\* The newest message is sent at most once to each registered channel.
LEMMA CountStep ==
  ASSUME IInv, [Next]_vars PROVE CountInv'
<1> USE NoChanAssumption, CapAssumption DEF IInv, TypeOK, LoopInv, LifeInv, CountInv, Awaited
<1>1. CASE \E c \in Chans : Subscribe(c)
  BY <1>1 DEF Subscribe, chans, loop, history
<1>2. CASE \E c \in Chans : Unsubscribe(c)
  BY <1>2 DEF Unsubscribe, chans, loop, history
<1>3. CASE \E c \in Chans : Receive(c)
  BY <1>3 DEF Receive, chans, loop, history
<1>4. CASE \E p \in Publishers : CallPublish(p)
  BY <1>4 DEF CallPublish, chans, loop, history
<1>5. CASE \E p \in Publishers : Publish(p)
  <2>1. PICK p \in Publishers : Publish(p)
    BY <1>5
  <2>2. /\ publishCh' \in Seq(Nat)
        /\ Len(publishCh) \in Nat
        /\ Len(publishCh') = Len(publishCh) + 1
        /\ published' = published + 1
    BY <2>1, published + 1 \in Nat, AppendProperties DEF Publish
  <2> QED
    BY <2>1, <2>2 DEF Publish, loop, history
<1>6. CASE Register
  BY <1>6 DEF Register, chans, loop, history
<1>7. CASE Remove
  BY <1>7 DEF Remove, chans, loop, history
<1>8. CASE Take
  <2>1. /\ publishCh' \in Seq(Nat)
        /\ Len(publishCh) \in Nat
        /\ Len(publishCh') = Len(publishCh) - 1
    BY <1>8, HeadTailProperties DEF Take
  <2>2. /\ handled' = handled + 1
        /\ UNCHANGED <<published, since, delivered>>
        /\ pc' = "loop"
    BY <1>8 DEF Take, history
  <2>3. published' = handled' + Len(publishCh')
    BY <2>1, <2>2
  <2>4. ASSUME NEW c \in Chans
        PROVE  since[c] < handled' /\ \A i \in 1..Len(delivered[c]) : delivered[c][i] < handled'
    <3>1. since[c] \in Nat /\ handled \in Nat /\ delivered[c] \in Seq(Nat)
      OBVIOUS
    <3>2. \A i \in 1..Len(delivered[c]) : delivered[c][i] \in Nat /\ delivered[c][i] <= handled
      <4>1. \A i \in 1..Len(delivered[c]) : delivered[c][i] <= handled
        OBVIOUS
      <4> HIDE DEF IInv, TypeOK, LoopInv, LifeInv, CountInv
      <4>2. \A i \in 1..Len(delivered[c]) : delivered[c][i] \in Nat
        BY <3>1, ElementOfSeq
      <4> QED
        BY <4>1, <4>2
    <3>3. since[c] <= handled
      OBVIOUS
    <3> HIDE DEF IInv, TypeOK, LoopInv, LifeInv, CountInv
    <3> QED
      BY <2>2, <3>1, <3>2, <3>3
  <2>5. \A c \in Chans : since'[c] <= handled' /\ \A i \in 1..Len(delivered'[c]) : delivered'[c][i] <= handled'
    <3>1. since \in [Chans -> Nat] /\ handled' \in Nat /\ delivered \in [Chans -> Seq(Nat)]
      BY <2>2
    <3> HIDE DEF IInv, TypeOK, LoopInv, LifeInv, CountInv
    <3>2. \A c \in Chans : \A i \in 1..Len(delivered[c]) : delivered[c][i] \in Nat
      BY <3>1
    <3> QED
      BY <2>2, <2>4, <3>1, <3>2
  <2> HIDE DEF TypeOK, LoopInv, LifeInv
  <2> QED
    BY <2>2, <2>3, <2>4, <2>5
<1>9. CASE \E c \in Chans : Visit(c)
  <2>1. PICK c \in Chans : Visit(c)
    BY <1>9
  <2>2. UNCHANGED <<published, handled, publishCh, since, delivered>>
    BY <2>1 DEF Visit, chans
  <2>3. \A d \in Chans : Awaited(d)' => Awaited(d)
    <3>1. CASE Len(buf[c]) = ChanCap
      BY <2>1, <3>1 DEF Visit
    <3>2. CASE Len(buf[c]) # ChanCap
      BY <2>1, <3>2 DEF Visit
    <3> QED
      BY <3>1, <3>2
  <2> HIDE DEF Awaited
  <2> QED
    BY <2>2, <2>3
<1>10. CASE Send
  <2>1. UNCHANGED <<published, handled, publishCh, since>>
    BY <1>10 DEF Send
  <2>2. \A d \in Chans : Awaited(d)' => d # target /\ Awaited(d)
    BY <1>10 DEF Send
  <2>3. \A d \in Chans \ {target} : delivered'[d] = delivered[d]
    BY <1>10 DEF Send
  <2>4. target \in Chans /\ delivered'[target] = Append(delivered[target], handled)
    BY <1>10 DEF Send
  <2>5. \A i \in 1..Len(delivered'[target]) : delivered'[target][i] <= handled
    BY <2>4, AppendProperties
  <2> HIDE DEF Awaited
  <2> QED
    BY <2>1, <2>2, <2>3, <2>5
<1>11. CASE LoopDone
  BY <1>11 DEF LoopDone, chans, loop, history
<1>12. CASE UNCHANGED vars
  BY <1>12 DEF vars
<1> QED
  BY <1>1, <1>2, <1>3, <1>4, <1>5, <1>6, <1>7, <1>8, <1>9, <1>10, <1>11, <1>12 DEF Next

LEMMA StepIInv == IInv /\ [Next]_vars => IInv'
  BY TypeStep, LoopStep, LifeStep, CountStep DEF IInv

LEMMA Invariance == Spec => []IInv
  BY InitIInv, StepIInv, PTL DEF Spec

-----------------------------------------------------------------------------
\* Type correctness of the broker for every instance.
THEOREM TypeCorrect == Spec => []TypeOK
  BY Invariance, PTL DEF IInv

\* The fan-out never sends to a full or to a closed channel (broker.go:57): it
\* neither blocks on a slow subscriber nor panics because of one that left.
THEOREM FanOutIsSafe == Spec => []SendIsSafe
<1>1. IInv => SendIsSafe
  BY DEF IInv, LoopInv, LifeInv, SendIsSafe
<1> QED
  BY <1>1, Invariance, PTL

\* No reader sees its channel closed before it has unsubscribed.
THEOREM ReadersStayOpen == Spec => []ClosedOnlyAfterLeaving
<1>1. IInv => ClosedOnlyAfterLeaving
  BY DEF IInv, LifeInv, ClosedOnlyAfterLeaving
<1> QED
  BY <1>1, Invariance, PTL

-----------------------------------------------------------------------------
(* Refinement: initial states map to initial states, and every step maps to *)
(* a step of PubSub or changes nothing PubSub sees.                        *)

LEMMA RefinesInit == Init => Abstract!Init
  BY DEF Init, Abstract!Init, memberOf

LEMMA RefinesStep ==
  ASSUME IInv, [Next]_vars PROVE [Abstract!Next]_Abstract!vars
<1> USE DEF Abstract!vars, memberOf
<1>1. CASE \E c \in Chans : Subscribe(c) \/ Unsubscribe(c) \/ Receive(c)
  BY <1>1 DEF Subscribe, Unsubscribe, Receive, history
<1>2. CASE \E p \in Publishers : CallPublish(p)
  BY <1>2 DEF CallPublish, chans, history
<1>3. CASE \E p \in Publishers : Publish(p)
  <2>1. Abstract!Accept
    BY <1>3 DEF Publish, history, Abstract!Accept
  <2> QED
    BY <2>1 DEF Abstract!Next
<1>4. CASE Register
  <2>1. PICK c \in Chans : c = subCh /\ c \notin subscribers /\ c \notin closed
    BY <1>4 DEF Register, IInv, TypeOK, LifeInv
  <2>2. Abstract!Join(c)
    BY <1>4, <2>1 DEF Register, Abstract!Join, IInv, TypeOK
  <2> QED
    BY <2>2 DEF Abstract!Next
<1>5. CASE Remove
  <2>1. CASE unsubCh \in subscribers
    <3>1. PICK c \in Chans : c = unsubCh /\ c \in subscribers /\ c \notin closed
      BY <2>1 DEF IInv, TypeOK, LifeInv
    <3>2. Abstract!Leave(c)
      BY <1>5, <3>1 DEF Remove, history, Abstract!Leave
    <3> QED
      BY <3>2 DEF Abstract!Next
  <2>2. CASE unsubCh \notin subscribers
    BY <1>5, <2>2 DEF Remove, history
  <2> QED
    BY <2>1, <2>2
<1>6. CASE Take
  <2>1. Len(publishCh) \in Nat \ {0}
    BY <1>6, EmptySeq DEF Take, IInv, TypeOK
  <2>2. Abstract!Dispatch
    BY <1>6, <2>1 DEF Take, history, Abstract!Dispatch, IInv, TypeOK, CountInv
  <2> QED
    BY <2>2 DEF Abstract!Next
<1>7. CASE \E c \in Chans : Visit(c)
  BY <1>7 DEF Visit, chans
<1>8. CASE Send
  <2>1. target \in Chans /\ target \in subscribers
    BY <1>8 DEF Send, IInv, TypeOK, LoopInv
  <2>2. /\ since[target] < handled
        /\ \A i \in 1..Len(delivered[target]) : delivered[target][i] < handled
    BY <1>8, <2>1 DEF Send, IInv, CountInv, Awaited
  <2>3. Abstract!Deliver(target)
    BY <1>8, <2>1, <2>2 DEF Send, Abstract!Deliver
  <2> QED
    BY <2>1, <2>3 DEF Abstract!Next
<1>9. CASE LoopDone
  BY <1>9 DEF LoopDone, chans, history
<1>10. CASE UNCHANGED vars
  BY <1>10 DEF vars
<1> QED
  BY <1>1, <1>2, <1>3, <1>4, <1>5, <1>6, <1>7, <1>8, <1>9, <1>10 DEF Next

\* The broker implements PubSub: what a subscriber is given is an ordered
\* selection of the messages handled while it is registered.
THEOREM BrokerImplementsPubSub == Spec => ImplementsPubSub
  BY RefinesInit, RefinesStep, Invariance, PTL DEF Spec, ImplementsPubSub, Abstract!Spec
-----------------------------------------------------------------------------
(* What a subscriber is given and what is dropped for it add up.           *)

\* A channel that was never registered has been given nothing.
AccountInv ==
  /\ EveryMessageAccounted
  /\ \A c \in Chans : c \notin subscribers \cup closed => /\ delivered[c] = <<>>
                                                           /\ missed[c] = 0

LEMMA InitAccount == Init => AccountInv
  BY DEF Init, AccountInv, EveryMessageAccounted

\* A step that neither sends, drops nor takes a message, and registers nobody.
LEMMA SameAccount ==
  ASSUME AccountInv, UNCHANGED <<delivered, missed, since, handled>>,
         subscribers' \subseteq subscribers,
         subscribers \cup closed \subseteq subscribers' \cup closed',
         \A c \in subscribers : Pending(c)' = Pending(c)
  PROVE  AccountInv'
<1>1. EveryMessageAccounted'
  <2> SUFFICES ASSUME NEW c \in subscribers'
               PROVE  Len(delivered'[c]) + missed'[c] + Pending(c)' = handled' - since'[c]
    BY DEF EveryMessageAccounted
  <2> QED
    BY DEF AccountInv, EveryMessageAccounted
<1> QED
  BY <1>1 DEF AccountInv

LEMMA AccountStep ==
  ASSUME IInv, AccountInv, [Next]_vars PROVE AccountInv'
<1>0. /\ subscribers \subseteq Chans /\ subscribers \cap closed = {}
      /\ todo \subseteq subscribers
      /\ handled \in Nat
      /\ \A c \in Chans : /\ since[c] \in Nat /\ missed[c] \in Nat
                          /\ delivered[c] \in Seq(Nat) /\ Len(delivered[c]) \in Nat
                          /\ Pending(c) \in {0, 1}
      /\ since \in [Chans -> Nat] /\ missed \in [Chans -> Nat]
      /\ delivered \in [Chans -> Seq(Nat)]
      /\ pc = "select" => todo = {}
  BY DEF IInv, TypeOK, LoopInv, LifeInv, Pending
<1>1. CASE \/ \E c \in Chans : Subscribe(c) \/ Unsubscribe(c) \/ Receive(c)
           \/ \E p \in Publishers : CallPublish(p) \/ Publish(p)
           \/ UNCHANGED vars
  <2>1. /\ UNCHANGED <<delivered, missed, since, handled, subscribers, closed, pc, todo, target>>
    BY <1>1 DEF Subscribe, Unsubscribe, Receive, CallPublish, Publish, vars, loop, history, chans
  <2> QED
    BY <2>1, SameAccount DEF Pending
<1>2. CASE Register
  <2>1. /\ subCh \in Chans /\ subCh \notin subscribers \cup closed
        /\ subscribers' = subscribers \cup {subCh}
        /\ since' = [since EXCEPT ![subCh] = handled]
        /\ UNCHANGED <<delivered, missed, handled, closed, pc, todo, target>>
        /\ pc = "select"
    BY <1>2 DEF Register, IInv, TypeOK, LifeInv, loop
  <2>2. delivered[subCh] = <<>> /\ missed[subCh] = 0
    BY <2>1 DEF AccountInv
  <2>3. \A c \in Chans : Pending(c)' = Pending(c)
    BY <2>1 DEF Pending
  <2>4. ASSUME NEW c \in subscribers'
        PROVE  Len(delivered'[c]) + missed'[c] + Pending(c)' = handled' - since'[c]
    <3>1. CASE c = subCh
      <4>1. since'[c] = handled
        BY <1>0, <2>1, <3>1
      <4>2. Pending(c)' = 0
        BY <1>0, <2>1 DEF Pending
      <4>3. Len(delivered'[c]) = 0 /\ missed'[c] = 0
        BY <2>1, <2>2, <3>1
      <4> QED
        BY <1>0, <2>1, <4>1, <4>2, <4>3
    <3>2. CASE c # subCh
      <4>1. c \in subscribers /\ since'[c] = since[c] /\ Pending(c)' = Pending(c)
        BY <1>0, <2>1, <2>3, <3>2
      <4> QED
        BY <2>1, <4>1 DEF AccountInv, EveryMessageAccounted
    <3> QED
      BY <3>1, <3>2
  <2>5. EveryMessageAccounted'
    BY <2>4 DEF EveryMessageAccounted
  <2> QED
    BY <2>1, <2>5 DEF AccountInv
<1>3. CASE Remove
  <2>1. /\ UNCHANGED <<delivered, missed, since, handled, pc, todo, target>>
        /\ subscribers' \subseteq subscribers
        /\ subscribers \cup closed \subseteq subscribers' \cup closed'
    BY <1>3 DEF Remove, loop, history
  <2> QED
    BY <2>1, SameAccount DEF Pending
<1>4. CASE Take
  <2>1. /\ pc = "select" /\ pc' = "loop" /\ todo' = subscribers /\ handled' = handled + 1
        /\ UNCHANGED <<delivered, missed, since, subscribers, closed>>
    BY <1>4 DEF Take, history
  <2>2. ASSUME NEW c \in subscribers'
        PROVE  Len(delivered'[c]) + missed'[c] + Pending(c)' = handled' - since'[c]
    <3>1. Pending(c) = 0 /\ Pending(c)' = 1 /\ c \in subscribers /\ c \in Chans
      BY <1>0, <2>1 DEF Pending
    <3>2. Len(delivered[c]) + missed[c] + Pending(c) = handled - since[c]
      BY <3>1 DEF AccountInv, EveryMessageAccounted
    <3> QED
      BY <1>0, <2>1, <3>1, <3>2
  <2>3. EveryMessageAccounted'
    BY <2>2 DEF EveryMessageAccounted
  <2> QED
    BY <2>1, <2>3 DEF AccountInv
<1>5. CASE \E c \in Chans : Visit(c)
  <2>1. PICK c \in Chans : Visit(c)
    BY <1>5
  <2>2. /\ pc = "loop" /\ c \in todo /\ c \in subscribers /\ todo' = todo \ {c}
        /\ UNCHANGED <<delivered, since, handled, subscribers, closed>>
    BY <1>0, <2>1 DEF Visit, chans
  <2>3. CASE Len(buf[c]) = ChanCap
    <3>1. missed' = [missed EXCEPT ![c] = missed[c] + 1] /\ pc' = "loop"
      BY <2>1, <2>2, <2>3 DEF Visit
    <3>2. ASSUME NEW d \in subscribers'
          PROVE  Len(delivered'[d]) + missed'[d] + Pending(d)' = handled' - since'[d]
      <4>1. d \in subscribers /\ d \in Chans
        BY <1>0, <2>2
      <4>2. Len(delivered[d]) + missed[d] + Pending(d) = handled - since[d]
        BY <4>1 DEF AccountInv, EveryMessageAccounted
      <4>3. CASE d = c
        <5>1. missed'[d] = missed[d] + 1 /\ Pending(d) = 1 /\ Pending(d)' = 0
          BY <1>0, <2>2, <3>1, <4>1, <4>3 DEF Pending
        <5> QED
          BY <1>0, <2>2, <4>1, <4>2, <5>1
      <4>4. CASE d # c
        <5>1. missed'[d] = missed[d] /\ Pending(d)' = Pending(d)
          BY <1>0, <2>2, <3>1, <4>1, <4>4 DEF Pending
        <5> QED
          BY <2>2, <4>2, <5>1
      <4> QED
        BY <4>3, <4>4
    <3>3. EveryMessageAccounted'
      BY <3>2 DEF EveryMessageAccounted
    <3>4. \A d \in Chans : d \notin subscribers => missed'[d] = missed[d]
      BY <1>0, <2>2, <3>1
    <3> QED
      BY <2>2, <3>3, <3>4 DEF AccountInv
  <2>4. CASE Len(buf[c]) # ChanCap
    <3>1. pc' = "send" /\ target' = c /\ UNCHANGED missed
      BY <2>1, <2>4 DEF Visit
    <3>2. \A d \in Chans : Pending(d)' = Pending(d)
      BY <1>0, <2>2, <3>1 DEF Pending
    <3>3. \A d \in subscribers : Pending(d)' = Pending(d)
      BY <1>0, <3>2
    <3> QED
      BY <2>2, <3>1, <3>3, SameAccount
  <2> QED
    BY <2>3, <2>4
<1>6. CASE Send
  <2>1. /\ pc = "send" /\ pc' = "loop" /\ target \in subscribers /\ target \notin todo
        /\ delivered' = [delivered EXCEPT ![target] = Append(delivered[target], handled)]
        /\ UNCHANGED <<missed, since, handled, subscribers, closed, todo>>
    BY <1>6 DEF Send, IInv, LoopInv
  <2>2. ASSUME NEW d \in subscribers'
        PROVE  Len(delivered'[d]) + missed'[d] + Pending(d)' = handled' - since'[d]
    <3>1. d \in subscribers /\ d \in Chans
      BY <1>0, <2>1
    <3>2. Len(delivered[d]) + missed[d] + Pending(d) = handled - since[d]
      BY <3>1 DEF AccountInv, EveryMessageAccounted
    <3>3. CASE d = target
      <4>1. Pending(d) = 1 /\ Pending(d)' = 0
        BY <1>0, <2>1, <3>1, <3>3 DEF Pending
      <4>2. delivered'[d] = Append(delivered[d], handled)
        BY <1>0, <2>1, <3>1, <3>3
      <4>3. Len(delivered'[d]) = Len(delivered[d]) + 1
        BY <1>0, <3>1, <4>2, AppendProperties
      <4> QED
        BY <1>0, <2>1, <3>1, <3>2, <4>1, <4>3
    <3>4. CASE d # target
      <4>1. delivered'[d] = delivered[d] /\ Pending(d)' = Pending(d)
        BY <1>0, <2>1, <3>1, <3>4 DEF Pending
      <4> QED
        BY <2>1, <3>2, <4>1
    <3> QED
      BY <3>3, <3>4
  <2>3. EveryMessageAccounted'
    BY <2>2 DEF EveryMessageAccounted
  <2>4. \A d \in Chans : d \notin subscribers => delivered'[d] = delivered[d]
    BY <1>0, <2>1
  <2> QED
    BY <2>1, <2>3, <2>4 DEF AccountInv
<1>7. CASE LoopDone
  <2>1. /\ UNCHANGED <<delivered, missed, since, handled, subscribers, closed, todo, target>>
        /\ pc = "loop" /\ pc' = "select"
    BY <1>7 DEF LoopDone, chans, history
  <2> QED
    BY <2>1, SameAccount DEF Pending
<1> QED
  BY <1>1, <1>2, <1>3, <1>4, <1>5, <1>6, <1>7 DEF Next

\* Nothing is lost silently: what a registered channel was given and what was
\* dropped for it are all the messages handled since its registration, but for
\* the one whose fan-out has not reached it yet.
THEOREM NothingIsLostSilently == Spec => []EveryMessageAccounted
<1>1. Init => IInv /\ AccountInv
  BY InitIInv, InitAccount
<1>2. IInv /\ AccountInv /\ [Next]_vars => IInv' /\ AccountInv'
  BY StepIInv, AccountStep
<1>3. AccountInv => EveryMessageAccounted
  BY DEF AccountInv
<1> QED
  BY <1>1, <1>2, <1>3, PTL DEF Spec
=============================================================================
