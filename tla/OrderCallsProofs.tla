---------------------------- MODULE OrderCallsProofs ----------------------------
(***************************************************************************)
(* What the calls of the order service tell their callers is so, for any   *)
(* number of calls and of orders.                                          *)
(***************************************************************************)
EXTENDS OrderCalls, SequenceTheorems, FiniteSetTheorems, TLAPS

(* Queues of messages.                                                     *)

In(s, m) == \E i \in 1 .. Len(s) : s[i] = m

About(m, c, o) == m.caller = c /\ m.order = o

Mentions(s, c, o) == \E i \in 1 .. Len(s) : About(s[i], c, o)

Once(s, c, o) ==
  \A i, j \in 1 .. Len(s) : About(s[i], c, o) /\ About(s[j], c, o) => i = j

(* The inductive invariant, part by part.                                  *)

\* A call asks about its orders in turn and listens when it has asked about all;
\* it is subscribed, or about to be, from the call until it returns.
CallInv ==
  \A c \in Callers :
    /\ asked[c] \subseteq target[c]
    /\ c \notin Batches => \E o \in Orders : target[c] = {o}
    /\ pc[c] = "idle" => asked[c] = {}
    /\ pc[c] \in {"sent", "listening"} => asked[c] = target[c]
    /\ pc[c] \in {"idle", "sent", "ended"} => c \notin joining \cup registered
    /\ outcome[c] # "none" => pc[c] = "ended" /\ asked[c] = target[c]

\* A request is at the exchange, in its queue of answers, or was heard, and
\* never in two of these places.
RequestInv ==
  \A c \in Callers, o \in Orders :
    /\ <<c, o>> \in wire \cup heard => o \in asked[c]
    /\ <<c, o>> \notin wire \cap heard
    /\ Once(publishCh, c, o) /\ Once(inbox[c], c, o)
    /\ Mentions(publishCh, c, o) => o \in asked[c] /\ <<c, o>> \notin wire \cup heard
    /\ Mentions(inbox[c], c, o) => <<c, o>> \in heard

\* An order that is live now was live when it was asked about.
FreshInv ==
  \A c \in Getters : asked[c] # {} =>
    \A o \in target[c] : market[o] = "live" => atSend[c] = "live"

\* An answer under way is the truth, or was when the request was under way.
Truth(m) ==
  /\ m.caller \in Cancellers =>
       /\ m.result \in {"ok", "wasCancelled"} => market[m.order] = "cancelled"
       /\ m.result = "wasDone" => market[m.order] = "done"
       /\ m.result \in {"ok", "wasCancelled", "wasDone", "refused"}
  /\ m.caller \in Getters /\ m.result \in States =>
       m.result \in {atSend[m.caller], market[m.order]}

TruthInv ==
  \A m \in Answers : In(publishCh, m) \/ In(inbox[m.caller], m) => Truth(m)

\* What a call has taken from its channel is what it has counted, and it stops
\* listening when that is all it has asked for.
Taken(c) == {o \in Orders : <<c, o>> \in heard /\ ~Mentions(inbox[c], c, o)}

CountInv ==
  \A c \in Callers :
    /\ pc[c] # "ended" => Cardinality(Taken(c)) = processed[c]
    /\ c \notin Batches => processed[c] = 0
    /\ pc[c] # "ended" /\ target[c] # {} => processed[c] < Cardinality(target[c])

IInv ==
  /\ CallsSafe /\ AnswerIsFresh
  /\ CallInv /\ RequestInv /\ FreshInv /\ TruthInv /\ CountInv

(* Queues: what Append and Tail do to what is said of them.                *)

LEMMA AppendQueue ==
  ASSUME NEW S, NEW s \in Seq(S), NEW m \in S
  PROVE  /\ Append(s, m) \in Seq(S)
         /\ \A x : In(Append(s, m), x) => In(s, x) \/ x = m
         /\ \A c, o : Mentions(Append(s, m), c, o) <=> Mentions(s, c, o) \/ About(m, c, o)
         /\ \A c, o : Once(s, c, o) /\ ~(Mentions(s, c, o) /\ About(m, c, o))
                        => Once(Append(s, m), c, o)
<1> DEFINE t == Append(s, m)
<1>1. /\ t \in Seq(S) /\ Len(s) \in Nat /\ Len(t) = Len(s) + 1 /\ t[Len(s) + 1] = m
      /\ \A i \in 1 .. Len(s) : t[i] = s[i]
  BY AppendProperties
<1> HIDE DEF t
<1>2. /\ \A i \in 1 .. Len(t) : i \in 1 .. Len(s) \/ i = Len(s) + 1
      /\ \A i \in 1 .. Len(s) : i \in 1 .. Len(t)
      /\ Len(s) + 1 \in 1 .. Len(t)
  BY <1>1
<1>3. ASSUME NEW x, In(t, x) PROVE In(s, x) \/ x = m
  BY <1>1, <1>2, <1>3 DEF In
<1>4. ASSUME NEW c, NEW o PROVE Mentions(t, c, o) <=> Mentions(s, c, o) \/ About(m, c, o)
  BY <1>1, <1>2 DEF Mentions
<1>5. ASSUME NEW c, NEW o, Once(s, c, o), ~(Mentions(s, c, o) /\ About(m, c, o))
      PROVE  Once(t, c, o)
  BY <1>1, <1>2, <1>5 DEF Once, Mentions
<1> QED
  BY <1>1, <1>3, <1>4, <1>5 DEF t

LEMMA TailQueue ==
  ASSUME NEW S, NEW s \in Seq(S), s # <<>>
  PROVE  /\ Head(s) \in S /\ Tail(s) \in Seq(S) /\ In(s, Head(s))
         /\ \A x : In(Tail(s), x) => In(s, x)
         /\ \A c, o : Mentions(s, c, o) <=> Mentions(Tail(s), c, o) \/ About(Head(s), c, o)
         /\ \A c, o : Once(s, c, o) => /\ Once(Tail(s), c, o)
                                       /\ ~(About(Head(s), c, o) /\ Mentions(Tail(s), c, o))
<1> DEFINE t == Tail(s)
<1>1. /\ Head(s) \in S /\ t \in Seq(S) /\ Len(s) \in Nat /\ Len(s) > 0
      /\ Len(t) = Len(s) - 1 /\ Head(s) = s[1]
      /\ \A i \in 1 .. Len(t) : t[i] = s[i + 1]
  BY HeadTailProperties, EmptySeq
<1> HIDE DEF t
<1>2. /\ \A i \in 1 .. Len(t) : i \in Nat /\ i + 1 \in 1 .. Len(s) /\ i + 1 # 1
      /\ \A i \in 1 .. Len(s) : i = 1 \/ (i - 1 \in 1 .. Len(t) /\ i = (i - 1) + 1)
      /\ 1 \in 1 .. Len(s)
  BY <1>1
<1>3. In(s, Head(s)) /\ \A x : In(t, x) => In(s, x)
  BY <1>1, <1>2 DEF In
<1>4. ASSUME NEW c, NEW o PROVE Mentions(s, c, o) <=> Mentions(t, c, o) \/ About(Head(s), c, o)
  <2>1. Mentions(s, c, o) => Mentions(t, c, o) \/ About(Head(s), c, o)
    <3> SUFFICES ASSUME NEW i \in 1 .. Len(s), About(s[i], c, o), i # 1
                 PROVE  Mentions(t, c, o)
      BY <1>1 DEF Mentions
    <3>1. i - 1 \in 1 .. Len(t) /\ t[i - 1] = s[i]
      BY <1>1, <1>2
    <3> QED
      BY <3>1 DEF Mentions
  <2>2. Mentions(t, c, o) \/ About(Head(s), c, o) => Mentions(s, c, o)
    BY <1>1, <1>2 DEF Mentions
  <2> QED
    BY <2>1, <2>2
<1>5. ASSUME NEW c, NEW o, Once(s, c, o)
      PROVE  Once(t, c, o) /\ ~(About(Head(s), c, o) /\ Mentions(t, c, o))
  <2>1. ASSUME NEW i \in 1 .. Len(t), NEW j \in 1 .. Len(t),
               About(t[i], c, o), About(t[j], c, o)
        PROVE  i = j
    <3>1. i + 1 = j + 1
      BY <2>1, <1>1, <1>2, <1>5 DEF Once
    <3> QED
      BY <3>1, <1>2
  <2>2. ~(About(Head(s), c, o) /\ Mentions(t, c, o))
    BY <1>1, <1>2, <1>5 DEF Once, Mentions
  <2> QED
    BY <2>1, <2>2 DEF Once
<1> QED
  BY <1>1, <1>3, <1>4, <1>5 DEF t

LEMMA EmptyQueue ==
  /\ \A x : ~In(<<>>, x)
  /\ \A c, o : ~Mentions(<<>>, c, o) /\ Once(<<>>, c, o)
<1>1. Len(<<>>) = 0
  OBVIOUS
<1> QED
  BY <1>1 DEF In, Mentions, Once

(* Parts whose variables a step leaves alone.                              *)

Outcomes == CancelTellsTruth /\ GivesUpUnheard /\ BatchLooksAtAll /\ AnswerIsFresh

LEMMA SameKinds ==
  ASSUME UNCHANGED kind
  PROVE  Cancellers' = Cancellers /\ Getters' = Getters /\ Batches' = Batches
  BY DEF Cancellers, Getters, Batches

LEMMA SameCall ==
  ASSUME IInv, UNCHANGED <<kind, pc, target, asked, joining, registered, outcome>>
  PROVE  CallInv'
  BY SameKinds DEF IInv, CallInv

LEMMA SameRequests ==
  ASSUME IInv, UNCHANGED <<wire, heard, asked, publishCh, inbox>> PROVE RequestInv'
  BY DEF IInv, RequestInv

LEMMA SameFresh ==
  ASSUME IInv, UNCHANGED <<kind, asked, target, market, atSend>> PROVE FreshInv'
  BY SameKinds DEF IInv, FreshInv

LEMMA SameTruth ==
  ASSUME IInv, UNCHANGED <<kind, market, atSend, publishCh, inbox>> PROVE TruthInv'
  BY SameKinds DEF IInv, TruthInv, Truth

LEMMA SameCount ==
  ASSUME IInv, UNCHANGED <<kind, pc, inbox, heard, processed, target>> PROVE CountInv'
  BY SameKinds DEF IInv, CountInv, Taken

LEMMA SameOutcomes ==
  ASSUME IInv, UNCHANGED <<kind, outcome, target, market, heard, got, atSend>>
  PROVE  Outcomes'
  BY SameKinds
  DEF IInv, CallsSafe, Outcomes, CancelTellsTruth, GivesUpUnheard, BatchLooksAtAll,
      AnswerIsFresh

(* The first half of a call.                                               *)

LEMMA SubscribeStep ==
  ASSUME IInv, NEW c \in Callers, Subscribe(c) PROVE IInv'
<1>1. /\ c \in Getters => pc[c] = "sent" /\ pc' = [pc EXCEPT ![c] = "listening"]
      /\ c \notin Getters => pc[c] = "idle" /\ pc' = [pc EXCEPT ![c] = "subscribed"]
      /\ joining' = joining \cup {c}
      /\ UNCHANGED <<kind, target, asked, processed, outcome, got, registered, wire,
                     publishCh, inbox, market, ctxDone, atSend, heard>>
  BY DEF Subscribe, MayBegin
<1>2. TypeOK'
  BY <1>1 DEF IInv, CallsSafe, TypeOK
<1>3. /\ pc'[c] \in {"subscribed", "listening"} /\ pc[c] \in {"idle", "sent"}
      /\ pc'[c] = "listening" => pc[c] = "sent"
      /\ \A d \in Callers : d # c => pc'[d] = pc[d]
  BY <1>1 DEF IInv, CallsSafe, TypeOK
<1>4. CallInv'
  BY <1>1, <1>3, SameKinds DEF IInv, CallInv
<1>5. CountInv'
  <2>1. \A d \in Callers : Taken(d)' = Taken(d) /\ (pc'[d] # "ended" <=> pc[d] # "ended")
    BY <1>1, <1>3 DEF Taken
  <2> QED
    BY <2>1, <1>1, SameKinds DEF IInv, CountInv
<1> QED
  BY <1>1, <1>2, <1>4, <1>5, SameRequests, SameFresh, SameTruth, SameOutcomes
  DEF IInv, CallsSafe, Outcomes

LEMMA NothingToSendStep ==
  ASSUME IInv, NEW c \in Callers, NothingToSend(c) PROVE IInv'
<1>1. /\ pc[c] = "subscribed" /\ target[c] = {} /\ pc' = [pc EXCEPT ![c] = "listening"]
      /\ UNCHANGED <<kind, target, asked, processed, outcome, got, joining, registered,
                     publishCh, inbox, heard, wire, market, ctxDone, atSend>>
  BY DEF NothingToSend, broker
<1>2. TypeOK'
  BY <1>1 DEF IInv, CallsSafe, TypeOK
<1>3. pc'[c] = "listening" /\ \A d \in Callers : d # c => pc'[d] = pc[d]
  BY <1>1 DEF IInv, CallsSafe, TypeOK
<1>4. CallInv'
  BY <1>1, <1>3, SameKinds DEF IInv, CallInv
<1>5. CountInv'
  <2>1. \A d \in Callers : Taken(d)' = Taken(d) /\ (pc'[d] # "ended" <=> pc[d] # "ended")
    BY <1>1, <1>3 DEF Taken
  <2> QED
    BY <2>1, <1>1, SameKinds DEF IInv, CountInv
<1> QED
  BY <1>1, <1>2, <1>4, <1>5, SameRequests, SameFresh, SameTruth, SameOutcomes
  DEF IInv, CallsSafe, Outcomes

\* A request goes out: nothing is under way or was heard about it yet.
LEMMA SendStep ==
  ASSUME IInv, NEW c \in Callers, Send(c) PROVE IInv'
<1>1. PICK o \in target[c] \ asked[c] :
        /\ asked' = [asked EXCEPT ![c] = @ \cup {o}]
        /\ wire' = wire \cup {<<c, o>>}
        /\ atSend' = [atSend EXCEPT ![c] = IF c \in Getters THEN market[o] ELSE @]
  BY DEF Send
<1>2. /\ c \in Getters => pc[c] = "idle" /\ pc' = [pc EXCEPT ![c] = "sent"]
      /\ c \notin Getters => /\ pc[c] = "subscribed"
                             /\ pc' = [pc EXCEPT ![c] = IF asked'[c] = target[c]
                                                          THEN "listening" ELSE pc[c]]
      /\ UNCHANGED <<kind, target, processed, outcome, got, joining, registered, publishCh,
                     inbox, heard, market, ctxDone>>
  BY DEF Send, MayBegin, broker
<1>3. o \in Orders /\ target \in [Callers -> SUBSET Orders]
  BY DEF IInv, CallsSafe, TypeOK
<1>4. /\ asked'[c] = asked[c] \cup {o}
      /\ atSend'[c] = IF c \in Getters THEN market[o] ELSE atSend[c]
      /\ \A d \in Callers : d # c => asked'[d] = asked[d] /\ atSend'[d] = atSend[d]
  BY <1>1 DEF IInv, CallsSafe, TypeOK
<1>5. /\ pc[c] \in {"idle", "subscribed"} /\ pc'[c] \in {"sent", "subscribed", "listening"}
      /\ pc'[c] = "listening" => asked'[c] = target[c]
      /\ pc'[c] = "sent" => pc[c] = "idle" /\ c \in Getters
      /\ \A d \in Callers : d # c => pc'[d] = pc[d]
  BY <1>2 DEF IInv, CallsSafe, TypeOK
<1>6. c \in Getters => c \notin Batches /\ target[c] = {o} /\ asked[c] = {}
  <2> SUFFICES ASSUME c \in Getters PROVE c \notin Batches /\ target[c] = {o} /\ asked[c] = {}
    OBVIOUS
  <2>1. c \notin Batches
    BY DEF Getters, Batches
  <2> QED
    BY <2>1, <1>1, <1>2 DEF IInv, CallInv
<1>7. TypeOK'
  <2>1. asked' \in [Callers -> SUBSET Orders]
    BY <1>1, <1>3 DEF IInv, CallsSafe, TypeOK
  <2>2. wire' \subseteq Callers \X Orders
    BY <1>1, <1>3 DEF IInv, CallsSafe, TypeOK
  <2>3. atSend' \in [Callers -> States \cup {"none"}]
    BY <1>1, <1>3 DEF IInv, CallsSafe, TypeOK
  <2>4. pc' \in [Callers -> {"idle", "subscribed", "sent", "listening", "ended"}]
    BY <1>2 DEF IInv, CallsSafe, TypeOK
  <2> QED
    BY <2>1, <2>2, <2>3, <2>4, <1>2 DEF IInv, CallsSafe, TypeOK
<1>8. CallInv'
  <2> SUFFICES ASSUME NEW d \in Callers
               PROVE  /\ asked'[d] \subseteq target'[d]
                      /\ d \notin Batches' => \E x \in Orders : target'[d] = {x}
                      /\ pc'[d] = "idle" => asked'[d] = {}
                      /\ pc'[d] \in {"sent", "listening"} => asked'[d] = target'[d]
                      /\ pc'[d] \in {"idle", "sent", "ended"} =>
                           d \notin joining' \cup registered'
                      /\ outcome'[d] # "none" => pc'[d] = "ended" /\ asked'[d] = target'[d]
    BY DEF CallInv
  <2>1. CASE d # c
    BY <2>1, <1>2, <1>4, <1>5, SameKinds DEF IInv, CallInv
  <2>2. CASE d = c
    BY <2>2, <1>1, <1>2, <1>4, <1>5, <1>6, SameKinds DEF IInv, CallInv
  <2> QED
    BY <2>1, <2>2
<1>9. RequestInv'
  <2>1. /\ <<c, o>> \notin wire \cup heard /\ ~Mentions(publishCh, c, o)
    BY <1>1, <1>3 DEF IInv, RequestInv
  <2>2. \A d \in Callers, x \in Orders :
          /\ <<d, x>> \in wire' <=> <<d, x>> \in wire \/ (d = c /\ x = o)
          /\ x \in asked[d] => x \in asked'[d]
    BY <1>1, <1>4
  <2>3. o \in asked'[c]
    BY <1>4
  <2> QED
    BY <2>1, <2>2, <2>3, <1>2 DEF IInv, RequestInv
<1>10. FreshInv'
  <2> SUFFICES ASSUME NEW d \in Getters, asked'[d] # {}, NEW x \in target[d], market[x] = "live"
               PROVE  atSend'[d] = "live"
    BY <1>2, SameKinds DEF FreshInv
  <2>1. CASE d = c
    BY <2>1, <1>4, <1>6
  <2>2. CASE d # c
    <3>1. asked[d] # {} /\ atSend'[d] = atSend[d]
      BY <2>2, <1>4 DEF Getters
    <3> QED
      BY <3>1 DEF IInv, FreshInv
  <2> QED
    BY <2>1, <2>2
<1>11. TruthInv'
  <2> SUFFICES ASSUME NEW m \in Answers, In(publishCh, m) \/ In(inbox[m.caller], m)
               PROVE  Truth(m)'
    BY <1>2 DEF TruthInv
  <2>1. Truth(m)
    BY DEF IInv, TruthInv
  <2>2. m.caller \in Callers /\ m.order \in Orders /\ About(m, m.caller, m.order)
    BY DEF Answers, About
  <2>3. m.order \in asked[m.caller]
    <3>1. Mentions(publishCh, m.caller, m.order) \/ Mentions(inbox[m.caller], m.caller, m.order)
      BY <2>2 DEF In, Mentions
    <3> QED
      BY <2>2, <3>1 DEF IInv, RequestInv
  <2>4. m.caller = c => c \notin Getters
    BY <2>3, <1>6
  <2>5. m.caller \in Getters => atSend'[m.caller] = atSend[m.caller]
    BY <2>2, <2>4, <1>4
  <2> QED
    BY <2>1, <2>5, <1>2, SameKinds DEF Truth
<1>12. CountInv'
  <2>1. \A d \in Callers : Taken(d)' = Taken(d) /\ (pc'[d] # "ended" <=> pc[d] # "ended")
    BY <1>2, <1>5 DEF Taken
  <2> QED
    BY <2>1, <1>2, SameKinds DEF IInv, CountInv
<1>13. Outcomes'
  <2>1. outcome[c] = "none"
    BY <1>5 DEF IInv, CallInv
  <2>2. AnswerIsFresh'
    <3> SUFFICES ASSUME NEW d \in Getters, NEW x \in target[d], outcome[d] = "ok"
                 PROVE  got[d] \in {atSend'[d], market[x]}
      BY <1>2, SameKinds DEF AnswerIsFresh
    <3>1. d # c
      BY <2>1
    <3>2. atSend'[d] = atSend[d]
      BY <3>1, <1>4 DEF Getters
    <3> QED
      BY <3>2 DEF IInv, AnswerIsFresh
  <2>3. CancelTellsTruth' /\ GivesUpUnheard' /\ BatchLooksAtAll'
    BY <1>2, SameKinds DEF IInv, CallsSafe, CancelTellsTruth, GivesUpUnheard, BatchLooksAtAll
  <2> QED
    BY <2>2, <2>3 DEF Outcomes
<1> QED
  BY <1>7, <1>8, <1>9, <1>10, <1>11, <1>12, <1>13 DEF IInv, CallsSafe, Outcomes

(* The second half.                                                        *)

\* A call that returns leaves the invariant as it is, if what it tells is so.
LEMMA ReturnStep ==
  ASSUME IInv, NEW c \in Callers, NEW r, pc[c] = "listening", Return(c, r),
         r \in {"ok", "nil", "doneOrder", "error", "timeout", "panic"},
         UNCHANGED <<kind, target, asked, wire, publishCh, market, ctxDone, atSend, heard>>,
         processed' \in [Callers -> 0 .. Cardinality(Orders)],
         got' \in [Callers -> States \cup {"none"}],
         \A d \in Callers : d # c => processed'[d] = processed[d] /\ got'[d] = got[d],
         c \notin Batches => processed'[c] = 0,
         c \in Cancellers => \A o \in target[c] :
           (r = "ok" => market[o] = "cancelled") /\ (r = "doneOrder" => market[o] = "done"),
         c \in Getters => \A o \in target[c] :
           r = "ok" => got'[c] \in {atSend[c], market[o]},
         r \in {"timeout", "panic"} => ({c} \X target[c]) \ heard # {} \/ target[c] = {},
         c \in Batches => (r = "ok" => {c} \X target[c] \subseteq heard)
  PROVE  IInv'
<1>1. /\ pc' = [pc EXCEPT ![c] = "ended"] /\ outcome' = [outcome EXCEPT ![c] = r]
      /\ joining' = joining \ {c} /\ registered' = registered \ {c}
      /\ inbox' = [inbox EXCEPT ![c] = <<>>]
  BY DEF Return
<1>2. /\ pc'[c] = "ended" /\ outcome'[c] = r /\ inbox'[c] = <<>>
      /\ \A d \in Callers : d # c => /\ pc'[d] = pc[d] /\ outcome'[d] = outcome[d]
                                     /\ inbox'[d] = inbox[d]
  BY <1>1 DEF IInv, CallsSafe, TypeOK
<1>3. TypeOK'
  <2>1. inbox' \in [Callers -> Seq(Answers \cup {Noise})]
    BY <1>1 DEF IInv, CallsSafe, TypeOK
  <2>2. /\ outcome' \in [Callers -> {"none", "ok", "nil", "doneOrder", "error",
                                      "timeout", "panic"}]
        /\ pc' \in [Callers -> {"idle", "subscribed", "sent", "listening", "ended"}]
    BY <1>1 DEF IInv, CallsSafe, TypeOK
  <2> QED
    BY <2>1, <2>2, <1>1 DEF IInv, CallsSafe, TypeOK
<1>4. CallInv'
  BY <1>1, <1>2, SameKinds DEF IInv, CallInv
<1>5. \A d \in Callers : /\ \A x : In(inbox'[d], x) => In(inbox[d], x)
                         /\ \A e, o : Mentions(inbox'[d], e, o) => Mentions(inbox[d], e, o)
                         /\ \A e, o : Once(inbox[d], e, o) => Once(inbox'[d], e, o)
  BY <1>2, EmptyQueue
<1>6. RequestInv'
  BY <1>5 DEF IInv, RequestInv
<1>7. TruthInv'
  <2> SUFFICES ASSUME NEW m \in Answers, In(publishCh, m) \/ In(inbox'[m.caller], m)
               PROVE  Truth(m)'
    BY DEF TruthInv
  <2>1. m.caller \in Callers
    BY DEF Answers
  <2>2. Truth(m)
    BY <2>1, <1>5 DEF IInv, TruthInv
  <2> QED
    BY <2>2, SameKinds DEF Truth
<1>8. CountInv'
  <2>1. \A d \in Callers : d # c => Taken(d)' = Taken(d)
    BY <1>2 DEF Taken
  <2> QED
    BY <2>1, <1>2, SameKinds DEF IInv, CountInv
<1>9. Outcomes'
  <2>1. CancelTellsTruth'
    BY <1>2, SameKinds DEF IInv, CallsSafe, CancelTellsTruth, Cancellers
  <2>2. AnswerIsFresh'
    <3> SUFFICES ASSUME NEW d \in Getters, NEW o \in target[d], outcome'[d] = "ok"
                 PROVE  got'[d] \in {atSend[d], market[o]}
      BY SameKinds DEF AnswerIsFresh
    <3>1. CASE d = c
      BY <3>1, <1>2
    <3>2. CASE d # c
      BY <3>2, <1>2 DEF IInv, AnswerIsFresh, Getters
    <3> QED
      BY <3>1, <3>2
  <2>3. GivesUpUnheard'
    BY <1>2 DEF IInv, CallsSafe, GivesUpUnheard
  <2>4. BatchLooksAtAll'
    BY <1>2, SameKinds DEF IInv, CallsSafe, BatchLooksAtAll, Batches
  <2> QED
    BY <2>1, <2>2, <2>3, <2>4 DEF Outcomes
<1> QED
  BY <1>3, <1>4, SameFresh, <1>6, <1>7, <1>8, <1>9 DEF IInv, CallsSafe, Outcomes

\* The answer that a call reads is to its own request, which was heard; it is true
\* and no other like it is in the channel.
LEMMA OwnAnswer ==
  ASSUME IInv, NEW c \in Callers, Listens(c), Own(c)
  PROVE  LET m == Head(inbox[c]) IN
         /\ m \in Answers /\ m.caller = c /\ m.order \in target[c] /\ asked[c] = target[c]
         /\ <<c, m.order>> \in heard /\ Truth(m)
         /\ Mentions(inbox[c], c, m.order) /\ ~Mentions(Tail(inbox[c]), c, m.order)
         /\ \A o : o # m.order =>
              (Mentions(inbox[c], c, o) <=> Mentions(Tail(inbox[c]), c, o))
<1> DEFINE m == Head(inbox[c])
<1>1. inbox[c] \in Seq(Answers \cup {Noise}) /\ inbox[c] # <<>>
  BY DEF IInv, CallsSafe, TypeOK, Listens
<1>2. /\ m \in Answers \cup {Noise} /\ In(inbox[c], m)
      /\ \A d, o : Mentions(inbox[c], d, o)
                     <=> Mentions(Tail(inbox[c]), d, o) \/ About(m, d, o)
      /\ \A d, o : Once(inbox[c], d, o) => ~(About(m, d, o) /\ Mentions(Tail(inbox[c]), d, o))
  BY <1>1, TailQueue
<1>3. m.caller = c
  BY DEF Own
<1> HIDE DEF m
<1>4. m \in Answers
  BY <1>2, <1>3, NoiseAssumption DEF Noise
<1>5. m.order \in Orders /\ About(m, c, m.order)
  BY <1>3, <1>4 DEF Answers, About
<1>6. Mentions(inbox[c], c, m.order) /\ Once(inbox[c], c, m.order)
  BY <1>2, <1>5 DEF IInv, RequestInv
<1>7. asked[c] = target[c]
  BY DEF IInv, CallInv, Listens
<1>8. <<c, m.order>> \in heard
  BY <1>5, <1>6 DEF IInv, RequestInv
<1>9. m.order \in asked[c]
  BY <1>5, <1>8 DEF IInv, RequestInv
<1>10. Truth(m)
  BY <1>2, <1>3, <1>4 DEF IInv, TruthInv
<1>11. \A o : About(m, c, o) => o = m.order
  BY DEF About
<1> QED
  BY <1>2, <1>3, <1>4, <1>5, <1>6, <1>7, <1>8, <1>9, <1>10, <1>11 DEF m

LEMMA DiscardStep ==
  ASSUME IInv, NEW c \in Callers, Discard(c) PROVE IInv'
<1>1. /\ Listens(c) /\ ~Own(c) /\ inbox' = [inbox EXCEPT ![c] = Tail(inbox[c])]
      /\ UNCHANGED <<kind, pc, target, asked, processed, outcome, got, joining, registered,
                     wire, publishCh, market, ctxDone, atSend, heard>>
  BY DEF Discard, call
<1>2. inbox[c] \in Seq(Answers \cup {Noise}) /\ inbox[c] # <<>>
  BY <1>1 DEF IInv, CallsSafe, TypeOK, Listens
<1>3. /\ Tail(inbox[c]) \in Seq(Answers \cup {Noise})
      /\ \A x : In(Tail(inbox[c]), x) => In(inbox[c], x)
      /\ \A d, o : Mentions(inbox[c], d, o)
                     <=> Mentions(Tail(inbox[c]), d, o) \/ About(Head(inbox[c]), d, o)
      /\ \A d, o : Once(inbox[c], d, o) => Once(Tail(inbox[c]), d, o)
  BY <1>2, TailQueue
<1>4. inbox'[c] = Tail(inbox[c]) /\ \A d \in Callers : d # c => inbox'[d] = inbox[d]
  BY <1>1 DEF IInv, CallsSafe, TypeOK
<1>5. \A o : Mentions(inbox'[c], c, o) <=> Mentions(inbox[c], c, o)
  BY <1>1, <1>3, <1>4 DEF Own, About
<1>6. TypeOK'
  <2>1. inbox' \in [Callers -> Seq(Answers \cup {Noise})]
    BY <1>1, <1>3 DEF IInv, CallsSafe, TypeOK
  <2> QED
    BY <2>1, <1>1 DEF IInv, CallsSafe, TypeOK
<1>7. RequestInv'
  <2>1. \A d \in Callers, o \in Orders :
          /\ Mentions(inbox'[d], d, o) => Mentions(inbox[d], d, o)
          /\ Once(inbox[d], d, o) => Once(inbox'[d], d, o)
    BY <1>3, <1>4
  <2> QED
    BY <2>1, <1>1 DEF IInv, RequestInv
<1>8. TruthInv'
  <2> SUFFICES ASSUME NEW m \in Answers, In(publishCh, m) \/ In(inbox'[m.caller], m)
               PROVE  Truth(m)'
    BY <1>1 DEF TruthInv
  <2>1. m.caller \in Callers
    BY DEF Answers
  <2>2. Truth(m)
    BY <2>1, <1>3, <1>4 DEF IInv, TruthInv
  <2> QED
    BY <2>2, <1>1, SameKinds DEF Truth
<1>9. CountInv'
  <2>1. \A d \in Callers : Taken(d)' = Taken(d)
    BY <1>1, <1>4, <1>5 DEF Taken
  <2> QED
    BY <2>1, <1>1, SameKinds DEF IInv, CountInv
<1> QED
  BY <1>1, <1>6, SameCall, <1>7, SameFresh, <1>8, <1>9, SameOutcomes
  DEF IInv, CallsSafe, Outcomes

LEMMA CancelAnsweredStep ==
  ASSUME IInv, NEW c \in Callers, CancelAnswered(c) PROVE IInv'
<1> DEFINE m == Head(inbox[c])
           r == CancelReturns(m.result)
<1>1. /\ c \in Cancellers /\ Listens(c) /\ Own(c) /\ Return(c, r)
      /\ UNCHANGED <<kind, target, asked, processed, got, wire, publishCh, market,
                     ctxDone, atSend, heard>>
  BY DEF CancelAnswered
<1>2. m \in Answers /\ m.caller = c /\ m.order \in target[c] /\ Truth(m)
  BY <1>1, OwnAnswer
<1> HIDE DEF m
<1>3. c \notin Batches /\ c \notin Getters
  BY <1>1 DEF Cancellers, Batches, Getters
<1>4. \A o \in target[c] : o = m.order
  BY <1>2, <1>3 DEF IInv, CallInv
<1>5. /\ m.result \in {"ok", "wasCancelled"} => market[m.order] = "cancelled"
      /\ m.result = "wasDone" => market[m.order] = "done"
      /\ m.result \in {"ok", "wasCancelled", "wasDone", "refused"}
  BY <1>1, <1>2 DEF Truth
<1>6. /\ r \in {"ok", "doneOrder", "error"}
      /\ r = "ok" => market[m.order] = "cancelled"
      /\ r = "doneOrder" => market[m.order] = "done"
  BY <1>5 DEF CancelReturns
<1>7. /\ processed \in [Callers -> 0 .. Cardinality(Orders)]
      /\ got \in [Callers -> States \cup {"none"}] /\ processed[c] = 0
  BY <1>3 DEF IInv, CallsSafe, TypeOK, CountInv
<1> HIDE DEF r
<1> QED
  BY <1>1, <1>3, <1>4, <1>6, <1>7, ReturnStep DEF Listens

LEMMA GetAnsweredStep ==
  ASSUME IInv, NEW c \in Callers, GetAnswered(c) PROVE IInv'
<1> DEFINE m == Head(inbox[c])
           r == GetReturns(m.result)
<1>1. /\ c \in Getters /\ Listens(c) /\ Own(c) /\ Process(c, m) /\ Return(c, r)
      /\ UNCHANGED <<kind, target, asked, processed, wire, publishCh, market,
                     ctxDone, atSend, heard>>
  BY DEF GetAnswered
<1>2. m \in Answers /\ m.caller = c /\ m.order \in target[c] /\ Truth(m)
  BY <1>1, OwnAnswer
<1> HIDE DEF m
<1>3. c \notin Batches /\ c \notin Cancellers
  BY <1>1 DEF Cancellers, Batches, Getters
<1>4. \A o \in target[c] : o = m.order
  BY <1>2, <1>3 DEF IInv, CallInv
<1>5. /\ got' = [got EXCEPT ![c] = IF m.result \in States THEN m.result ELSE got[c]]
      /\ got \in [Callers -> States \cup {"none"}]
  BY <1>1 DEF Process, IInv, CallsSafe, TypeOK
<1>6. /\ got' \in [Callers -> States \cup {"none"}]
      /\ m.result \in States => got'[c] = m.result
      /\ \A d \in Callers : d # c => got'[d] = got[d]
  BY <1>5
<1>7. r \in {"ok", "nil", "error"} /\ (r = "ok" => m.result \in States)
  BY DEF GetReturns, States
<1>8. r = "ok" => got'[c] \in {atSend[c], market[m.order]}
  BY <1>1, <1>2, <1>6, <1>7 DEF Truth
<1>9. processed \in [Callers -> 0 .. Cardinality(Orders)] /\ processed[c] = 0
  BY <1>3 DEF IInv, CallsSafe, TypeOK, CountInv
<1> HIDE DEF r
<1> QED
  BY <1>1, <1>3, <1>4, <1>6, <1>7, <1>8, <1>9, ReturnStep DEF Listens

\* What a call has taken is a part of what it has asked for, and finite.
LEMMA TakenOfTarget ==
  ASSUME IInv, NEW c \in Callers
  PROVE  /\ Taken(c) \subseteq target[c] /\ target[c] \subseteq Orders
         /\ IsFiniteSet(Taken(c)) /\ IsFiniteSet(target[c])
         /\ Cardinality(target[c]) \in Nat /\ Cardinality(Orders) \in Nat
         /\ Cardinality(target[c]) <= Cardinality(Orders)
<1>1. Taken(c) \subseteq target[c]
  BY DEF Taken, IInv, RequestInv, CallInv
<1>2. target[c] \subseteq Orders
  BY DEF IInv, CallsSafe, TypeOK
<1> QED
  BY <1>1, <1>2, FS_Subset, FS_CardinalityType, OrdersAssumption

LEMMA TimesOutStep ==
  ASSUME IInv, NEW c \in Callers, TimesOut(c) PROVE IInv'
<1> DEFINE r == IF c \in Cancellers THEN "panic" ELSE "timeout"
<1>1. /\ pc[c] = "listening" /\ inbox[c] = <<>> /\ Return(c, r)
      /\ UNCHANGED <<kind, target, asked, processed, got, wire, publishCh, market,
                     ctxDone, atSend, heard>>
  BY DEF TimesOut
<1>2. target[c] # {} => ({c} \X target[c]) \ heard # {}
  <2> SUFFICES ASSUME target[c] # {}, {c} \X target[c] \subseteq heard PROVE FALSE
    OBVIOUS
  <2>1. Taken(c) = target[c]
    <3>1. \A o \in target[c] : <<c, o>> \in heard /\ o \in Orders
      BY TakenOfTarget
    <3>2. \A o : ~Mentions(inbox[c], c, o)
      BY <1>1, EmptyQueue
    <3>3. \A o \in target[c] : o \in Taken(c)
      BY <3>1, <3>2 DEF Taken
    <3> QED
      BY <3>3, TakenOfTarget
  <2>2. Cardinality(Taken(c)) < Cardinality(target[c])
    BY <1>1 DEF IInv, CountInv
  <2> QED
    BY <2>1, <2>2, TakenOfTarget
<1>3. /\ processed \in [Callers -> 0 .. Cardinality(Orders)]
      /\ got \in [Callers -> States \cup {"none"}]
      /\ c \notin Batches => processed[c] = 0
  BY DEF IInv, CallsSafe, TypeOK, CountInv
<1>4. r \in {"panic", "timeout"}
  OBVIOUS
<1> HIDE DEF r
<1> QED
  BY <1>1, <1>2, <1>3, <1>4, ReturnStep

LEMMA ContextEndsStep ==
  ASSUME IInv, NEW c \in Callers, ContextEnds(c) PROVE IInv'
<1>1. /\ pc[c] = "listening" /\ Return(c, "nil")
      /\ UNCHANGED <<kind, target, asked, processed, got, wire, publishCh, market,
                     ctxDone, atSend, heard>>
  BY DEF ContextEnds
<1>2. /\ processed \in [Callers -> 0 .. Cardinality(Orders)]
      /\ got \in [Callers -> States \cup {"none"}]
      /\ c \notin Batches => processed[c] = 0
  BY DEF IInv, CallsSafe, TypeOK, CountInv
<1> QED
  BY <1>1, <1>2, ReturnStep

\* A batch counts an answer it has not counted before; the last one it waits for is
\* the answer to all.
LEMMA BatchAnsweredStep ==
  ASSUME IInv, NEW c \in Callers, BatchAnswered(c) PROVE IInv'
<1> DEFINE m == Head(inbox[c])
           o == m.order
           n == processed[c] + 1
<1>1. /\ c \in Batches /\ Listens(c) /\ Own(c) /\ Process(c, m)
      /\ UNCHANGED <<kind, target, asked, wire, publishCh, market, ctxDone, atSend, heard>>
      /\ \/ /\ GetReturns(m.result) = "error" /\ Return(c, "error") /\ processed' = processed
         \/ /\ processed' = [processed EXCEPT ![c] = n] /\ processed'[c] = Cardinality(asked[c])
            /\ Return(c, "ok")
         \/ /\ processed' = [processed EXCEPT ![c] = n] /\ processed'[c] # Cardinality(asked[c])
            /\ inbox' = [inbox EXCEPT ![c] = Tail(inbox[c])]
            /\ UNCHANGED <<pc, outcome, joining, registered>>
  BY DEF BatchAnswered
<1>2. /\ m \in Answers /\ m.caller = c /\ o \in target[c] /\ asked[c] = target[c]
      /\ <<c, o>> \in heard /\ Mentions(inbox[c], c, o) /\ ~Mentions(Tail(inbox[c]), c, o)
      /\ \A x : x # o => (Mentions(inbox[c], c, x) <=> Mentions(Tail(inbox[c]), c, x))
  BY <1>1, OwnAnswer
<1> HIDE DEF m
<1> DEFINE T == Taken(c) \cup {o}
<1>3. /\ c \notin Getters /\ c \notin Cancellers
      /\ got' = got /\ got \in [Callers -> States \cup {"none"}]
  <2>1. c \notin Getters /\ c \notin Cancellers
    BY <1>1 DEF Cancellers, Batches, Getters
  <2> QED
    BY <2>1, <1>1 DEF Process, IInv, CallsSafe, TypeOK
<1>4. processed \in [Callers -> 0 .. Cardinality(Orders)]
  BY DEF IInv, CallsSafe, TypeOK
<1>5. /\ Cardinality(T) = n /\ T \subseteq target[c] /\ IsFiniteSet(T)
      /\ n \in Nat /\ n <= Cardinality(target[c])
  <2>1. o \notin Taken(c)
    BY <1>2 DEF Taken
  <2>2. Cardinality(Taken(c)) = processed[c]
    BY <1>1 DEF IInv, CountInv, Listens
  <2>3. Cardinality(T) = n /\ IsFiniteSet(T)
    BY <2>1, <2>2, TakenOfTarget, FS_AddElement
  <2>4. T \subseteq target[c]
    BY <1>2, TakenOfTarget
  <2> QED
    BY <2>3, <2>4, TakenOfTarget, FS_Subset, FS_CardinalityType
<1>6. ASSUME processed' = [processed EXCEPT ![c] = n]
      PROVE  /\ processed' \in [Callers -> 0 .. Cardinality(Orders)] /\ processed'[c] = n
             /\ \A d \in Callers : d # c => processed'[d] = processed[d]
  <2>1. n \in 0 .. Cardinality(Orders)
    BY <1>5, TakenOfTarget
  <2> HIDE DEF n
  <2> QED
    BY <2>1, <1>4, <1>6
<1>7. CASE GetReturns(m.result) = "error" /\ Return(c, "error") /\ processed' = processed
  BY <1>1, <1>3, <1>4, <1>7, ReturnStep DEF Listens
<1>8. CASE /\ processed' = [processed EXCEPT ![c] = n] /\ processed'[c] = Cardinality(asked[c])
           /\ Return(c, "ok")
  <2>1. Cardinality(T) = Cardinality(target[c])
    BY <1>2, <1>5, <1>6, <1>8
  <2>2. T = target[c]
    BY <2>1, <1>5, TakenOfTarget, FS_Subset
  <2>3. \A x \in target[c] : <<c, x>> \in heard
    BY <2>2, <1>2 DEF Taken
  <2>4. {c} \X target[c] \subseteq heard
    BY <2>3
  <2> QED
    BY <2>4, <1>1, <1>3, <1>6, <1>8, ReturnStep DEF Listens
<1>9. CASE /\ processed' = [processed EXCEPT ![c] = n] /\ processed'[c] # Cardinality(asked[c])
           /\ inbox' = [inbox EXCEPT ![c] = Tail(inbox[c])]
           /\ UNCHANGED <<pc, outcome, joining, registered>>
  <2>1. inbox[c] \in Seq(Answers \cup {Noise}) /\ inbox[c] # <<>>
    BY <1>1 DEF IInv, CallsSafe, TypeOK, Listens
  <2>2. /\ Tail(inbox[c]) \in Seq(Answers \cup {Noise})
        /\ \A x : In(Tail(inbox[c]), x) => In(inbox[c], x)
        /\ \A d, x : Once(inbox[c], d, x) => Once(Tail(inbox[c]), d, x)
    BY <2>1, TailQueue
  <2>3. inbox'[c] = Tail(inbox[c]) /\ \A d \in Callers : d # c => inbox'[d] = inbox[d]
    BY <1>9 DEF IInv, CallsSafe, TypeOK
  <2>4. TypeOK'
    <3>1. inbox' \in [Callers -> Seq(Answers \cup {Noise})]
      BY <2>2, <1>9 DEF IInv, CallsSafe, TypeOK
    <3> QED
      BY <3>1, <1>1, <1>3, <1>6, <1>9 DEF IInv, CallsSafe, TypeOK
  <2>5. RequestInv'
    <3>1. \A d \in Callers, x \in Orders :
            /\ Mentions(inbox'[d], d, x) => Mentions(inbox[d], d, x)
            /\ Once(inbox[d], d, x) => Once(inbox'[d], d, x)
      BY <1>2, <2>2, <2>3
    <3> QED
      BY <3>1, <1>1 DEF IInv, RequestInv
  <2>6. TruthInv'
    <3> SUFFICES ASSUME NEW x \in Answers, In(publishCh, x) \/ In(inbox'[x.caller], x)
                 PROVE  Truth(x)'
      BY <1>1 DEF TruthInv
    <3>1. x.caller \in Callers
      BY DEF Answers
    <3>2. Truth(x)
      BY <3>1, <2>2, <2>3 DEF IInv, TruthInv
    <3> QED
      BY <3>2, <1>1, SameKinds DEF Truth
  <2>7. CountInv'
    <3>1. Taken(c)' = T
      <4>1. o \in Orders
        BY <1>2, TakenOfTarget
      <4>2. Taken(c)' = {x \in Orders : <<c, x>> \in heard
                                         /\ ~Mentions(Tail(inbox[c]), c, x)}
        BY <1>1, <2>3 DEF Taken
      <4> HIDE DEF o
      <4>3. \A x : x \in Taken(c)' <=> x \in T
        BY <4>1, <4>2, <1>2 DEF Taken
      <4> QED
        BY <4>3
    <3>2. \A d \in Callers : d # c => Taken(d)' = Taken(d)
      BY <1>1, <2>3 DEF Taken
    <3>3. processed'[c] < Cardinality(target[c])
      <4> HIDE DEF n
      <4> QED
        BY <1>2, <1>5, <1>6, <1>9, TakenOfTarget
    <3> SUFFICES ASSUME NEW d \in Callers
                 PROVE  /\ pc[d] # "ended" => Cardinality(Taken(d)') = processed'[d]
                        /\ d \notin Batches => processed'[d] = 0
                        /\ pc[d] # "ended" /\ target[d] # {} =>
                             processed'[d] < Cardinality(target[d])
      BY <1>1, <1>9, SameKinds DEF CountInv
    <3>4. CASE d = c
      BY <3>4, <3>1, <3>3, <1>1, <1>5, <1>6, <1>9
    <3>5. CASE d # c
      BY <3>5, <3>2, <1>6, <1>9 DEF IInv, CountInv
    <3> QED
      BY <3>4, <3>5
  <2> QED
    BY <1>1, <1>3, <1>9, <2>4, SameCall, <2>5, SameFresh, <2>6, <2>7, SameOutcomes
    DEF IInv, CallsSafe, Outcomes
<1> QED
  BY <1>1, <1>7, <1>8, <1>9

(* The broker.                                                             *)

LEMMA RegisterStep ==
  ASSUME IInv, NEW c \in Callers, Register(c) PROVE IInv'
<1>1. /\ c \in joining /\ joining' = joining \ {c} /\ registered' = registered \cup {c}
      /\ UNCHANGED <<kind, pc, target, asked, processed, outcome, got, wire, publishCh,
                     inbox, market, ctxDone, atSend, heard>>
  BY DEF Register, call
<1>2. TypeOK'
  BY <1>1 DEF IInv, CallsSafe, TypeOK
<1>3. CallInv'
  BY <1>1, SameKinds DEF IInv, CallInv
<1> QED
  BY <1>1, <1>2, <1>3, SameRequests, SameFresh, SameTruth, SameCount, SameOutcomes
  DEF IInv, CallsSafe, Outcomes

LEMMA FanOutStep ==
  ASSUME IInv, FanOut PROVE IInv'
<1> DEFINE m == Head(publishCh)
<1>1. /\ publishCh # <<>> /\ publishCh' = Tail(publishCh)
      /\ inbox' = [c \in Callers |-> IF c \in registered THEN Append(inbox[c], m)
                                     ELSE inbox[c]]
      /\ heard' = IF m.caller \in registered THEN heard \cup {<<m.caller, m.order>>} ELSE heard
      /\ UNCHANGED <<kind, pc, target, asked, processed, outcome, got, joining, registered,
                     wire, market, ctxDone, atSend>>
  BY DEF FanOut, call
<1>2. publishCh \in Seq(Answers) /\ registered \subseteq Callers
  BY DEF IInv, CallsSafe, TypeOK
<1>3. /\ m \in Answers /\ Tail(publishCh) \in Seq(Answers) /\ In(publishCh, m)
      /\ \A x : In(Tail(publishCh), x) => In(publishCh, x)
      /\ \A c, o : Mentions(publishCh, c, o)
                     <=> Mentions(Tail(publishCh), c, o) \/ About(m, c, o)
      /\ \A c, o : Once(publishCh, c, o) => /\ Once(Tail(publishCh), c, o)
                                            /\ ~(About(m, c, o) /\ Mentions(Tail(publishCh), c, o))
  BY <1>1, <1>2, TailQueue
<1> HIDE DEF m
<1>4. m.caller \in Callers /\ m.order \in Orders /\ About(m, m.caller, m.order)
  BY <1>3 DEF Answers, About
<1>5. /\ m.order \in asked[m.caller] /\ <<m.caller, m.order>> \notin wire \cup heard
      /\ ~Mentions(Tail(publishCh), m.caller, m.order)
  BY <1>3, <1>4 DEF IInv, RequestInv
<1>6. ASSUME NEW c \in Callers
      PROVE  /\ inbox'[c] \in Seq(Answers \cup {Noise})
             /\ \A x : In(inbox'[c], x) => In(inbox[c], x) \/ x = m
             /\ \A d, o : Mentions(inbox'[c], d, o)
                            <=> Mentions(inbox[c], d, o) \/ (c \in registered /\ About(m, d, o))
             /\ \A d, o : Once(inbox[c], d, o) /\ ~(Mentions(inbox[c], d, o) /\ About(m, d, o))
                            => Once(inbox'[c], d, o)
  <2>1. inbox[c] \in Seq(Answers \cup {Noise}) /\ m \in Answers \cup {Noise}
    BY <1>3 DEF IInv, CallsSafe, TypeOK
  <2>2. CASE c \in registered
    <3>1. inbox'[c] = Append(inbox[c], m)
      BY <2>2, <1>1
    <3> QED
      BY <2>1, <2>2, <3>1, AppendQueue
  <2>3. CASE c \notin registered
    <3>1. inbox'[c] = inbox[c]
      BY <2>3, <1>1
    <3> QED
      BY <2>1, <2>3, <3>1
  <2> QED
    BY <2>2, <2>3
<1>7. /\ \A c, o : About(m, c, o) <=> c = m.caller /\ o = m.order
      /\ \A c \in Callers, o \in Orders :
           <<c, o>> \in heard' <=> <<c, o>> \in heard \/ (c \in registered /\ About(m, c, o))
  BY <1>1, <1>4 DEF About
<1>8. TypeOK'
  <2>1. inbox' \in [Callers -> Seq(Answers \cup {Noise})]
    BY <1>1, <1>6
  <2>2. heard' \subseteq Callers \X Orders
    BY <1>1, <1>4 DEF IInv, CallsSafe, TypeOK
  <2>3. publishCh' \in Seq(Answers)
    BY <1>1, <1>3
  <2> QED
    BY <2>1, <2>2, <2>3, <1>1 DEF IInv, CallsSafe, TypeOK
<1>9. RequestInv'
  <2> SUFFICES ASSUME NEW c \in Callers, NEW o \in Orders
               PROVE  /\ <<c, o>> \in wire \cup heard' => o \in asked[c]
                      /\ <<c, o>> \notin wire \cap heard'
                      /\ Once(publishCh', c, o) /\ Once(inbox'[c], c, o)
                      /\ Mentions(publishCh', c, o) =>
                           o \in asked[c] /\ <<c, o>> \notin wire \cup heard'
                      /\ Mentions(inbox'[c], c, o) => <<c, o>> \in heard'
    BY <1>1 DEF RequestInv
  <2>1. /\ <<c, o>> \in wire \cup heard => o \in asked[c]
        /\ <<c, o>> \notin wire \cap heard
        /\ Once(publishCh, c, o) /\ Once(inbox[c], c, o)
        /\ Mentions(publishCh, c, o) => o \in asked[c] /\ <<c, o>> \notin wire \cup heard
        /\ Mentions(inbox[c], c, o) => <<c, o>> \in heard
    BY DEF IInv, RequestInv
  <2>2. CASE About(m, c, o)
    <3>1. c = m.caller /\ o = m.order
      BY <2>2 DEF About
    <3> QED
      BY <2>1, <2>2, <3>1, <1>1, <1>3, <1>5, <1>6, <1>7
  <2>3. CASE ~About(m, c, o)
    <3>1. /\ <<c, o>> \in heard' <=> <<c, o>> \in heard
          /\ Mentions(inbox'[c], c, o) <=> Mentions(inbox[c], c, o)
          /\ Mentions(publishCh', c, o) <=> Mentions(publishCh, c, o)
          /\ Once(publishCh', c, o) /\ Once(inbox'[c], c, o)
      BY <2>1, <2>3, <1>1, <1>3, <1>6, <1>7
    <3> QED
      BY <2>1, <3>1
  <2> QED
    BY <2>2, <2>3
<1>10. TruthInv'
  <2> SUFFICES ASSUME NEW x \in Answers, In(publishCh', x) \/ In(inbox'[x.caller], x)
               PROVE  Truth(x)'
    BY DEF TruthInv
  <2>1. x.caller \in Callers
    BY DEF Answers
  <2>2. In(publishCh, x) \/ In(inbox[x.caller], x)
    BY <2>1, <1>1, <1>3, <1>6
  <2>3. Truth(x)
    BY <2>2 DEF IInv, TruthInv
  <2> QED
    BY <2>3, <1>1, SameKinds DEF Truth
<1>11. CountInv'
  <2>1. \A c \in Callers : Taken(c)' = Taken(c)
    <3> SUFFICES ASSUME NEW c \in Callers, NEW o \in Orders
                 PROVE  (<<c, o>> \in heard' /\ ~Mentions(inbox'[c], c, o))
                          <=> (<<c, o>> \in heard /\ ~Mentions(inbox[c], c, o))
      BY DEF Taken
    <3>1. CASE About(m, c, o)
      <4>1. c = m.caller /\ o = m.order
        BY <3>1 DEF About
      <4> QED
        BY <3>1, <4>1, <1>5, <1>6, <1>7
    <3>2. CASE ~About(m, c, o)
      BY <3>2, <1>6, <1>7
    <3> QED
      BY <3>1, <3>2
  <2> QED
    BY <2>1, <1>1, SameKinds DEF IInv, CountInv
<1>12. Outcomes'
  <2>1. heard \subseteq heard'
    BY <1>1
  <2>2. GivesUpUnheard'
    <3> SUFFICES ASSUME NEW c \in Callers, outcome[c] \in {"timeout", "panic"}, target[c] # {}
                 PROVE  ({c} \X target[c]) \ heard' # {}
      BY <1>1 DEF GivesUpUnheard
    <3>1. c \notin registered
      BY DEF IInv, CallInv
    <3>2. PICK o \in target[c] : <<c, o>> \notin heard
      BY DEF IInv, CallsSafe, GivesUpUnheard
    <3>3. <<c, o>> \notin heard'
      BY <3>1, <3>2, <1>1
    <3> QED
      BY <3>3
  <2>3. BatchLooksAtAll'
    BY <2>1, <1>1, SameKinds DEF IInv, CallsSafe, BatchLooksAtAll
  <2>4. CancelTellsTruth' /\ AnswerIsFresh'
    BY <1>1, SameKinds DEF IInv, CallsSafe, CancelTellsTruth, AnswerIsFresh
  <2> QED
    BY <2>2, <2>3, <2>4 DEF Outcomes
<1> QED
  BY <1>1, <1>8, SameCall, <1>9, SameFresh, <1>10, <1>11, <1>12 DEF IInv, CallsSafe, Outcomes

LEMMA FanOutNoiseStep ==
  ASSUME IInv, NEW c \in Callers, FanOutNoise(c) PROVE IInv'
<1>1. /\ inbox[c] = <<>> /\ inbox' = [inbox EXCEPT ![c] = <<Noise>>]
      /\ UNCHANGED <<kind, pc, target, asked, processed, outcome, got, joining, registered,
                     wire, publishCh, market, ctxDone, atSend, heard>>
  BY DEF FanOutNoise, call
<1>2. /\ <<Noise>> \in Seq(Answers \cup {Noise}) /\ Len(<<Noise>>) = 1
      /\ <<Noise>>[1] = Noise
  OBVIOUS
<1>3. inbox'[c] = <<Noise>> /\ \A d \in Callers : d # c => inbox'[d] = inbox[d]
  BY <1>1 DEF IInv, CallsSafe, TypeOK
<1>4. Noise.caller \notin Callers
  BY NoiseAssumption DEF Noise
<1>5. /\ \A m \in Answers : ~In(<<Noise>>, m)
      /\ \A d \in Callers : \A o : ~Mentions(<<Noise>>, d, o) /\ Once(<<Noise>>, d, o)
  BY <1>2, <1>4 DEF Answers, In, Mentions, Once, About
<1>6. /\ \A d \in Callers : \A m \in Answers : In(inbox'[d], m) => In(inbox[d], m)
      /\ \A d \in Callers, o \in Orders :
           /\ Mentions(inbox'[d], d, o) <=> Mentions(inbox[d], d, o)
           /\ Once(inbox[d], d, o) => Once(inbox'[d], d, o)
  BY <1>1, <1>3, <1>5, EmptyQueue
<1>7. TypeOK'
  <2>1. inbox' \in [Callers -> Seq(Answers \cup {Noise})]
    BY <1>1, <1>2 DEF IInv, CallsSafe, TypeOK
  <2> QED
    BY <2>1, <1>1 DEF IInv, CallsSafe, TypeOK
<1>8. RequestInv'
  BY <1>1, <1>6 DEF IInv, RequestInv
<1>9. TruthInv'
  <2> SUFFICES ASSUME NEW m \in Answers, In(publishCh, m) \/ In(inbox'[m.caller], m)
               PROVE  Truth(m)'
    BY <1>1 DEF TruthInv
  <2>1. m.caller \in Callers
    BY DEF Answers
  <2>2. Truth(m)
    BY <2>1, <1>6 DEF IInv, TruthInv
  <2> QED
    BY <2>2, <1>1, SameKinds DEF Truth
<1>10. CountInv'
  <2>1. \A d \in Callers : Taken(d)' = Taken(d)
    BY <1>1, <1>6 DEF Taken
  <2> QED
    BY <2>1, <1>1, SameKinds DEF IInv, CountInv
<1> QED
  BY <1>1, <1>7, SameCall, <1>8, SameFresh, <1>9, <1>10, SameOutcomes
  DEF IInv, CallsSafe, Outcomes

(* The exchange.                                                           *)

\* An order that stops being live changes nothing that was said of it.
LEMMA MarketMoves ==
  ASSUME IInv, UNCHANGED <<kind, target, asked, outcome, got, atSend, heard>>,
         \A o \in Orders : market'[o] = market[o] \/ (market[o] = "live" /\ market'[o] # "live")
  PROVE  /\ FreshInv' /\ Outcomes'
         /\ \A m \in Answers : In(publishCh, m) \/ In(inbox[m.caller], m) => Truth(m)'
<1>1. \A c \in Callers : target[c] \subseteq Orders
  BY DEF IInv, CallsSafe, TypeOK
<1>2. FreshInv'
  <2> SUFFICES ASSUME NEW c \in Getters, asked[c] # {}, NEW o \in target[c], market'[o] = "live"
               PROVE  atSend[c] = "live"
    BY SameKinds DEF FreshInv
  <2>1. market[o] = "live"
    BY <1>1 DEF Getters
  <2> QED
    BY <2>1 DEF IInv, FreshInv
<1>3. ASSUME NEW c \in Getters, NEW o \in target[c], asked[c] # {}, NEW s \in {atSend[c], market[o]}
      PROVE  s \in {atSend[c], market'[o]}
  <2>1. o \in Orders
    BY <1>1 DEF Getters
  <2>2. CASE market'[o] = market[o]
    BY <2>2
  <2>3. CASE market[o] = "live"
    BY <1>3, <2>3 DEF IInv, FreshInv
  <2> QED
    BY <2>1, <2>2, <2>3
<1>4. AnswerIsFresh'
  <2> SUFFICES ASSUME NEW c \in Getters, NEW o \in target[c], outcome[c] = "ok"
               PROVE  got[c] \in {atSend[c], market'[o]}
    BY SameKinds DEF AnswerIsFresh
  <2>1. asked[c] # {}
    BY DEF IInv, CallInv, Getters
  <2>2. got[c] \in {atSend[c], market[o]}
    BY DEF IInv, AnswerIsFresh
  <2> QED
    BY <2>1, <2>2, <1>3
<1>5. CancelTellsTruth'
  <2> SUFFICES ASSUME NEW c \in Cancellers, NEW o \in target[c]
               PROVE  /\ outcome[c] = "ok" => market'[o] = "cancelled"
                      /\ outcome[c] = "doneOrder" => market'[o] = "done"
    BY SameKinds DEF CancelTellsTruth
  <2>1. o \in Orders
    BY <1>1 DEF Cancellers
  <2> QED
    BY <2>1 DEF IInv, CallsSafe, CancelTellsTruth
<1>6. GivesUpUnheard' /\ BatchLooksAtAll'
  BY SameKinds DEF IInv, CallsSafe, GivesUpUnheard, BatchLooksAtAll
<1>7. ASSUME NEW m \in Answers, In(publishCh, m) \/ In(inbox[m.caller], m) PROVE Truth(m)'
  <2>1. m.caller \in Callers /\ m.order \in Orders
    BY DEF Answers
  <2>2. Truth(m)
    BY <1>7 DEF IInv, TruthInv
  <2>3. m.order \in asked[m.caller]
    <3>1. \/ Mentions(publishCh, m.caller, m.order)
          \/ Mentions(inbox[m.caller], m.caller, m.order)
      BY <1>7 DEF In, Mentions, About
    <3> QED
      BY <2>1, <3>1 DEF IInv, RequestInv
  <2>4. m.order \in target[m.caller]
    BY <2>1, <2>3 DEF IInv, CallInv
  <2>5. m.caller \in Getters /\ m.result \in States =>
          m.result \in {atSend[m.caller], market'[m.order]}
    BY <2>2, <2>3, <2>4, <1>3 DEF Truth
  <2>6. m.caller \in Cancellers =>
          /\ m.result \in {"ok", "wasCancelled"} => market'[m.order] = "cancelled"
          /\ m.result = "wasDone" => market'[m.order] = "done"
          /\ m.result \in {"ok", "wasCancelled", "wasDone", "refused"}
    BY <2>1, <2>2 DEF Truth
  <2> QED
    BY <2>5, <2>6, SameKinds DEF Truth
<1> QED
  BY <1>2, <1>4, <1>5, <1>6, <1>7 DEF Outcomes

\* The exchange's answer takes the request's place, and is true.
LEMMA AnswerStep ==
  ASSUME IInv, NEW c \in Callers, NEW o \in Orders, NEW r \in Results, Answer(c, o, r),
         market' \in [Orders -> States],
         \A x \in Orders : market'[x] = market[x] \/ (market[x] = "live" /\ market'[x] # "live"),
         Truth([caller |-> c, order |-> o, result |-> r])'
  PROVE  IInv'
<1> DEFINE m == [caller |-> c, order |-> o, result |-> r]
<1>1. /\ <<c, o>> \in wire /\ wire' = wire \ {<<c, o>>} /\ publishCh' = Append(publishCh, m)
      /\ UNCHANGED <<kind, pc, target, asked, processed, outcome, got, joining, registered,
                     inbox, ctxDone, atSend, heard>>
  BY DEF Answer, call
<1>2. m \in Answers /\ m.caller = c /\ m.order = o /\ Truth(m)'
  BY DEF Answers
<1> HIDE DEF m
<1>3. publishCh \in Seq(Answers)
  BY DEF IInv, CallsSafe, TypeOK
<1>4. /\ publishCh' \in Seq(Answers)
      /\ \A x : In(publishCh', x) => In(publishCh, x) \/ x = m
      /\ \A d, x : Mentions(publishCh', d, x) <=> Mentions(publishCh, d, x) \/ About(m, d, x)
      /\ \A d, x : Once(publishCh, d, x) /\ ~(Mentions(publishCh, d, x) /\ About(m, d, x))
                     => Once(publishCh', d, x)
  BY <1>1, <1>2, <1>3, AppendQueue
<1>5. TypeOK'
  BY <1>1, <1>4 DEF IInv, CallsSafe, TypeOK
<1>6. RequestInv'
  <2>1. \A d, x : About(m, d, x) <=> d = c /\ x = o
    BY <1>2 DEF About
  <2>2. o \in asked[c] /\ <<c, o>> \notin heard /\ ~Mentions(publishCh, c, o)
    BY <1>1 DEF IInv, RequestInv
  <2>3. \A d \in Callers, x \in Orders :
          <<d, x>> \in wire' <=> <<d, x>> \in wire /\ ~About(m, d, x)
    BY <1>1, <2>1
  <2> QED
    BY <2>1, <2>2, <2>3, <1>1, <1>4 DEF IInv, RequestInv
<1>7. FreshInv' /\ Outcomes'
  BY <1>1, MarketMoves
<1>8. TruthInv'
  <2> SUFFICES ASSUME NEW x \in Answers, In(publishCh', x) \/ In(inbox[x.caller], x)
               PROVE  Truth(x)'
    BY <1>1 DEF TruthInv
  <2>1. CASE x = m
    BY <2>1, <1>2
  <2>2. CASE x # m
    BY <2>2, <1>1, <1>4, MarketMoves
  <2> QED
    BY <2>1, <2>2
<1> QED
  BY <1>1, <1>5, SameCall, <1>6, <1>7, <1>8, SameCount DEF IInv, CallsSafe, Outcomes

LEMMA ExchangeCancelsStep ==
  ASSUME IInv, NEW c \in Callers, NEW o \in Orders, ExchangeCancels(c, o) PROVE IInv'
<1>1. c \in Cancellers /\ c \notin Getters /\ market \in [Orders -> States]
  BY DEF ExchangeCancels, Cancellers, Getters, IInv, CallsSafe, TypeOK
<1>2. PICK r \in {"ok", "wasDone", "wasCancelled", "refused"} :
        /\ Answer(c, o, r)
        /\ \/ market[o] = "live" /\ r = "ok" /\ market' = [market EXCEPT ![o] = "cancelled"]
           \/ /\ market' = market
              /\ r = "wasDone" => market[o] = "done"
              /\ r \in {"ok", "wasCancelled"} => market[o] = "cancelled"
  <2>1. CASE /\ market[o] = "live" /\ Answer(c, o, "ok")
             /\ market' = [market EXCEPT ![o] = "cancelled"]
    BY <2>1
  <2>2. CASE /\ market[o] # "live" /\ market' = market
             /\ Answer(c, o, IF market[o] = "done" THEN "wasDone" ELSE "wasCancelled")
    BY <2>2, <1>1 DEF States
  <2>3. CASE Answer(c, o, "refused") /\ market' = market
    BY <2>3
  <2> QED
    BY <2>1, <2>2, <2>3 DEF ExchangeCancels
<1>3. /\ market' \in [Orders -> States]
      /\ \A x \in Orders : market'[x] = market[x] \/ (market[x] = "live" /\ market'[x] # "live")
      /\ r = "wasDone" => market'[o] = "done"
      /\ r \in {"ok", "wasCancelled"} => market'[o] = "cancelled"
  BY <1>1, <1>2 DEF States
<1>4. Truth([caller |-> c, order |-> o, result |-> r])'
  <2>1. c \notin Getters'
    BY <1>1, <1>2 DEF Answer, call, Getters
  <2> QED
    BY <2>1, <1>2, <1>3 DEF Truth
<1>5. r \in Results
  BY DEF Results
<1> QED
  BY <1>2, <1>3, <1>4, <1>5, AnswerStep

LEMMA ExchangeGetsStep ==
  ASSUME IInv, NEW c \in Callers, NEW o \in Orders, ExchangeGets(c, o) PROVE IInv'
<1>1. PICK r \in {market[o], "refused", "noOrder"} : Answer(c, o, r)
  BY DEF ExchangeGets
<1>2. c \notin Cancellers /\ market' = market /\ market \in [Orders -> States] /\ r \in Results
  BY DEF ExchangeGets, IInv, CallsSafe, TypeOK, Results
<1>3. Truth([caller |-> c, order |-> o, result |-> r])'
  <2>1. c \notin Cancellers'
    BY <1>1, <1>2 DEF Answer, call, Cancellers
  <2>2. r \in States => r = market[o]
    BY DEF States
  <2> QED
    BY <2>1, <2>2, <1>2 DEF Truth
<1> QED
  BY <1>1, <1>2, <1>3, AnswerStep

LEMMA ExchangeMovesStep ==
  ASSUME IInv, NEW o \in Orders, ExchangeMoves(o) PROVE IInv'
<1>1. PICK s \in {"done", "cancelled"} : market' = [market EXCEPT ![o] = s]
  BY DEF ExchangeMoves
<1>2. /\ market[o] = "live" /\ market \in [Orders -> States]
      /\ UNCHANGED <<kind, pc, target, asked, processed, outcome, got, joining, registered,
                     wire, publishCh, inbox, ctxDone, atSend, heard>>
  BY DEF ExchangeMoves, call, broker, IInv, CallsSafe, TypeOK
<1>3. /\ market' \in [Orders -> States]
      /\ \A x \in Orders : market'[x] = market[x] \/ (market[x] = "live" /\ market'[x] # "live")
  BY <1>1, <1>2 DEF States
<1>4. TypeOK'
  BY <1>2, <1>3 DEF IInv, CallsSafe, TypeOK
<1>5. FreshInv' /\ Outcomes'
  BY <1>2, <1>3, MarketMoves
<1>6. TruthInv'
  BY <1>2, <1>3, MarketMoves DEF TruthInv
<1> QED
  BY <1>2, <1>4, SameCall, SameRequests, <1>5, <1>6, SameCount DEF IInv, CallsSafe, Outcomes

\* Neither the signal nor a step that changes nothing touches what is said.
LEMMA InterruptedStep ==
  ASSUME IInv, Interrupted \/ UNCHANGED vars PROVE IInv'
<1>1. /\ UNCHANGED <<kind, pc, target, asked, processed, outcome, got, joining, registered,
                     wire, publishCh, inbox, market, atSend, heard>>
      /\ ctxDone' = TRUE \/ ctxDone' = ctxDone
  BY DEF Interrupted, call, broker, vars
<1>2. TypeOK'
  BY <1>1 DEF IInv, CallsSafe, TypeOK
<1> QED
  BY <1>1, <1>2, SameCall, SameRequests, SameFresh, SameTruth, SameCount, SameOutcomes
  DEF IInv, CallsSafe, Outcomes

(* The theorems.                                                           *)

LEMMA InitIInv == Init => IInv
<1> SUFFICES ASSUME Init PROVE IInv
  OBVIOUS
<1> USE DEF Init
<1>1. TypeOK
  <2>1. Cardinality(Orders) \in Nat /\ <<>> \in Seq(Answers) /\ <<>> \in Seq(Answers \cup {Noise})
    BY OrdersAssumption, FS_CardinalityType
  <2>2. /\ processed \in [Callers -> 0 .. Cardinality(Orders)]
        /\ inbox \in [Callers -> Seq(Answers \cup {Noise})]
    BY <2>1
  <2> QED
    BY <2>1, <2>2 DEF TypeOK
<1>2. Outcomes
  BY DEF Outcomes, CancelTellsTruth, GivesUpUnheard, BatchLooksAtAll, AnswerIsFresh,
         Cancellers, Getters, Batches
<1>3. CallInv
  <2> SUFFICES ASSUME NEW c \in Callers, c \notin Batches PROVE \E o \in Orders : target[c] = {o}
    BY DEF CallInv
  <2>1. Cardinality(target[c]) = 1 /\ target[c] \subseteq Orders
    OBVIOUS
  <2>2. IsFiniteSet(target[c])
    BY <2>1, OrdersAssumption, FS_Subset
  <2>3. \E o : target[c] = {o}
    BY <2>1, <2>2, FS_Singleton
  <2> QED
    BY <2>1, <2>3
<1>4. RequestInv /\ TruthInv
  BY EmptyQueue DEF RequestInv, TruthInv, Answers
<1>5. FreshInv
  BY DEF FreshInv, Getters
<1>6. CountInv
  <2> SUFFICES ASSUME NEW c \in Callers
               PROVE  Cardinality(Taken(c)) = 0 /\ (target[c] # {} => 0 < Cardinality(target[c]))
    BY DEF CountInv
  <2>1. Taken(c) = {}
    BY DEF Taken
  <2>2. IsFiniteSet(target[c])
    BY OrdersAssumption, FS_Subset
  <2> QED
    BY <2>1, <2>2, FS_EmptySet, FS_CardinalityType
<1> QED
  BY <1>1, <1>2, <1>3, <1>4, <1>5, <1>6 DEF IInv, CallsSafe, Outcomes

LEMMA NextIInv == IInv /\ [Next]_vars => IInv'
<1> SUFFICES ASSUME IInv, [Next]_vars PROVE IInv'
  OBVIOUS
<1>1. ASSUME NEW c \in Callers, Subscribe(c) \/ Send(c) \/ NothingToSend(c) PROVE IInv'
  BY <1>1, SubscribeStep, SendStep, NothingToSendStep
<1>2. ASSUME NEW c \in Callers, Discard(c) \/ TimesOut(c) \/ ContextEnds(c) PROVE IInv'
  BY <1>2, DiscardStep, TimesOutStep, ContextEndsStep
<1>3. ASSUME NEW c \in Callers, Answered(c) PROVE IInv'
  BY <1>3, CancelAnsweredStep, GetAnsweredStep, BatchAnsweredStep DEF Answered
<1>4. ASSUME NEW c \in Callers, Register(c) \/ FanOutNoise(c) PROVE IInv'
  BY <1>4, RegisterStep, FanOutNoiseStep
<1>5. ASSUME NEW c \in Callers, NEW o \in Orders, ExchangeCancels(c, o) \/ ExchangeGets(c, o)
      PROVE  IInv'
  BY <1>5, ExchangeCancelsStep, ExchangeGetsStep
<1>6. CASE FanOut
  BY <1>6, FanOutStep
<1>7. ASSUME NEW o \in Orders, ExchangeMoves(o) PROVE IInv'
  BY <1>7, ExchangeMovesStep
<1>8. CASE Interrupted \/ UNCHANGED vars
  BY <1>8, InterruptedStep
<1> QED
  BY <1>1, <1>2, <1>3, <1>4, <1>5, <1>6, <1>7, <1>8 DEF Next

LEMMA Inductive == Spec => []IInv
<1> QED
  BY InitIInv, NextIInv, PTL DEF Spec

\* What CancelOrder and UpdateOrdersStates tell their callers is so, and no call
\* gives up on an answer it was sent: for any calls and orders.
THEOREM CallsTellTheTruth == Spec => []CallsSafe
<1>1. IInv => CallsSafe
  BY DEF IInv
<1> QED
  BY <1>1, Inductive, PTL

\* The state that UpdateOrderState stores and returns was the order's at some moment
\* after its request was sent.
THEOREM StoredStateIsFresh == Spec => []AnswerIsFresh
<1>1. IInv => AnswerIsFresh
  BY DEF IInv
<1> QED
  BY <1>1, Inductive, PTL
===============================================================================
