---------------------------- MODULE ArbitrageProofs ----------------------------
(***************************************************************************)
(* The arbitrage's chains keep to the money they were given, for any       *)
(* number of pairs and of chains, any volume and any capacity.             *)
(***************************************************************************)
EXTENDS Arbitrage, FiniteSetTheorems, TLAPS

(* The inductive invariant: Start's view of the chains, every chain's view *)
(* of its orders, and every order's of itself.                             *)

\* Chains are started in turn, from their first step, and an error of a step
\* that is Start's own has ended the context.
TurnOK(k) ==
  /\ at[k] = "off" <=> last < k
  /\ at[k] = "off" => step[k] = 1
  /\ result[k] = "none" <=> at[k] # "ended"
  /\ result[k] = "error" /\ step[k] # 3 => failed

\* A step's order does not exist before its request is sent; while the step
\* knows the id, and after it has ended well, the request was answered.
RequestOK(k) ==
  /\ at[k] \in {"off", "ready"} => wire[Order(k)] = "none"
  /\ at[k] = "sent" => ~known[k]
  /\ known[k] /\ at[k] \in {"answered", "watch", "cancelling"} => wire[Order(k)] = "used"
  /\ result[k] \in {"success", "notCompleted"} =>
       wire[Order(k)] = "used" /\ exch[Order(k)].st # "live"

\* Steps before the current one are done and have brought what the next one
\* sells; steps after it have not begun.
PastOK(k, s) ==
  /\ s > step[k] => wire[<<k, s>>] = "none"
  /\ s < step[k] => /\ wire[<<k, s>>] = "used"
                    /\ exch[<<k, s>>].st = "done"
                    /\ amount[<<k, s + 1>>] <= exch[<<k, s>>].got

\* The storage is behind the exchange, but right about what is done.
OrderOK(o) ==
  /\ exch[o].got <= amount[o]
  /\ exch[o].st = "live" => exch[o].got < amount[o]
  /\ wire[o] \in {"none", "sent", "refused"} => exch[o] = Absent
  /\ wire[o] = "none" => cancel[o] = "none"
  /\ stored[o].st = "done" => stored[o] = exch[o]
  /\ cancel[o] = "ok" => exch[o].st = "cancelled"
  /\ cancel[o] = "done" => exch[o].st = "done"

IInv ==
  /\ TypeOK
  /\ BusyMeansFirstSteps
  /\ \A k \in Chains : TurnOK(k)
  /\ \A k \in Chains : RequestOK(k)
  /\ \A k \in Chains, s \in Steps : PastOK(k, s)
  /\ \A o \in Orders : OrderOK(o)

LEMMA InitIInv == Init => IInv
<1> SUFFICES ASSUME Init PROVE IInv
  OBVIOUS
<1> USE ArbitrageAssumption
<1>1. Absent \in Snapshots
  BY DEF Absent, Snapshots, OrderStates
<1>2. TypeOK
  <2>1. ch \in 0..ChSize /\ last \in 0..MaxChains /\ noise \in 0..MaxNoise
    BY DEF Init
  <2>2. amount \in [Orders -> 0..Volume]
    BY DEF Init
  <2>3. exch \in [Orders -> Snapshots] /\ stored \in [Orders -> Snapshots]
    BY <1>1 DEF Init
  <2>4. known \in [Chains -> BOOLEAN] /\ woken \in [Chains -> BOOLEAN] /\ failed \in BOOLEAN
    BY DEF Init
  <2> QED
    BY <2>1, <2>2, <2>3, <2>4 DEF Init, TypeOK, Steps
<1>3. BusyMeansFirstSteps
  BY DEF Init, BusyMeansFirstSteps
<1>4. ASSUME NEW k \in Chains PROVE TurnOK(k)
  BY DEF Init, TurnOK, Chains
<1>5. ASSUME NEW k \in Chains PROVE Order(k) \in Orders
  BY DEF Init, Order, Orders, Steps
<1>6. ASSUME NEW k \in Chains PROVE RequestOK(k)
  BY <1>5 DEF Init, RequestOK
<1>7. ASSUME NEW k \in Chains, NEW s \in Steps PROVE PastOK(k, s)
  BY DEF Init, PastOK, Orders, Steps
<1>8. ASSUME NEW o \in Orders PROVE OrderOK(o)
  BY DEF Init, OrderOK, Absent
<1> QED
  BY <1>2, <1>3, <1>4, <1>6, <1>7, <1>8 DEF IInv

(* What the steps below have in common.                                    *)

LEMMA Places ==
  ASSUME TypeOK, NEW k \in Chains
  PROVE  /\ step[k] \in Steps /\ Order(k) = <<k, step[k]>> /\ Order(k) \in Orders
         /\ \A s \in Steps : s \in Nat \ {0} /\ <<k, s>> \in Orders
         /\ \A s \in Steps : s < step[k] => s + 1 \in Steps /\ <<k, s + 1>> \in Orders
         /\ \A o \in Orders : /\ exch[o] \in Snapshots /\ stored[o] \in Snapshots
                              /\ exch[o].got \in 0..Volume /\ amount[o] \in 0..Volume
<1>1. step[k] \in Steps
  BY DEF TypeOK
<1>2. \A s \in Steps : s \in Nat \ {0} /\ (s < step[k] => s + 1 \in Steps)
  BY <1>1 DEF Steps
<1>3. \A s \in Steps : <<k, s>> \in Orders
  BY DEF Orders
<1>4. \A o \in Orders : /\ exch[o] \in Snapshots /\ stored[o] \in Snapshots
                        /\ exch[o].got \in 0..Volume /\ amount[o] \in 0..Volume
  BY DEF TypeOK, Snapshots
<1> QED
  BY <1>1, <1>2, <1>3, <1>4 DEF Order

LEMMA SameOrders ==
  ASSUME IInv, UNCHANGED <<exchange, stored>> PROVE \A o \in Orders : OrderOK(o)'
  BY DEF IInv, OrderOK, exchange

LEMMA SamePast ==
  ASSUME IInv, UNCHANGED <<step, exchange>>
  PROVE  \A k \in Chains, s \in Steps : PastOK(k, s)'
  BY DEF IInv, PastOK, exchange

LEMMA SameTurn ==
  ASSUME IInv, UNCHANGED <<step, at, result, last, spc>>, failed => failed'
  PROVE  BusyMeansFirstSteps' /\ \A k \in Chains : TurnOK(k)'
  BY DEF IInv, TurnOK, BusyMeansFirstSteps

\* A step ends: if Start was busy with it, Start is so no more.
LEMMA EndStep ==
  ASSUME IInv, NEW k \in Chains, at[k] \in {"sent", "watch", "cancelling"},
         NEW res \in {"success", "notCompleted", "error"}, End(k, res),
         UNCHANGED <<step, last>>
  PROVE  /\ at' \in [Chains -> {"off", "ready", "sent", "answered", "watch", "cancelling",
                                "ended"}]
         /\ result' \in [Chains -> {"none", "success", "notCompleted", "error"}]
         /\ spc' \in {"idle", "busy", "stopped"} /\ failed' \in BOOLEAN
         /\ BusyMeansFirstSteps'
         /\ \A j \in Chains : TurnOK(j)'
<1> USE DEF IInv, End
<1>1. /\ at' = [at EXCEPT ![k] = "ended"] /\ result' = [result EXCEPT ![k] = res]
      /\ at'[k] = "ended" /\ result'[k] = res
      /\ \A j \in Chains : j # k => at'[j] = at[j] /\ result'[j] = result[j]
  BY DEF TypeOK
<1>2. failed' \in BOOLEAN
  BY DEF TypeOK
<1>3. failed => failed'
  OBVIOUS
<1>4. BusyMeansFirstSteps'
  <2>1. CASE step[k] = 3
    BY <2>1, <1>1 DEF BusyMeansFirstSteps
  <2>2. CASE step[k] # 3
    BY <2>2, <1>1 DEF BusyMeansFirstSteps
  <2> QED
    BY <2>1, <2>2
<1>5. ASSUME NEW j \in Chains PROVE TurnOK(j)'
  <2>1. CASE j = k
    BY <2>1, <1>1 DEF TurnOK
  <2>2. CASE j # k
    BY <2>2, <1>1, <1>3 DEF TurnOK
  <2> QED
    BY <2>1, <2>2
<1>6. spc' \in {"idle", "busy", "stopped"}
  BY DEF TypeOK
<1>7. /\ at' \in [Chains -> {"off", "ready", "sent", "answered", "watch", "cancelling",
                             "ended"}]
      /\ result' \in [Chains -> {"none", "success", "notCompleted", "error"}]
  BY <1>1 DEF TypeOK
<1> QED
  BY <1>2, <1>4, <1>5, <1>6, <1>7

\* A step goes on: whose turn it is stays.
LEMMA GoesOn ==
  ASSUME IInv, NEW k \in Chains, at[k] \notin {"off", "ended"},
         NEW place \in {"ready", "sent", "answered", "watch", "cancelling"},
         at' = [at EXCEPT ![k] = place], UNCHANGED <<step, last, spc, failed, result>>
  PROVE  BusyMeansFirstSteps' /\ \A j \in Chains : TurnOK(j)'
<1>1. at'[k] = place /\ \A j \in Chains : j # k => at'[j] = at[j]
  BY DEF IInv, TypeOK
<1>2. BusyMeansFirstSteps'
  BY <1>1 DEF IInv, BusyMeansFirstSteps
<1>3. ASSUME NEW j \in Chains PROVE TurnOK(j)'
  BY <1>1 DEF IInv, TurnOK
<1> QED
  BY <1>2, <1>3

(* The steps of the strategy.                                              *)

\* Book events do not touch a chain.
LEMMA EventStep ==
  ASSUME IInv,
         \/ \E p \in Pairs : PairEvent(p) \/ PairForward(p) \/ PairStop(p)
         \/ CheckNothing
  PROVE  IInv'
<1>1. TypeOK'
  <2> USE ArbitrageAssumption DEF IInv, TypeOK, chain, exchange
  <2>1. CASE \E p \in Pairs : PairEvent(p)
    BY <2>1 DEF PairEvent
  <2>2. CASE \E p \in Pairs : PairForward(p)
    BY <2>2 DEF PairForward
  <2>3. CASE \E p \in Pairs : PairStop(p)
    BY <2>3 DEF PairStop
  <2>4. CASE CheckNothing
    BY <2>4 DEF CheckNothing
  <2> QED
    BY <2>1, <2>2, <2>3, <2>4
<1>2. UNCHANGED <<spc, failed, last, chain, exchange, stored, noise>>
  BY DEF PairEvent, PairForward, PairStop, CheckNothing
<1>3. UNCHANGED <<step, at, known, result>>
  BY <1>2 DEF chain
<1>4. \A k \in Chains : RequestOK(k)'
  BY <1>2, <1>3 DEF IInv, RequestOK, exchange, Order
<1> QED
  BY <1>1, <1>2, <1>3, <1>4, SameOrders, SamePast, SameTurn DEF IInv

LEMMA StopStep ==
  ASSUME IInv, StartStop \/ Interrupted PROVE IInv'
<1>1. UNCHANGED <<events, last, chain, exchange, stored, noise>>
  BY DEF StartStop, Interrupted
<1>2. /\ failed => failed'
      /\ spc' \in {"idle", "busy", "stopped"}
      /\ spc' = "busy" <=> spc = "busy"
  BY DEF StartStop, Interrupted, IInv, TypeOK
<1>3. TypeOK'
  <2>1. failed' \in BOOLEAN
    BY DEF StartStop, Interrupted, IInv, TypeOK
  <2> QED
    BY <1>1, <1>2, <2>1 DEF IInv, TypeOK, events, chain, exchange
<1>4. BusyMeansFirstSteps'
  BY <1>1, <1>2 DEF IInv, BusyMeansFirstSteps, chain
<1>5. \A k \in Chains : TurnOK(k)'
  BY <1>1, <1>2 DEF IInv, TurnOK, chain
<1>6. \A k \in Chains : RequestOK(k)'
  BY <1>1 DEF IInv, RequestOK, chain, exchange, Order
<1>7. UNCHANGED step
  BY <1>1 DEF chain
<1> QED
  BY <1>1, <1>3, <1>4, <1>5, <1>6, <1>7, SameOrders, SamePast DEF IInv

\* A new chain is the newest; until then none was at its first two steps.
LEMMA CheckStartsStep ==
  ASSUME IInv, CheckStarts PROVE IInv'
<1> DEFINE n == last + 1
<1>1. /\ n \in Chains /\ at[n] = "off" /\ step[n] = 1 /\ last' = n /\ spc' = "busy"
      /\ spc = "idle"
  BY ArbitrageAssumption DEF CheckStarts, IInv, TypeOK, Chains, TurnOK
<1>2. /\ at' = [at EXCEPT ![n] = "ready"]
      /\ amount' = [amount EXCEPT ![<<n, 1>>] = Volume]
      /\ UNCHANGED <<lpc, failed, step, known, woken, result, wire, cancel, exch, stored,
                     noise>>
  BY DEF CheckStarts
<1>3. /\ at'[n] = "ready" /\ \A k \in Chains : k # n => at'[k] = at[k]
      /\ result[n] = "none"
  BY <1>1, <1>2 DEF IInv, TypeOK, TurnOK
<1>4. /\ <<n, 1>> \in Orders /\ wire[<<n, 1>>] = "none" /\ Order(n) = <<n, 1>>
      /\ amount'[<<n, 1>>] = Volume
      /\ \A o \in Orders : o # <<n, 1>> => amount'[o] = amount[o]
  BY <1>1, <1>2, Places DEF IInv, RequestOK, TypeOK
<1> HIDE DEF n
<1>5. TypeOK'
  <2>1. ch' \in 0..ChSize /\ last' \in 0..MaxChains
    BY <1>1, ArbitrageAssumption DEF CheckStarts, IInv, TypeOK, Chains
  <2>2. Volume \in 0..Volume
    BY ArbitrageAssumption
  <2>3. amount' \in [Orders -> 0..Volume]
    BY <1>2, <2>2 DEF IInv, TypeOK
  <2>4. at' \in [Chains -> {"off", "ready", "sent", "answered", "watch", "cancelling",
                           "ended"}]
    BY <1>2 DEF IInv, TypeOK
  <2> QED
    BY <2>1, <2>3, <2>4, <1>1, <1>2 DEF IInv, TypeOK
<1>6. BusyMeansFirstSteps'
  BY <1>1, <1>2, <1>3 DEF IInv, BusyMeansFirstSteps
<1>7. ASSUME NEW k \in Chains PROVE TurnOK(k)'
  <2>1. last' = last + 1 /\ last \in Nat /\ k \in Nat
    BY <1>1 DEF n, IInv, TypeOK, Chains
  <2>2. CASE k = n
    BY <2>1, <2>2, <1>1, <1>2, <1>3 DEF IInv, TurnOK
  <2>3. CASE k # n
    <3>1. at'[k] = "off" <=> last' < k
      BY <2>1, <2>3, <1>1, <1>3 DEF IInv, TurnOK
    <3> QED
      BY <3>1, <2>3, <1>2, <1>3 DEF IInv, TurnOK
  <2> QED
    BY <2>2, <2>3
<1>8. ASSUME NEW k \in Chains PROVE RequestOK(k)'
  BY <1>1, <1>2, <1>3, <1>4 DEF IInv, RequestOK, Order
<1>9. ASSUME NEW k \in Chains, NEW s \in Steps PROVE PastOK(k, s)'
  <2>1. s < step[k] => <<k, s + 1>> # <<n, 1>> /\ <<k, s + 1>> \in Orders
    <3>1. s \in Nat \ {0} /\ (s < step[k] => <<k, s + 1>> \in Orders)
      BY Places DEF IInv
    <3>2. s + 1 # 1
      BY <3>1
    <3> QED
      BY <3>1, <3>2
  <2> QED
    BY <2>1, <1>2, <1>4 DEF IInv, PastOK
<1>10. ASSUME NEW o \in Orders PROVE OrderOK(o)'
  <2>1. CASE o = <<n, 1>>
    BY <2>1, <1>2, <1>4, ArbitrageAssumption DEF IInv, OrderOK, Absent
  <2>2. CASE o # <<n, 1>>
    BY <2>2, <1>2, <1>4 DEF IInv, OrderOK
  <2> QED
    BY <2>1, <2>2
<1> QED
  BY <1>5, <1>6, <1>7, <1>8, <1>9, <1>10 DEF IInv

LEMMA SendStep ==
  ASSUME IInv, NEW k \in Chains, Send(k) PROVE IInv'
<1> DEFINE o == Order(k)
<1>1. /\ o \in Orders /\ o = <<k, step[k]>> /\ wire[o] = "none" /\ at[k] = "ready"
      /\ step[k] \in Steps
  BY Places DEF Send, IInv, RequestOK
<1>2. /\ wire' = [wire EXCEPT ![o] = "sent"] /\ at' = [at EXCEPT ![k] = "sent"]
      /\ known' = [known EXCEPT ![k] = FALSE]
      /\ UNCHANGED <<events, spc, failed, last, step, woken, result, amount, cancel, exch,
                     stored, noise>>
  BY DEF Send
<1> HIDE DEF o
<1>3. /\ wire'[o] = "sent" /\ \A x \in Orders : x # o => wire'[x] = wire[x]
      /\ at'[k] = "sent" /\ ~known'[k]
      /\ \A j \in Chains : j # k => at'[j] = at[j] /\ known'[j] = known[j]
  BY <1>1, <1>2 DEF IInv, TypeOK
<1>4. TypeOK'
  <2>1. known' \in [Chains -> BOOLEAN]
    BY <1>2 DEF IInv, TypeOK
  <2> QED
    BY <2>1, <1>1, <1>2 DEF IInv, TypeOK, events
<1>5. BusyMeansFirstSteps' /\ \A j \in Chains : TurnOK(j)'
  BY <1>1, <1>2, GoesOn
<1>6. ASSUME NEW j \in Chains PROVE RequestOK(j)'
  <2>1. CASE j = k
    BY <2>1, <1>2, <1>3, <1>1 DEF IInv, RequestOK, TurnOK
  <2>2. CASE j # k
    <3>1. Order(j) # o /\ Order(j) \in Orders /\ Order(j)' = Order(j)
      BY <2>2, <1>1, <1>2, Places DEF IInv, Order
    <3> QED
      BY <3>1, <2>2, <1>2, <1>3 DEF IInv, RequestOK
  <2> QED
    BY <2>1, <2>2
<1>7. ASSUME NEW j \in Chains, NEW s \in Steps PROVE PastOK(j, s)'
  <2>1. s # step[j] => <<j, s>> # o
    BY <1>1
  <2>2. <<j, s>> \in Orders /\ s \in Nat /\ step[j] \in Nat
    BY Places DEF IInv
  <2> QED
    BY <2>1, <2>2, <1>2, <1>3 DEF IInv, PastOK
<1>8. ASSUME NEW x \in Orders PROVE OrderOK(x)'
  BY <1>1, <1>2, <1>3 DEF IInv, OrderOK
<1> QED
  BY <1>4, <1>5, <1>6, <1>7, <1>8 DEF IInv

\* The answer to a request is taken: what can be said of the request as "created"
\* or "refused" can be said of it as "used".
LEMMA UsedOrders ==
  ASSUME IInv, NEW o \in Orders, wire[o] \in {"created", "refused"},
         wire' = [wire EXCEPT ![o] = "used"], UNCHANGED <<amount, cancel, exch, stored>>
  PROVE  \A x \in Orders : OrderOK(x)'
  BY DEF IInv, TypeOK, OrderOK

LEMMA AnsweredStep ==
  ASSUME IInv, NEW k \in Chains, Answered(k) PROVE IInv'
<1> DEFINE o == Order(k)
<1>1. /\ o \in Orders /\ o = <<k, step[k]>> /\ wire[o] \in {"created", "refused"}
      /\ at[k] = "sent" /\ step[k] \in Steps
  BY Places DEF Answered, IInv
<1>2. /\ wire' = [wire EXCEPT ![o] = "used"]
      /\ UNCHANGED <<events, last, step, woken, amount, cancel, exch, stored, noise>>
  BY DEF Answered
<1>3. \/ End(k, "error") /\ UNCHANGED known
      \/ /\ known' = [known EXCEPT ![k] = TRUE]
         /\ at' = [at EXCEPT ![k] = "answered"]
         /\ UNCHANGED <<spc, failed, result>>
  BY DEF Answered
<1> HIDE DEF o
<1>4. wire'[o] = "used" /\ \A x \in Orders : x # o => wire'[x] = wire[x]
  BY <1>1, <1>2 DEF IInv, TypeOK
<1>5. wire' \in [Orders -> {"none", "sent", "created", "refused", "used", "lost"}]
  BY <1>1, <1>2 DEF IInv, TypeOK
<1>6. \A x \in Orders : OrderOK(x)'
  BY <1>1, <1>2, UsedOrders
<1>7. ASSUME NEW j \in Chains, NEW s \in Steps PROVE PastOK(j, s)'
  <2>1. s # step[j] => <<j, s>> # o
    BY <1>1
  <2>2. <<j, s>> \in Orders /\ s \in Nat /\ step[j] \in Nat
    BY Places DEF IInv
  <2> QED
    BY <2>1, <2>2, <1>2, <1>4 DEF IInv, PastOK
<1>8. ASSUME NEW j \in Chains, j # k
      PROVE  Order(j) # o /\ Order(j) \in Orders /\ Order(j)' = Order(j)
  BY <1>8, <1>1, <1>2, Places DEF IInv, Order
<1>9. CASE End(k, "error") /\ UNCHANGED known
  <2>1. /\ at'[k] = "ended" /\ result'[k] = "error"
        /\ \A j \in Chains : j # k => at'[j] = at[j] /\ result'[j] = result[j]
    BY <1>9 DEF End, IInv, TypeOK
  <2>2. ASSUME NEW j \in Chains PROVE RequestOK(j)'
    <3>1. CASE j = k
      BY <3>1, <2>1 DEF RequestOK
    <3>2. CASE j # k
      BY <3>2, <2>1, <1>2, <1>4, <1>8, <1>9 DEF IInv, RequestOK
    <3> QED
      BY <3>1, <3>2
  <2>3. /\ at' \in [Chains -> {"off", "ready", "sent", "answered", "watch", "cancelling",
                               "ended"}]
        /\ result' \in [Chains -> {"none", "success", "notCompleted", "error"}]
        /\ spc' \in {"idle", "busy", "stopped"} /\ failed' \in BOOLEAN
        /\ BusyMeansFirstSteps'
        /\ \A j \in Chains : TurnOK(j)'
    BY <1>1, <1>2, <1>9, EndStep
  <2>4. TypeOK'
    BY <2>3, <1>2, <1>5, <1>9 DEF IInv, TypeOK, events
  <2> QED
    BY <2>2, <2>3, <2>4, <1>6, <1>7 DEF IInv
<1>10. CASE /\ known' = [known EXCEPT ![k] = TRUE]
            /\ at' = [at EXCEPT ![k] = "answered"]
            /\ UNCHANGED <<spc, failed, result>>
  <2>1. /\ at'[k] = "answered"
        /\ \A j \in Chains : j # k => at'[j] = at[j] /\ known'[j] = known[j]
    BY <1>10 DEF IInv, TypeOK
  <2>2. ASSUME NEW j \in Chains PROVE RequestOK(j)'
    <3>1. CASE j = k
      BY <3>1, <2>1, <1>1, <1>2, <1>4, <1>10 DEF IInv, RequestOK, TurnOK, Order
    <3>2. CASE j # k
      BY <3>2, <2>1, <1>2, <1>4, <1>8, <1>10 DEF IInv, RequestOK
    <3> QED
      BY <3>1, <3>2
  <2>3. BusyMeansFirstSteps' /\ \A j \in Chains : TurnOK(j)'
    BY <1>1, <1>2, <1>10, GoesOn
  <2>4. known' \in [Chains -> BOOLEAN]
    BY <1>10 DEF IInv, TypeOK
  <2>5. TypeOK'
    BY <2>4, <1>2, <1>5, <1>10 DEF IInv, TypeOK, events
  <2> QED
    BY <2>2, <2>3, <2>5, <1>6, <1>7 DEF IInv
<1> QED
  BY <1>3, <1>9, <1>10

\* An answer is lost: the step it was for stays where it is, and what can be said
\* of an answered request can be said of one whose answer was lost.
LEMMA LostStep ==
  ASSUME IInv, NEW k \in Chains, AnswerLost(k) \/ CancelLost(k) PROVE IInv'
<1> DEFINE o == Order(k)
<1>1. /\ o \in Orders /\ o = <<k, step[k]>>
      /\ UNCHANGED <<events, spc, failed, last, chain, amount, exch, stored, noise>>
  BY Places DEF AnswerLost, CancelLost, IInv
<1>2. \/ /\ at[k] = "sent" /\ wire[o] \in {"created", "refused"}
         /\ wire' = [wire EXCEPT ![o] = "lost"] /\ cancel' = cancel
      \/ /\ at[k] = "cancelling" /\ known[k]
         /\ cancel' = [cancel EXCEPT ![o] = "lost"] /\ wire' = wire
  BY DEF AnswerLost, CancelLost
<1>3. UNCHANGED <<step, at, known, woken, result>>
  BY <1>1 DEF chain
<1>4. /\ \A x \in Orders : x # o => wire'[x] = wire[x] /\ cancel'[x] = cancel[x]
      /\ \/ at[k] = "cancelling" /\ wire' = wire /\ wire[o] = "used"
         \/ at[k] = "sent" /\ ~known[k] /\ wire'[o] = "lost" /\ result[k] = "none"
  <2>1. /\ at[k] = "cancelling" /\ known[k] => wire[o] = "used"
        /\ at[k] = "sent" => ~known[k] /\ result[k] = "none"
    BY DEF IInv, RequestOK, TurnOK
  <2> HIDE DEF o
  <2> QED
    BY <2>1, <1>1, <1>2 DEF IInv, TypeOK
<1> HIDE DEF o
<1>5. TypeOK'
  <2>1. /\ wire' \in [Orders -> {"none", "sent", "created", "refused", "used", "lost"}]
        /\ cancel' \in [Orders -> {"none", "sent", "ok", "done", "error", "lost"}]
    BY <1>2 DEF IInv, TypeOK
  <2> QED
    BY <2>1, <1>1, <1>3 DEF IInv, TypeOK, events
<1>6. ASSUME NEW j \in Chains PROVE RequestOK(j)'
  <2>1. Order(j) \in Orders /\ Order(j)' = Order(j) /\ (j # k => Order(j) # o)
    BY <1>1, <1>3, Places DEF IInv, Order
  <2>2. CASE j # k
    BY <2>1, <2>2, <1>1, <1>3, <1>4 DEF IInv, RequestOK
  <2>3. CASE j = k
    BY <2>1, <2>3, <1>1, <1>3, <1>4 DEF IInv, RequestOK
  <2> QED
    BY <2>2, <2>3
<1>7. ASSUME NEW j \in Chains, NEW s \in Steps PROVE PastOK(j, s)'
  <2>1. s # step[j] => <<j, s>> # o
    BY <1>1
  <2>2. <<j, s>> \in Orders /\ s \in Nat /\ step[j] \in Nat
    BY Places DEF IInv
  <2> QED
    BY <2>1, <2>2, <1>1, <1>3, <1>4 DEF IInv, PastOK
<1>8. ASSUME NEW x \in Orders PROVE OrderOK(x)'
  <2>1. CASE x # o
    BY <2>1, <1>1, <1>4 DEF IInv, OrderOK
  <2>2. CASE x = o
    BY <2>2, <1>1, <1>2, <1>4 DEF IInv, TypeOK, OrderOK
  <2> QED
    BY <2>1, <2>2
<1> QED
  BY <1>1, <1>3, <1>5, <1>6, <1>7, <1>8, SameTurn DEF IInv

\* Steps that only move at and woken, and the cancel request of a known order.
LEMMA WaitStep ==
  ASSUME IInv, NEW k \in Chains, AnswerGivenUp(k) \/ Subscribe(k) \/ GivesUp(k)
  PROVE  IInv'
<1> DEFINE o == Order(k)
<1>1. o \in Orders /\ o = <<k, step[k]>> /\ at[k] \in {"sent", "answered", "watch"}
  BY Places DEF AnswerGivenUp, Subscribe, GivesUp, IInv
<1>2. PICK place \in {"answered", "watch", "cancelling"} :
        /\ at' = [at EXCEPT ![k] = place]
        /\ at[k] = "sent" => ~known[k]
  BY DEF AnswerGivenUp, Subscribe, GivesUp, IInv, RequestOK
<1>3. /\ cancel' = cancel \/ (known[k] /\ at[k] = "watch"
                                /\ cancel' = [cancel EXCEPT ![o] = "sent"])
      /\ UNCHANGED <<events, spc, failed, last, step, known, result, amount, wire, exch,
                     stored, noise>>
  BY DEF AnswerGivenUp, Subscribe, GivesUp, exchange
<1>4. woken' \in [Chains -> BOOLEAN]
  BY DEF AnswerGivenUp, Subscribe, GivesUp, IInv, TypeOK
<1> HIDE DEF o
<1>5. at'[k] = place /\ \A j \in Chains : j # k => at'[j] = at[j]
  BY <1>2 DEF IInv, TypeOK
<1>6. TypeOK'
  <2>1. cancel' \in [Orders -> {"none", "sent", "ok", "done", "error", "lost"}]
    BY <1>3 DEF IInv, TypeOK
  <2> QED
    BY <2>1, <1>2, <1>3, <1>4 DEF IInv, TypeOK, events
<1>7. BusyMeansFirstSteps' /\ \A j \in Chains : TurnOK(j)'
  BY <1>1, <1>2, <1>3, GoesOn
<1>8. ASSUME NEW j \in Chains PROVE RequestOK(j)'
  <2>1. Order(j)' = Order(j)
    BY <1>3 DEF Order
  <2>2. CASE j = k
    BY <2>1, <2>2, <1>1, <1>2, <1>3, <1>5 DEF IInv, RequestOK, TurnOK
  <2>3. CASE j # k
    BY <2>1, <2>3, <1>3, <1>5 DEF IInv, RequestOK
  <2> QED
    BY <2>2, <2>3
<1>9. ASSUME NEW j \in Chains, NEW s \in Steps PROVE PastOK(j, s)'
  BY <1>3 DEF IInv, PastOK
<1>10. ASSUME NEW x \in Orders PROVE OrderOK(x)'
  <2>1. known[k] /\ at[k] = "watch" => wire[o] = "used"
    BY DEF o, IInv, RequestOK
  <2>2. CASE x = o
    BY <2>1, <2>2, <1>1, <1>3 DEF IInv, TypeOK, OrderOK
  <2>3. CASE x # o
    BY <2>3, <1>3 DEF IInv, TypeOK, OrderOK
  <2> QED
    BY <2>2, <2>3
<1> QED
  BY <1>6, <1>7, <1>8, <1>9, <1>10 DEF IInv

\* A step is done; what it brought, which is what the storage says, is the amount
\* of the next.
LEMMA CompletesStep ==
  ASSUME IInv, NEW k \in Chains, Completes(k) PROVE IInv'
<1> DEFINE o == Order(k)
           got == stored[o].got
           next == <<k, step[k] + 1>>
<1>1. /\ o \in Orders /\ o = <<k, step[k]>> /\ at[k] = "watch" /\ known[k]
      /\ step[k] \in Steps
  BY Places DEF Completes, IInv
<1>2. /\ stored[o] = exch[o] /\ exch[o].st = "done" /\ wire[o] = "used"
      /\ exch[o].got = got /\ got \in 0..Volume
  BY <1>1, Places DEF Completes, IInv, OrderOK, RequestOK
<1>3. /\ UNCHANGED <<events, last, known, wire, cancel, exch, stored, noise>>
      /\ woken' \in [Chains -> BOOLEAN]
  BY DEF Completes, IInv, TypeOK
<1>4. CASE step[k] = 3
  <2>1. End(k, "success") /\ UNCHANGED <<step, amount>>
    BY <1>4 DEF Completes
  <2>2. /\ at'[k] = "ended" /\ result'[k] = "success"
        /\ \A j \in Chains : j # k => at'[j] = at[j] /\ result'[j] = result[j]
    BY <2>1 DEF End, IInv, TypeOK
  <2>3. /\ at' \in [Chains -> {"off", "ready", "sent", "answered", "watch", "cancelling",
                               "ended"}]
        /\ result' \in [Chains -> {"none", "success", "notCompleted", "error"}]
        /\ spc' \in {"idle", "busy", "stopped"} /\ failed' \in BOOLEAN
        /\ BusyMeansFirstSteps'
        /\ \A j \in Chains : TurnOK(j)'
    BY <1>1, <1>3, <2>1, EndStep
  <2>4. TypeOK'
    BY <2>1, <2>3, <1>3 DEF IInv, TypeOK, events
  <2>5. ASSUME NEW j \in Chains PROVE RequestOK(j)'
    BY <2>1, <2>2, <1>2, <1>3 DEF IInv, RequestOK, Order
  <2>6. UNCHANGED <<step, exchange, stored>>
    BY <2>1, <1>3 DEF exchange
  <2> QED
    BY <2>3, <2>4, <2>5, <2>6, SamePast, SameOrders DEF IInv
<1>5. CASE step[k] # 3
  <2>1. /\ step' = [step EXCEPT ![k] = @ + 1]
        /\ amount' = [amount EXCEPT ![next] = got]
        /\ at' = [at EXCEPT ![k] = "ready"]
        /\ spc' = IF step[k] = 2 THEN "idle" ELSE spc
        /\ UNCHANGED <<failed, result>>
    BY <1>5 DEF Completes
  <2>2. /\ step[k] \in {1, 2} /\ step[k] + 1 \in Steps /\ next \in Orders /\ next # o
        /\ step'[k] = step[k] + 1
    BY <1>1, <1>5, <2>1 DEF Steps, Orders, IInv, TypeOK
  <2>3. wire[next] = "none"
    <3>1. step[k] + 1 > step[k]
      BY <2>2
    <3>2. PastOK(k, step[k] + 1)
      BY <2>2 DEF IInv
    <3> QED
      BY <3>1, <3>2 DEF PastOK
  <2> HIDE DEF o, got, next
  <2>4. /\ at'[k] = "ready" /\ \A j \in Chains : j # k => at'[j] = at[j]
        /\ \A j \in Chains : j # k => step'[j] = step[j]
        /\ amount'[next] = got /\ \A x \in Orders : x # next => amount'[x] = amount[x]
    BY <2>1, <2>2 DEF IInv, TypeOK
  <2>5. TypeOK'
    <3>1. amount' \in [Orders -> 0..Volume]
      BY <2>1, <1>2 DEF IInv, TypeOK
    <3>2. step' \in [Chains -> Steps]
      BY <2>1, <2>2 DEF IInv, TypeOK
    <3>3. at' \in [Chains -> {"off", "ready", "sent", "answered", "watch", "cancelling",
                             "ended"}]
      BY <2>1 DEF IInv, TypeOK
    <3> QED
      BY <3>1, <3>2, <3>3, <2>1, <1>3 DEF IInv, TypeOK, events
  <2>6. spc = "busy" /\ k = last
    BY <1>1, <1>5 DEF IInv, BusyMeansFirstSteps
  <2>7. BusyMeansFirstSteps'
    BY <2>1, <2>2, <2>4, <2>6, <1>3 DEF IInv, BusyMeansFirstSteps
  <2>8. ASSUME NEW j \in Chains PROVE TurnOK(j)'
    BY <2>1, <2>4, <1>1, <1>3 DEF IInv, TurnOK
  <2>9. ASSUME NEW j \in Chains PROVE RequestOK(j)'
    <3>1. CASE j = k
      <4>1. Order(j)' = next
        BY <3>1, <2>2 DEF Order, next
      <4>2. result'[j] = "none"
        BY <3>1, <2>1, <1>1 DEF IInv, TurnOK
      <4> QED
        BY <4>1, <4>2, <3>1, <2>3, <2>4, <1>3 DEF RequestOK
    <3>2. CASE j # k
      BY <3>2, <2>1, <2>4, <1>3 DEF IInv, RequestOK, Order
    <3> QED
      BY <3>1, <3>2
  <2>10. ASSUME NEW j \in Chains, NEW s \in Steps PROVE PastOK(j, s)'
    <3>1. s \in Nat /\ step[j] \in Nat /\ s # 0
      BY Places DEF IInv
    <3>2. CASE j # k
      <4>1. <<j, s + 1>> # next
        BY <3>2 DEF next
      <4>2. s < step[j] => amount'[<<j, s + 1>>] = amount[<<j, s + 1>>]
        BY <4>1, <2>4, Places DEF IInv
      <4> QED
        BY <4>2, <3>2, <2>4, <1>3 DEF IInv, PastOK
    <3>3. CASE j = k /\ s < step[k]
      <4>1. <<j, s + 1>> # next
        BY <3>1, <3>3 DEF next
      <4>2. amount'[<<j, s + 1>>] = amount[<<j, s + 1>>]
        BY <4>1, <3>3, <2>4, Places DEF IInv
      <4>3. s < step'[k] /\ ~(s > step'[k])
        BY <3>1, <3>3, <2>2
      <4> QED
        BY <4>2, <4>3, <3>3, <1>3 DEF IInv, PastOK
    <3>4. CASE j = k /\ s = step[k]
      <4>1. <<j, s>> = o /\ <<j, s + 1>> = next /\ got <= exch[o].got
        BY <3>4, <1>1, <1>2 DEF next
      <4>2. s < step'[k] /\ ~(s > step'[k])
        BY <3>1, <3>4, <2>2
      <4> QED
        BY <4>1, <4>2, <3>4, <2>4, <1>2, <1>3 DEF PastOK
    <3>5. CASE j = k /\ s > step[k]
      <4>1. wire[<<j, s>>] = "none"
        BY <3>5 DEF IInv, PastOK
      <4>2. ~(s < step'[k])
        BY <3>1, <3>5, <2>2
      <4> QED
        BY <4>1, <4>2, <3>5, <1>3 DEF PastOK
    <3> QED
      BY <3>1, <3>2, <3>3, <3>4, <3>5
  <2>11. ASSUME NEW x \in Orders PROVE OrderOK(x)'
    <3>1. CASE x = next
      BY <3>1, <2>2, <2>3, <2>4, <1>2, <1>3 DEF IInv, OrderOK, Absent
    <3>2. CASE x # next
      BY <3>2, <2>4, <1>3 DEF IInv, OrderOK
    <3> QED
      BY <3>1, <3>2
  <2> QED
    BY <2>5, <2>7, <2>8, <2>9, <2>10, <2>11 DEF IInv
<1> QED
  BY <1>4, <1>5

\* What ends a step without the order being done: an error, or a cancellation
\* that was answered, of an order that is then no longer live.
LEMMA BackStep ==
  ASSUME IInv, NEW k \in Chains, StillWaits(k) \/ CancelBack(k) PROVE IInv'
<1> DEFINE o == Order(k)
<1>1. o \in Orders /\ at[k] \in {"watch", "cancelling"}
  BY Places DEF StillWaits, CancelBack, IInv
<1>2. /\ UNCHANGED <<events, last, step, known, exchange, stored, noise>>
      /\ woken' \in [Chains -> BOOLEAN]
  BY DEF StillWaits, CancelBack, IInv, TypeOK
<1>3. \/ UNCHANGED <<at, result, spc, failed>>
      \/ End(k, "error")
      \/ End(k, "notCompleted") /\ at[k] = "cancelling" /\ known[k]
           /\ cancel[o] \in {"ok", "done"}
  BY DEF StillWaits, CancelBack
<1> HIDE DEF o
<1>4. CASE UNCHANGED <<at, result, spc, failed>>
  <2>1. TypeOK'
    BY <1>4, <1>2 DEF IInv, TypeOK, events, exchange
  <2>2. \A j \in Chains : RequestOK(j)'
    BY <1>4, <1>2 DEF IInv, RequestOK, Order, exchange
  <2> QED
    BY <2>1, <2>2, <1>2, <1>4, SameTurn, SamePast, SameOrders DEF IInv
<1>5. ASSUME NEW res \in {"notCompleted", "error"}, End(k, res),
             res = "notCompleted" => wire[o] = "used" /\ exch[o].st # "live"
      PROVE  IInv'
  <2>1. /\ at'[k] = "ended" /\ result'[k] = res
        /\ \A j \in Chains : j # k => at'[j] = at[j] /\ result'[j] = result[j]
    BY <1>5 DEF End, IInv, TypeOK
  <2>2. /\ at' \in [Chains -> {"off", "ready", "sent", "answered", "watch", "cancelling",
                               "ended"}]
        /\ result' \in [Chains -> {"none", "success", "notCompleted", "error"}]
        /\ spc' \in {"idle", "busy", "stopped"} /\ failed' \in BOOLEAN
        /\ BusyMeansFirstSteps'
        /\ \A j \in Chains : TurnOK(j)'
    BY <1>1, <1>2, <1>5, EndStep
  <2>3. TypeOK'
    BY <2>2, <1>2 DEF IInv, TypeOK, events, exchange
  <2>4. ASSUME NEW j \in Chains PROVE RequestOK(j)'
    <3>1. CASE j = k
      BY <3>1, <2>1, <1>2, <1>5 DEF RequestOK, Order, exchange, o
    <3>2. CASE j # k
      BY <3>2, <2>1, <1>2 DEF IInv, RequestOK, Order, exchange
    <3> QED
      BY <3>1, <3>2
  <2> QED
    BY <2>2, <2>3, <2>4, <1>2, SamePast, SameOrders DEF IInv
<1>6. CASE End(k, "error")
  BY <1>5, <1>6
<1>7. CASE /\ End(k, "notCompleted") /\ at[k] = "cancelling" /\ known[k]
           /\ cancel[o] \in {"ok", "done"}
  <2>1. wire[o] = "used"
    BY <1>7 DEF IInv, RequestOK, o
  <2>2. exch[o].st # "live"
    BY <1>1, <1>7 DEF IInv, OrderOK
  <2> QED
    BY <2>1, <2>2, <1>5, <1>7
<1> QED
  BY <1>3, <1>4, <1>6, <1>7

(* The steps of the exchange and of accounting.                            *)

\* An order of a step that is over, or of one that has not begun, does not move.
LEMMA CreatesStep ==
  ASSUME IInv, NEW o \in Orders, Creates(o) PROVE IInv'
<1>1. /\ wire[o] = "sent" /\ exch[o] = Absent
      /\ UNCHANGED <<events, spc, failed, last, chain, amount, cancel, stored, noise>>
  BY DEF Creates, IInv, OrderOK
<1>2. /\ wire' \in [Orders -> {"none", "sent", "created", "refused", "used", "lost"}]
      /\ wire'[o] \in {"created", "refused"}
      /\ \A x \in Orders : x # o => wire'[x] = wire[x]
  BY DEF Creates, IInv, TypeOK
<1>3. \/ amount[o] > 0 /\ wire'[o] = "created" /\ exch' = [exch EXCEPT ![o].st = "live"]
      \/ wire'[o] = "refused" /\ UNCHANGED exch
  BY DEF Creates, IInv, TypeOK
<1>4. \A x \in Orders : x # o => exch'[x] = exch[x]
  BY <1>3 DEF IInv, TypeOK
<1>5. exch' \in [Orders -> Snapshots]
  <2>1. exch \in [Orders -> Snapshots] /\ exch[o] \in Snapshots
    BY DEF IInv, TypeOK
  <2>2. [exch[o] EXCEPT !.st = "live"] \in Snapshots
    BY <2>1 DEF Snapshots, OrderStates
  <2>3. exch' = exch \/ exch' = [exch EXCEPT ![o] = [exch[o] EXCEPT !.st = "live"]]
    BY <1>3
  <2> QED
    BY <2>1, <2>2, <2>3
<1>6. TypeOK'
  BY <1>1, <1>2, <1>5 DEF IInv, TypeOK, events, chain
<1>7. UNCHANGED <<step, at, known, result, last, spc, failed>>
  BY <1>1 DEF chain
<1>8. BusyMeansFirstSteps' /\ \A k \in Chains : TurnOK(k)'
  BY <1>7, SameTurn
<1>9. ASSUME NEW k \in Chains PROVE RequestOK(k)'
  <2>1. Order(k) \in Orders /\ Order(k)' = Order(k)
    BY <1>7, Places DEF IInv, Order
  <2>2. CASE Order(k) = o
    BY <2>1, <2>2, <1>1, <1>7 DEF IInv, RequestOK
  <2>3. CASE Order(k) # o
    BY <2>1, <2>3, <1>2, <1>4, <1>7 DEF IInv, RequestOK
  <2> QED
    BY <2>2, <2>3
<1>10. ASSUME NEW k \in Chains, NEW s \in Steps PROVE PastOK(k, s)'
  <2>1. <<k, s>> \in Orders
    BY Places DEF IInv
  <2>2. CASE <<k, s>> = o
    BY <2>2, <1>1, <1>7 DEF IInv, PastOK
  <2>3. CASE <<k, s>> # o
    BY <2>1, <2>3, <1>1, <1>2, <1>4, <1>7 DEF IInv, PastOK
  <2> QED
    BY <2>2, <2>3
<1>11. ASSUME NEW x \in Orders PROVE OrderOK(x)'
  <2>1. CASE x = o
    <3>1. stored[o].st # "done" /\ cancel[o] \notin {"ok", "done"}
      BY <1>1 DEF IInv, OrderOK, Absent
    <3>2. CASE amount[o] > 0 /\ wire'[o] = "created" /\ exch' = [exch EXCEPT ![o].st = "live"]
      <4>1. exch'[o].st = "live" /\ exch'[o].got = 0
        BY <3>2, <1>1 DEF IInv, TypeOK, Snapshots, Absent
      <4>2. amount[o] \in Nat
        BY ArbitrageAssumption DEF IInv, TypeOK
      <4> QED
        BY <4>1, <4>2, <3>1, <3>2, <2>1, <1>1 DEF OrderOK
    <3>3. CASE wire'[o] = "refused" /\ UNCHANGED exch
      BY <3>1, <3>3, <2>1, <1>1 DEF IInv, OrderOK
    <3> QED
      BY <3>2, <3>3, <1>3
  <2>2. CASE x # o
    BY <2>2, <1>1, <1>2, <1>4 DEF IInv, OrderOK
  <2> QED
    BY <2>1, <2>2
<1> QED
  BY <1>6, <1>8, <1>9, <1>10, <1>11 DEF IInv

\* What leaves the live state does so for good: the chains may rely on it.
LEMMA OnlyLiveMove ==
  ASSUME IInv, UNCHANGED <<spc, failed, last, step, at, known, result, amount, wire>>,
         \A x \in Orders : exch[x].st # "live" => exch'[x] = exch[x]
  PROVE  /\ BusyMeansFirstSteps'
         /\ \A k \in Chains : TurnOK(k)' /\ RequestOK(k)'
         /\ \A k \in Chains, s \in Steps : PastOK(k, s)'
<1>1. BusyMeansFirstSteps' /\ \A k \in Chains : TurnOK(k)'
  BY SameTurn
<1>2. ASSUME NEW k \in Chains PROVE RequestOK(k)'
  <2>1. Order(k) \in Orders /\ Order(k)' = Order(k)
    BY Places DEF IInv, Order
  <2> QED
    BY <2>1 DEF IInv, RequestOK
<1>3. ASSUME NEW k \in Chains, NEW s \in Steps PROVE PastOK(k, s)'
  <2>1. <<k, s>> \in Orders
    BY Places DEF IInv
  <2> QED
    BY <2>1 DEF IInv, PastOK
<1> QED
  BY <1>1, <1>2, <1>3

\* A fill stays within the amount.
LEMMA MovesStep ==
  ASSUME IInv, NEW o \in Orders, Moves(o) PROVE IInv'
<1> DEFINE filled == [st  |-> IF exch[o].got + 1 = amount[o] THEN "done" ELSE "live",
                      got |-> exch[o].got + 1]
           gone == [st |-> "cancelled", got |-> exch[o].got]
<1>1. /\ UNCHANGED <<events, spc, failed, last, chain, amount, wire, cancel, stored, noise>>
      /\ exch[o].st = "live"
  BY DEF Moves
<1>2. exch[o] \in Snapshots /\ exch[o].got < amount[o] /\ exch[o].got \in 0..Volume
        /\ amount[o] \in 0..Volume
  BY <1>1 DEF IInv, OrderOK, TypeOK, Snapshots
<1>3. filled \in Snapshots /\ gone \in Snapshots
  BY <1>2, ArbitrageAssumption DEF Snapshots, OrderStates
<1>4. PICK new \in {filled, gone} : exch' = [exch EXCEPT ![o] = new]
  BY <1>2 DEF Moves, Snapshots
<1>5. exch'[o] = new /\ \A x \in Orders : x # o => exch'[x] = exch[x]
  BY <1>4 DEF IInv, TypeOK
<1>6. exch' \in [Orders -> Snapshots]
  <2> HIDE DEF filled, gone
  <2> QED
    BY <1>3, <1>4 DEF IInv, TypeOK
<1>7. TypeOK'
  BY <1>1, <1>6 DEF IInv, TypeOK, events, chain
<1>8. /\ new.st # "absent" /\ new.got <= amount[o]
      /\ new.st = "live" => new.got < amount[o]
  BY <1>2, ArbitrageAssumption
<1>9. ASSUME NEW x \in Orders PROVE OrderOK(x)'
  <2>1. CASE x = o
    <3>1. /\ wire[o] \notin {"none", "sent", "refused"} /\ stored[o].st # "done"
          /\ cancel[o] \notin {"ok", "done"}
      BY <1>1 DEF IInv, OrderOK, Absent
    <3> HIDE DEF filled, gone
    <3> QED
      BY <2>1, <3>1, <1>1, <1>5, <1>8 DEF OrderOK
  <2>2. CASE x # o
    BY <2>2, <1>1, <1>5 DEF IInv, OrderOK
  <2> QED
    BY <2>1, <2>2
<1>10. UNCHANGED <<step, at, known, result>>
  BY <1>1 DEF chain
<1> QED
  BY <1>1, <1>5, <1>7, <1>9, <1>10, OnlyLiveMove DEF IInv

\* The answer to a cancellation tells what the order has come to.
LEMMA CancelsStep ==
  ASSUME IInv, NEW o \in Orders, Cancels(o) PROVE IInv'
<1>1. /\ UNCHANGED <<events, spc, failed, last, chain, amount, wire, stored, noise>>
      /\ cancel[o] = "sent"
  BY DEF Cancels
<1>2. /\ \A x \in Orders : x # o => exch'[x] = exch[x] /\ cancel'[x] = cancel[x]
      /\ \A x \in Orders : exch[x].st # "live" => exch'[x] = exch[x]
  BY DEF Cancels, IInv, TypeOK
<1>3. \/ /\ exch[o].st = "live" /\ exch' = [exch EXCEPT ![o].st = "cancelled"]
         /\ cancel' = [cancel EXCEPT ![o] = "ok"]
      \/ exch' = exch /\ cancel' = [cancel EXCEPT ![o] = "ok"] /\ exch[o].st = "cancelled"
      \/ exch' = exch /\ cancel' = [cancel EXCEPT ![o] = "done"] /\ exch[o].st = "done"
      \/ exch' = exch /\ cancel' = [cancel EXCEPT ![o] = "error"]
  BY DEF Cancels
<1>4. exch' \in [Orders -> Snapshots]
  <2>1. exch[o] \in Snapshots
    BY DEF IInv, TypeOK
  <2>2. [exch[o] EXCEPT !.st = "cancelled"] \in Snapshots
    BY <2>1 DEF Snapshots, OrderStates
  <2>3. exch' = exch \/ exch' = [exch EXCEPT ![o] = [exch[o] EXCEPT !.st = "cancelled"]]
    BY <1>3
  <2> QED
    BY <2>2, <2>3 DEF IInv, TypeOK
<1>5. cancel' \in [Orders -> {"none", "sent", "ok", "done", "error", "lost"}]
  BY <1>3 DEF IInv, TypeOK
<1>6. TypeOK'
  BY <1>1, <1>4, <1>5 DEF IInv, TypeOK, events, chain
<1>7. ASSUME NEW x \in Orders PROVE OrderOK(x)'
  <2>1. CASE x = o
    <3>1. wire[o] # "none"
      BY <1>1 DEF IInv, OrderOK
    <3>2. CASE /\ exch[o].st = "live" /\ exch' = [exch EXCEPT ![o].st = "cancelled"]
               /\ cancel' = [cancel EXCEPT ![o] = "ok"]
      <4>1. exch'[o].st = "cancelled" /\ exch'[o].got = exch[o].got /\ cancel'[o] = "ok"
        BY <3>2 DEF IInv, TypeOK, Snapshots
      <4>2. wire[o] \notin {"none", "sent", "refused"} /\ stored[o].st # "done"
        BY <3>2 DEF IInv, OrderOK, Absent
      <4> QED
        BY <4>1, <4>2, <2>1, <1>1 DEF IInv, OrderOK
    <3>3. CASE /\ exch' = exch
               /\ \/ cancel' = [cancel EXCEPT ![o] = "ok"] /\ exch[o].st = "cancelled"
                  \/ cancel' = [cancel EXCEPT ![o] = "done"] /\ exch[o].st = "done"
                  \/ cancel' = [cancel EXCEPT ![o] = "error"]
      <4>1. \/ cancel'[o] = "ok" /\ exch[o].st = "cancelled"
            \/ cancel'[o] = "done" /\ exch[o].st = "done"
            \/ cancel'[o] = "error"
        BY <3>3 DEF IInv, TypeOK
      <4> QED
        BY <4>1, <3>1, <3>3, <2>1, <1>1 DEF IInv, OrderOK
    <3> QED
      BY <3>2, <3>3, <1>3
  <2>2. CASE x # o
    BY <2>2, <1>1, <1>2 DEF IInv, OrderOK
  <2> QED
    BY <2>1, <2>2
<1>8. UNCHANGED <<step, at, known, result>>
  BY <1>1 DEF chain
<1> QED
  BY <1>1, <1>2, <1>6, <1>7, <1>8, OnlyLiveMove DEF IInv

\* The storage takes over what the exchange has; watchers are woken.
LEMMA AccountingStep ==
  ASSUME IInv, OtherAccounting \/ \E o \in Orders : Accounting(o) PROVE IInv'
<1>1. UNCHANGED <<events, spc, failed, last, step, at, known, result, exchange>>
  BY DEF OtherAccounting, Accounting
<1>2. woken' \in [Chains -> BOOLEAN]
  <2>1. PICK told \in SUBSET Chains : woken' = [k \in Chains |-> woken[k] \/ k \in told]
    BY DEF OtherAccounting, Accounting, Wake
  <2> QED
    BY <2>1
<1>3. noise' \in 0..MaxNoise
  BY ArbitrageAssumption DEF OtherAccounting, Accounting, IInv, TypeOK
<1>4. \A o \in Orders : stored'[o] \in {stored[o], exch[o]}
  BY DEF OtherAccounting, Accounting, IInv, TypeOK
<1>5. stored' \in [Orders -> Snapshots]
  BY DEF OtherAccounting, Accounting, IInv, TypeOK
<1>6. TypeOK'
  BY <1>1, <1>2, <1>3, <1>5 DEF IInv, TypeOK, events, exchange
<1>7. \A o \in Orders : OrderOK(o)'
  BY <1>1, <1>4 DEF IInv, OrderOK, exchange
<1>8. UNCHANGED <<amount, wire, exch>>
  BY <1>1 DEF exchange
<1> QED
  BY <1>1, <1>6, <1>7, <1>8, OnlyLiveMove DEF IInv

LEMMA NextIInv == IInv /\ [Next]_vars => IInv'
<1> SUFFICES ASSUME IInv, [Next]_vars PROVE IInv'
  OBVIOUS
<1>1. CASE Next
  BY <1>1, EventStep, StopStep, CheckStartsStep, SendStep, AnsweredStep, LostStep, WaitStep,
     CompletesStep, BackStep, CreatesStep, MovesStep, CancelsStep, AccountingStep
  DEF Next
<1>2. CASE UNCHANGED vars
  <2>1. UNCHANGED <<chain, exchange, stored, spc, failed, last, step, at, known, result,
                    amount, wire, exch>>
    BY <1>2 DEF vars, chain, exchange
  <2>2. TypeOK'
    BY <1>2 DEF vars, IInv, TypeOK
  <2>3. BusyMeansFirstSteps' /\ \A k \in Chains : TurnOK(k)' /\ RequestOK(k)'
    BY <2>1, OnlyLiveMove
  <2> QED
    BY <2>1, <2>2, <2>3, SameOrders, SamePast DEF IInv
<1> QED
  BY <1>1, <1>2

(* What the invariant says of the money.                                   *)

\* What is in the market belongs to a step that is under way, or that failed.
LEMMA MarketOK ==
  ASSUME IInv, NEW k \in Chains, NEW s \in Steps, InMarket(<<k, s>>)
  PROVE  /\ s = step[k] /\ at[k] # "off"
         /\ result[k] \in {"none", "error"}
<1>1. <<k, s>> \in Orders /\ s \in Nat /\ step[k] \in Nat /\ Order(k) = <<k, step[k]>>
  BY Places DEF IInv
<1>2. wire[<<k, s>>] # "none" /\ ~(wire[<<k, s>>] = "used" /\ exch[<<k, s>>].st # "live")
  BY <1>1 DEF InMarket, IInv, OrderOK, Absent
<1>3. s = step[k]
  <2>1. PastOK(k, s)
    BY DEF IInv
  <2>2. ~(s > step[k]) /\ ~(s < step[k])
    BY <2>1, <1>2 DEF PastOK
  <2> QED
    BY <2>2, <1>1
<1> QED
  BY <1>1, <1>2, <1>3 DEF IInv, RequestOK, TypeOK

LEMMA IInvSafe == IInv => ChainSafe /\ EndedIsFlat
<1> SUFFICES ASSUME IInv PROVE ChainSafe /\ EndedIsFlat
  OBVIOUS
<1>1. SellsWhatItBought
  <2>1. ASSUME NEW k \in Chains, NEW s \in {1, 2} PROVE Got(k, s + 1) <= Got(k, s)
    <3>1. /\ s \in Steps /\ s + 1 \in Steps /\ step[k] \in Nat
          /\ <<k, s>> \in Orders /\ <<k, s + 1>> \in Orders
      <4>1. s \in Steps /\ s + 1 \in Steps
        BY DEF Steps
      <4> QED
        BY <4>1, Places DEF IInv
    <3>2. /\ exch[<<k, s>>].got \in Nat /\ exch[<<k, s + 1>>].got \in Nat
          /\ amount[<<k, s + 1>>] \in Nat
      BY <3>1, Places, ArbitrageAssumption DEF IInv
    <3>3. CASE s < step[k]
      BY <3>1, <3>2, <3>3 DEF Got, IInv, PastOK, OrderOK
    <3>4. CASE ~(s < step[k])
      <4>1. s + 1 > step[k]
        BY <3>1, <3>4
      <4>2. PastOK(k, s + 1)
        BY <3>1 DEF IInv
      <4>3. exch[<<k, s + 1>>].got = 0
        BY <4>1, <4>2, <3>1 DEF PastOK, IInv, OrderOK, Absent
      <4> QED
        BY <4>3, <3>2 DEF Got
    <3> QED
      BY <3>3, <3>4
  <2> QED
    BY <2>1 DEF SellsWhatItBought
<1>2. ~failed => Cardinality({o \in Orders : o[2] # 3 /\ InMarket(o)}) <= 1
  <2> SUFFICES ASSUME ~failed
               PROVE  Cardinality({o \in Orders : o[2] # 3 /\ InMarket(o)}) <= 1
    OBVIOUS
  <2> DEFINE S == {o \in Orders : o[2] # 3 /\ InMarket(o)}
             only == <<last, step[last]>>
  <2>1. ASSUME NEW o \in S PROVE o = only
    <3>1. PICK k \in Chains, s \in Steps : o = <<k, s>>
      BY DEF Orders
    <3>2. s = step[k] /\ at[k] # "off" /\ result[k] \in {"none", "error"} /\ s # 3
      BY <3>1, MarketOK
    <3>3. at[k] # "ended"
      BY <3>2 DEF IInv, TurnOK
    <3> QED
      BY <3>1, <3>2, <3>3 DEF IInv, BusyMeansFirstSteps
  <2> HIDE DEF S, only
  <2>2. S \subseteq {only}
    BY <2>1
  <2>3. IsFiniteSet({only}) /\ Cardinality({only}) = 1
    BY FS_Singleton
  <2>4. Cardinality(S) <= 1
    BY <2>2, <2>3, FS_Subset
  <2> QED
    BY <2>4 DEF S
<1>3. AbandonedOnlyByError
  BY MarketOK DEF AbandonedOnlyByError, IInv, TurnOK
<1>4. EndedIsFlat
  BY MarketOK DEF EndedIsFlat
<1> QED
  BY <1>1, <1>2, <1>3, <1>4 DEF ChainSafe, OneFirstOrder, IInv

\* However many chains run and overlap, however their orders are filled in part,
\* cancelled, answered late or never: one first or second step at a time spends
\* the balance, no step sells more than the one before has brought, and a step that
\* has ended leaves its order in the market only by an error.
THEOREM ChainsKeepTheirMoney == Spec => []ChainSafe
<1>1. IInv => ChainSafe
  BY IInvSafe
<1> QED
  BY <1>1, InitIInv, NextIInv, PTL DEF Spec

\* A chain that ended without an error has left nothing in the market.
THEOREM EndedChainsAreFlat == Spec => []EndedIsFlat
<1>1. IInv => EndedIsFlat
  BY IInvSafe
<1> QED
  BY <1>1, InitIInv, NextIInv, PTL DEF Spec
===============================================================================
