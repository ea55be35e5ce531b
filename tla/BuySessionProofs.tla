------------------------- MODULE BuySessionProofs -------------------------
(***************************************************************************)
(* A buy session never has two orders in the market, books its cost once,  *)
(* ends flat, and buys for no more than it may spend, however many         *)
(* requests it sends.                                                      *)
(*                                                                         *)
(* The argument has four layers, each resting on the ones before it:       *)
(*   - a token: the flag asks for an order, the decider is between sending *)
(*     a request and storing its number, the session waits for an answer,  *)
(*     or one order is watched, and never two of these;                    *)
(*   - the market: wherever the token is, there are the live orders.  An   *)
(*     order and the one it replaces may both be known to the session, but *)
(*     only one of them is in the market;                                  *)
(*   - the storage: what the session sums up is stored, and was true;      *)
(*   - the money: a request under way, and a live order, may still be      *)
(*     filled only for what was left when it was sized.                    *)
(* Costs are sums over sets of orders, which the fold of the community     *)
(* modules defines by recursion; the first section shows what is needed of *)
(* such sums from that definition.                                         *)
(***************************************************************************)
EXTENDS BuySession, FiniteSetTheorems, TLAPS

-----------------------------------------------------------------------------
(* Sums over sets of orders.                                                *)

\* A set of numbers has a smallest one.
LEMMA Smallest ==
  ASSUME NEW S \in SUBSET Nat, S # {} PROVE \E x \in S : \A y \in S : x <= y
<1> DEFINE R == OpToRel(<, Nat)
<1>1. IsWellFoundedOn(R, Nat)
  BY NatLessThanWellFounded
<1>2. \A x, y \in Nat : y < x => <<y, x>> \in R
  BY DEF OpToRel
<1> HIDE DEF R
<1>3. PICK x \in S : \A y \in S : <<y, x>> \notin R
  BY <1>1, WFMin
<1>4. \A y \in S : x \in Nat /\ y \in Nat /\ ~(y < x)
  BY <1>2, <1>3
<1>5. \A y \in S : x <= y
  BY <1>4
<1> QED
  BY <1>5

\* Induction, as a fact about a set of numbers.
LEMMA EveryNumber ==
  ASSUME NEW S \in SUBSET Nat, 0 \in S, \A n \in S : n + 1 \in S PROVE S = Nat
<1> SUFFICES ASSUME Nat \ S # {} PROVE FALSE
  OBVIOUS
<1>1. PICK n \in Nat \ S : \A m \in Nat \ S : n <= m
  BY Smallest
<1>2. n # 0 /\ n - 1 \in Nat /\ (n - 1) + 1 = n
  BY <1>1
<1>3. n - 1 \in S
  BY <1>1, <1>2
<1> QED
  BY <1>1, <1>2, <1>3

\* The recursion that sums over the subsets of S.
SumsUp(g, f, S, n) ==
  \A s \in SUBSET S : IsFiniteSet(s) /\ Cardinality(s) <= n =>
    g[s] = IF s = {} THEN 0
           ELSE f[CHOOSE x \in s : TRUE].got + g[s \ {CHOOSE x \in s : TRUE}]

LEMMA Summable ==
  ASSUME NEW f, NEW S, IsFiniteSet(S), \A x \in S : f[x].got \in Nat
  PROVE  \E g \in [SUBSET S -> Nat] : SumsUp(g, f, S, Cardinality(S))
<1> DEFINE N == {n \in Nat : \E g \in [SUBSET S -> Nat] : SumsUp(g, f, S, n)}
<1>0. \A s \in SUBSET S : IsFiniteSet(s) /\ Cardinality(s) \in Nat
  BY FS_Subset, FS_CardinalityType
<1>1. 0 \in N
  <2>1. \A s \in SUBSET S : Cardinality(s) <= 0 => s = {}
    BY <1>0, FS_EmptySet
  <2>2. [s \in SUBSET S |-> 0] \in [SUBSET S -> Nat]
    OBVIOUS
  <2>3. SumsUp([s \in SUBSET S |-> 0], f, S, 0)
    BY <2>1 DEF SumsUp
  <2> QED
    BY <2>2, <2>3
<1>2. ASSUME NEW n \in N PROVE n + 1 \in N
  <2>1. PICK g \in [SUBSET S -> Nat] : SumsUp(g, f, S, n)
    BY <1>2
  <2> DEFINE c(s) == CHOOSE x \in s : TRUE
  <2> DEFINE h == [s \in SUBSET S |-> IF s = {} THEN 0 ELSE f[c(s)].got + g[s \ {c(s)}]]
  <2>2. h \in [SUBSET S -> Nat]
    OBVIOUS
  <2>3. ASSUME NEW s \in SUBSET S, Cardinality(s) <= n PROVE h[s] = g[s]
    BY <1>0, <2>1, <2>3 DEF SumsUp
  <2>4. ASSUME NEW s \in SUBSET S, s # {}, Cardinality(s) <= n + 1
        PROVE  h[s \ {c(s)}] = g[s \ {c(s)}]
    <3>1. c(s) \in s
      BY <2>4
    <3>2. Cardinality(s \ {c(s)}) = Cardinality(s) - 1
      BY <1>0, <3>1, FS_RemoveElement
    <3>3. Cardinality(s \ {c(s)}) <= n
      BY <1>0, <2>4, <3>2
    <3> QED
      BY <2>3, <3>3
  <2>5. \A s \in SUBSET S : h[s] = IF s = {} THEN 0 ELSE f[c(s)].got + g[s \ {c(s)}]
    OBVIOUS
  <2> HIDE DEF h
  <2>6. SumsUp(h, f, S, n + 1)
    BY <2>4, <2>5 DEF SumsUp
  <2>7. n \in Nat /\ n + 1 \in Nat
    OBVIOUS
  <2> QED
    BY <2>2, <2>6, <2>7
<1>3. Cardinality(S) \in N
  <2> HIDE DEF N
  <2>1. N \subseteq Nat
    BY DEF N
  <2> QED
    BY <1>0, <1>1, <1>2, <2>1, EveryNumber
<1> QED
  BY <1>3

\* There is one way to sum up, whatever the sets are subsets of.
LEMMA OneSum ==
  ASSUME NEW f, NEW S, NEW T, IsFiniteSet(S), IsFiniteSet(T), NEW g, NEW h,
         SumsUp(g, f, S, Cardinality(S)), SumsUp(h, f, T, Cardinality(T)),
         NEW s \in SUBSET S, s \subseteq T
  PROVE  g[s] = h[s]
<1> DEFINE N == {n \in Nat : \A r \in SUBSET (S \cap T) : Cardinality(r) <= n => g[r] = h[r]}
<1>0. \A r \in SUBSET (S \cap T) : /\ IsFiniteSet(r) /\ Cardinality(r) \in Nat
                                  /\ Cardinality(r) <= Cardinality(S)
                                  /\ Cardinality(r) <= Cardinality(T)
  BY FS_Subset, FS_CardinalityType
<1>1. \A r \in SUBSET (S \cap T) :
        /\ g[r] = IF r = {} THEN 0
                  ELSE f[CHOOSE x \in r : TRUE].got + g[r \ {CHOOSE x \in r : TRUE}]
        /\ h[r] = IF r = {} THEN 0
                  ELSE f[CHOOSE x \in r : TRUE].got + h[r \ {CHOOSE x \in r : TRUE}]
  BY <1>0 DEF SumsUp
<1>2. 0 \in N
  <2>1. \A r \in SUBSET (S \cap T) : Cardinality(r) <= 0 => r = {}
    BY <1>0, FS_EmptySet
  <2> QED
    BY <1>1, <2>1
<1>3. ASSUME NEW n \in N PROVE n + 1 \in N
  <2>1. ASSUME NEW r \in SUBSET (S \cap T), Cardinality(r) <= n + 1, r # {} PROVE g[r] = h[r]
    <3> DEFINE c == CHOOSE x \in r : TRUE
    <3>1. c \in r
      BY <2>1
    <3>2. g[r] = f[c].got + g[r \ {c}] /\ h[r] = f[c].got + h[r \ {c}]
      BY <1>1, <2>1
    <3> HIDE DEF c
    <3>3. Cardinality(r \ {c}) = Cardinality(r) - 1
      BY <1>0, <3>1, FS_RemoveElement
    <3>4. n \in Nat /\ Cardinality(r \ {c}) <= n
      BY <1>0, <1>3, <2>1, <3>3
    <3>5. r \ {c} \in SUBSET (S \cap T)
      OBVIOUS
    <3>6. g[r \ {c}] = h[r \ {c}]
      BY <1>3, <3>4, <3>5
    <3> QED
      BY <3>2, <3>6
  <2>2. \A r \in SUBSET (S \cap T) : Cardinality(r) <= n + 1 => g[r] = h[r]
    <3>1. g[{}] = h[{}]
      BY <1>1
    <3> QED
      BY <2>1, <3>1
  <2>3. n + 1 \in Nat
    BY <1>3
  <2> QED
    BY <2>2, <2>3
<1>4. Cardinality(s) \in N
  <2> HIDE DEF N
  <2>1. N \subseteq Nat
    BY DEF N
  <2> QED
    BY <1>0, <1>2, <1>3, <2>1, EveryNumber
<1> QED
  BY <1>0, <1>4

\* What the sum is.
LEMMA TotalIs ==
  ASSUME NEW f, NEW S, IsFiniteSet(S), \A x \in S : f[x].got \in Nat
  PROVE  \E g \in [SUBSET S -> Nat] : SumsUp(g, f, S, Cardinality(S)) /\ Total(f, S) = g[S]
<1> DEFINE Sums(g) == g = [s \in SUBSET S |->
                             IF s = {} THEN 0
                             ELSE f[CHOOSE x \in s : TRUE].got
                                  + g[s \ {CHOOSE x \in s : TRUE}]]
<1> DEFINE iter == CHOOSE g : Sums(g)
<1>1. Total(f, S) = iter[S]
  BY DEF Total, MapThenSumSet, MapThenFoldSet
<1>2. PICK g \in [SUBSET S -> Nat] : SumsUp(g, f, S, Cardinality(S))
  BY Summable
<1>3. Sums(g)
  <2>1. \A s \in SUBSET S : IsFiniteSet(s) /\ Cardinality(s) <= Cardinality(S)
    BY FS_Subset
  <2> QED
    BY <1>2, <2>1 DEF SumsUp
<1>4. Sums(iter)
  <2> HIDE DEF Sums
  <2> QED
    BY <1>3
<1>5. SumsUp(iter, f, S, Cardinality(S))
  <2> HIDE DEF iter
  <2> QED
    BY <1>4 DEF SumsUp
<1> HIDE DEF iter, Sums
<1>6. g[S] = iter[S]
  BY <1>2, <1>5, OneSum
<1> QED
  BY <1>1, <1>2, <1>6

\* The total of nothing, and of one order more.
LEMMA TotalNat ==
  ASSUME NEW f, NEW S, IsFiniteSet(S), \A x \in S : f[x].got \in Nat
  PROVE  Total(f, S) \in Nat /\ (S = {} => Total(f, S) = 0)
<1>1. PICK g \in [SUBSET S -> Nat] : SumsUp(g, f, S, Cardinality(S)) /\ Total(f, S) = g[S]
  BY TotalIs
<1>2. S = {} => g[S] = 0
  BY <1>1, FS_CardinalityType DEF SumsUp
<1> QED
  BY <1>1, <1>2

LEMMA TotalChosen ==
  ASSUME NEW f, NEW S, IsFiniteSet(S), \A x \in S : f[x].got \in Nat, S # {}
  PROVE  LET c == CHOOSE x \in S : TRUE
         IN  c \in S /\ Total(f, S) = f[c].got + Total(f, S \ {c})
<1> DEFINE c == CHOOSE x \in S : TRUE
<1>1. c \in S
  OBVIOUS
<1>2. PICK g \in [SUBSET S -> Nat] : SumsUp(g, f, S, Cardinality(S)) /\ Total(f, S) = g[S]
  BY TotalIs
<1>3. g[S] = f[c].got + g[S \ {c}]
  BY <1>2, FS_CardinalityType DEF SumsUp
<1> HIDE DEF c
<1>4. IsFiniteSet(S \ {c})
  BY FS_Subset
<1>5. PICK h \in [SUBSET (S \ {c}) -> Nat] :
        SumsUp(h, f, S \ {c}, Cardinality(S \ {c})) /\ Total(f, S \ {c}) = h[S \ {c}]
  BY <1>4, TotalIs
<1>6. g[S \ {c}] = h[S \ {c}]
  BY <1>2, <1>4, <1>5, OneSum
<1> QED
  BY <1>1, <1>2, <1>3, <1>5, <1>6 DEF c

LEMMA TotalAdd ==
  ASSUME NEW f, NEW U, IsFiniteSet(U), \A x \in U : f[x].got \in Nat,
         NEW S \in SUBSET U, NEW x \in U \ S
  PROVE  Total(f, S \cup {x}) = f[x].got + Total(f, S)
<1> DEFINE N == {n \in Nat : \A s \in SUBSET U : \A y \in U \ s :
                   Cardinality(s) <= n => Total(f, s \cup {y}) = f[y].got + Total(f, s)}
<1>0. \A s \in SUBSET U : IsFiniteSet(s) /\ Cardinality(s) \in Nat
  BY FS_Subset, FS_CardinalityType
<1>a. ASSUME NEW s \in SUBSET U, s # {}
      PROVE  \E c \in s : Total(f, s) = f[c].got + Total(f, s \ {c})
  BY <1>0, <1>a, TotalChosen
<1>1. 0 \in N
  <2>1. ASSUME NEW s \in SUBSET U, NEW y \in U \ s, Cardinality(s) <= 0
        PROVE  Total(f, s \cup {y}) = f[y].got + Total(f, s)
    <3>1. s = {}
      BY <1>0, <2>1, FS_EmptySet
    <3>2. PICK c \in s \cup {y} : Total(f, s \cup {y}) = f[c].got + Total(f, (s \cup {y}) \ {c})
      BY <1>a
    <3>3. c = y /\ (s \cup {y}) \ {c} = s
      BY <3>1
    <3> QED
      BY <3>2, <3>3
  <2> QED
    BY <2>1
<1>2. ASSUME NEW n \in N PROVE n + 1 \in N
  <2>1. ASSUME NEW s \in SUBSET U, NEW y \in U \ s, Cardinality(s) <= n + 1
        PROVE  Total(f, s \cup {y}) = f[y].got + Total(f, s)
    <3>1. PICK c \in s \cup {y} : Total(f, s \cup {y}) = f[c].got + Total(f, (s \cup {y}) \ {c})
      BY <1>a
    <3>2. CASE c = y
      <4>1. (s \cup {y}) \ {c} = s
        BY <2>1, <3>2
      <4> QED
        BY <3>1, <3>2, <4>1
    <3>3. CASE c # y
      <4>1. c \in s /\ (s \cup {y}) \ {c} = (s \ {c}) \cup {y} /\ s = (s \ {c}) \cup {c}
        BY <3>1, <3>3
      <4>2. Cardinality(s \ {c}) = Cardinality(s) - 1
        BY <1>0, <4>1, FS_RemoveElement
      <4>3. n \in Nat /\ Cardinality(s \ {c}) <= n
        BY <1>0, <1>2, <2>1, <4>2
      <4>4. Total(f, (s \ {c}) \cup {y}) = f[y].got + Total(f, s \ {c})
        BY <1>2, <4>3
      <4>5. Total(f, (s \ {c}) \cup {c}) = f[c].got + Total(f, s \ {c})
        BY <1>2, <4>1, <4>3
      <4>6. /\ f[c].got \in Nat /\ f[y].got \in Nat
            /\ Total(f, s \ {c}) \in Nat
        BY <1>0, <4>1, TotalNat
      <4>7. Total(f, s) = f[c].got + Total(f, s \ {c})
        BY <4>1, <4>5
      <4> QED
        BY <3>1, <4>1, <4>4, <4>6, <4>7
    <3> QED
      BY <3>2, <3>3
  <2>2. n + 1 \in Nat
    BY <1>2
  <2> QED
    BY <2>1, <2>2
<1>3. Cardinality(S) \in N
  <2> HIDE DEF N
  <2>1. N \subseteq Nat
    BY DEF N
  <2> QED
    BY <1>0, <1>1, <1>2, <2>1, EveryNumber
<1> QED
  BY <1>0, <1>3

Counts(f, U) == IsFiniteSet(U) /\ \A x \in U : f[x].got \in Nat

\* Who gets no less, order by order, gets no less in all.
LEMMA TotalLess ==
  ASSUME NEW U, NEW f, NEW g, Counts(f, U), Counts(g, U), NEW S \in SUBSET U, NEW T \in SUBSET U,
         \A x \in S : f[x].got = 0 \/ (x \in T /\ f[x].got <= g[x].got)
  PROVE  Total(f, S) <= Total(g, T)
<1> DEFINE Less(s, t) == \A x \in s : f[x].got = 0 \/ (x \in t /\ f[x].got <= g[x].got)
<1> DEFINE N == {n \in Nat : \A s, t \in SUBSET U :
                   Cardinality(s) <= n /\ Less(s, t) => Total(f, s) <= Total(g, t)}
<1>0. \A s \in SUBSET U : /\ IsFiniteSet(s) /\ Cardinality(s) \in Nat
                          /\ Total(f, s) \in Nat /\ Total(g, s) \in Nat
                          /\ s = {} => Total(f, s) = 0
  BY FS_Subset, FS_CardinalityType, TotalNat DEF Counts
<1>1. 0 \in N
  <2>1. \A s \in SUBSET U : Cardinality(s) <= 0 => s = {}
    BY <1>0, FS_EmptySet
  <2> QED
    BY <1>0, <2>1
<1>2. ASSUME NEW n \in N PROVE n + 1 \in N
  <2>1. ASSUME NEW s \in SUBSET U, NEW t \in SUBSET U, Cardinality(s) <= n + 1, Less(s, t)
        PROVE  Total(f, s) <= Total(g, t)
    <3>1. CASE s = {}
      BY <1>0, <3>1
    <3>2. CASE s # {}
      <4>1. PICK c \in s : TRUE
        BY <3>2
      <4>2. Cardinality(s \ {c}) = Cardinality(s) - 1
        BY <1>0, FS_RemoveElement
      <4>3. n \in Nat /\ Cardinality(s \ {c}) <= n
        BY <1>0, <1>2, <2>1, <4>2
      <4>4. s = (s \ {c}) \cup {c} /\ c \in U \ (s \ {c})
        OBVIOUS
      <4>5. Total(f, s) = f[c].got + Total(f, s \ {c}) /\ f[c].got \in Nat
        BY <4>4, TotalAdd DEF Counts
      <4>6. CASE f[c].got = 0
        <5>1. Less(s \ {c}, t)
          BY <2>1
        <5>2. Total(f, s \ {c}) <= Total(g, t)
          BY <1>2, <4>3, <5>1
        <5> QED
          BY <1>0, <4>5, <4>6, <5>2
      <4>7. CASE f[c].got # 0
        <5>1. c \in t /\ f[c].got <= g[c].got /\ Less(s \ {c}, t \ {c})
          BY <2>1, <4>7
        <5>2. Total(f, s \ {c}) <= Total(g, t \ {c})
          BY <1>2, <4>3, <5>1
        <5>3. t = (t \ {c}) \cup {c} /\ c \in U \ (t \ {c})
          BY <5>1
        <5>4. Total(g, t) = g[c].got + Total(g, t \ {c}) /\ g[c].got \in Nat
          BY <5>3, TotalAdd DEF Counts
        <5> HIDE DEF Less, N
        <5> QED
          BY <1>0, <4>5, <5>1, <5>2, <5>4
      <4> QED
        BY <4>6, <4>7
    <3> QED
      BY <3>1, <3>2
  <2>2. n + 1 \in Nat
    BY <1>2
  <2> QED
    BY <2>1, <2>2
<1>3. Cardinality(S) \in N
  <2> HIDE DEF N
  <2>1. N \subseteq Nat
    BY DEF N
  <2> QED
    BY <1>0, <1>1, <1>2, <2>1, EveryNumber
<1> QED
  BY <1>0, <1>3

\* Orders that got nothing do not count.
LEMMA TotalSame ==
  ASSUME NEW U, NEW f, NEW g, Counts(f, U), Counts(g, U), NEW S \in SUBSET U, NEW T \in SUBSET U,
         S \subseteq T, \A x \in S : f[x].got = g[x].got, \A x \in T \ S : g[x].got = 0
  PROVE  Total(f, S) = Total(g, T)
<1>0. Total(f, S) \in Nat /\ Total(g, T) \in Nat /\ \A x \in U : f[x].got \in Nat /\ g[x].got \in Nat
  BY FS_Subset, TotalNat DEF Counts
<1>1. Total(f, S) <= Total(g, T)
  <2>1. \A x \in S : f[x].got = 0 \/ (x \in T /\ f[x].got <= g[x].got)
    BY <1>0
  <2> QED
    BY <2>1, TotalLess
<1>2. Total(g, T) <= Total(f, S)
  <2>1. \A x \in T : g[x].got = 0 \/ (x \in S /\ g[x].got <= f[x].got)
    BY <1>0
  <2> QED
    BY <2>1, TotalLess
<1> QED
  BY <1>0, <1>1, <1>2

\* One order gets one more.
LEMMA TotalMore ==
  ASSUME NEW U, NEW f, NEW g, Counts(f, U), Counts(g, U), NEW o \in U,
         g[o].got = f[o].got + 1, \A x \in U \ {o} : g[x].got = f[x].got
  PROVE  Total(g, U) = Total(f, U) + 1
<1> DEFINE V == U \ {o}
<1>1. V \in SUBSET U /\ o \in U \ V /\ V \cup {o} = U
  OBVIOUS
<1>2. \A x \in V : f[x].got = g[x].got
  OBVIOUS
<1> HIDE DEF V
<1>3. Total(f, V \cup {o}) = f[o].got + Total(f, V)
  BY <1>1, TotalAdd DEF Counts
<1>4. Total(g, V \cup {o}) = g[o].got + Total(g, V)
  BY <1>1, TotalAdd DEF Counts
<1>5. Total(f, V) = Total(g, V)
  BY <1>1, <1>2, TotalSame
<1>6. Total(f, V) \in Nat /\ f[o].got \in Nat
  BY <1>1, FS_Subset, TotalNat DEF Counts
<1>7. V \cup {o} = U
  BY <1>1
<1>8. Total(f, U) = f[o].got + Total(f, V) /\ Total(g, U) = g[o].got + Total(g, V)
  BY <1>3, <1>4, <1>7, Zenon
<1> QED
  BY <1>5, <1>6, <1>8

-----------------------------------------------------------------------------
(* The invariant, part by part.                                             *)

\* No order is watched; and nobody has the token.
NoWatcher == \A o \in Requests : ~Watching(o)
Idle      == ~need /\ dpc # "sent" /\ req = 0 /\ NoWatcher

\* An answer is on its way to the session, or got lost there.
OnItsWay(r) == status[r] \in {"sent", "discarded"} \cup Answers

\* What is in use has been sent, so a new request disturbs nothing.
BoundInv ==
  /\ \A r \in Requests : status[r] # "unsent" \/ Watching(r) => r <= last
  /\ dpc = "sent" => dreq \in Requests
  /\ lpc = "cancelling" => lord \in Requests /\ lord = prev /\ req # 0

\* The four things exclude each other.
TokenInv ==
  /\ need => dpc # "sent" /\ req = 0 /\ NoWatcher
  /\ dpc = "sent" => req = 0 /\ NoWatcher
  /\ req # 0 => NoWatcher

\* The executed flags are set once, by the one who has the token.
DoneInv ==
  /\ completed = IF isDone THEN 1 ELSE 0
  /\ isDone => Idle
  /\ ~isDone => booked = 0

\* An answer says what the exchange did, and an order that replaced another one
\* is not in the market beside it.
AnswerInv ==
  \A r \in Requests :
    /\ exch[r].st # "absent" => status[r] \in {"created", "used", "discarded"}
    /\ status[r] = "created" => exch[r].st # "absent"
    /\ status[r] = "doneCode" => target[r] # 0
    /\ target[r] # 0 => target[r] # r
    /\ target[r] # 0 /\ (exch[r].st # "absent" \/ status[r] = "doneCode") =>
         exch[target[r]].st \in Final

\* An order gets no more than was asked for.
FillInv ==
  \A o \in Requests : /\ exch[o].st = "absent" => exch[o].got = 0
                      /\ exch[o].st \in Live => exch[o].got < amount[o]

\* What is known of an order was true of it, final states are final, and what
\* was got stays got.
KnownInv ==
  \A o \in Requests :
    /\ stored[o].st \in Final => exch[o].st = stored[o].st
    /\ stored[o].got <= exch[o].got
    /\ get[o] = "answered" => /\ answer[o].st # "absent"
                              /\ answer[o].st \in Final => exch[o].st = answer[o].st
                              /\ answer[o].got <= exch[o].got
    /\ cancel[o] = "ok" => exch[o].st = "cancelled"
    /\ wpc[o] # "none" \/ get[o] # "none" => exch[o].st # "absent"
    /\ wpc[o] \in {"altered", "cancelling"} => Stored(o)

\* A request that is under way is on the way to the session: it is the one the
\* decider or the watcher has sent, or the session knows its number.
WayInv ==
  /\ req # 0 => status[req] # "unsent" /\ target[req] \in {0, prev}
  /\ dpc = "sent" => target[dreq] = 0 /\ status[dreq] \notin {"unsent", "used"}
  /\ \A o \in Requests : wpc[o] = "altered" =>
       /\ wreq[o] \in Requests /\ status[wreq[o]] \notin {"unsent", "used"}
       /\ target[wreq[o]] = o
  /\ \A r \in Requests : OnItsWay(r) => \/ r = req
                                        \/ dpc = "sent" /\ r = dreq
                                        \/ \E o \in Requests : wpc[o] = "altered" /\ r = wreq[o]

\* An order whose creation the session took note of is one of its orders.
OwnInv ==
  \A o \in Requests : exch[o].st # "absent" /\ status[o] = "used" => o \in orders

\* While the listener cancels the previous order, its replacement is refused; and
\* that is the only way a request that is answered is still waited for.
LordInv ==
  /\ lpc = "cancelling" => exch[req].st = "absent" /\ status[req] = "used"
  /\ req # 0 /\ status[req] = "used" => lpc = "cancelling" \/ failed

\* Somebody has the token until the session ends, and nobody after that.
EndInv ==
  /\ ctxDone \/ isDone \/ ~Idle
  /\ dpc = "stopped" /\ ~failed => Idle /\ (isDone \/ LiveOrders = {})

\* Where the token is, there are the orders.
LiveInv ==
  /\ need => LiveOrders = {}
  /\ dpc = "sent" => LiveOrders \subseteq {dreq}
  /\ req # 0 => LiveOrders \subseteq {req, target[req]}
  /\ \A o \in Requests : Watching(o) =>
       LiveOrders \subseteq IF wpc[o] = "altered" THEN {o, wreq[o]} ELSE {o}
  /\ isDone /\ ~backwards => LiveOrders = {}
  /\ \A p, q \in LiveOrders : p = q

\* Orders whose costs are summed are in the storage, and so is a previous one.
StoredInv ==
  /\ prev # 0 => Stored(prev)
  /\ need \/ dpc = "sent" \/ req # 0 => \A p \in orders : Stored(p)
  /\ \A o \in Requests : Watching(o) => \A p \in orders \ {o} : Stored(p)
  /\ \A r \in Requests :
       target[r] # 0 /\ ~backwards => stored[target[r]].st \in {"active"} \cup Final

\* What may still be bought, by a live order or by one that is asked for, fits in.
SpendInv ==
  ~missed =>
    /\ Bought <= BuyTotal
    /\ \A r \in Requests : status[r] = "sent" => Bought + amount[r] <= BuyTotal
    /\ \A o \in LiveOrders : Bought + amount[o] <= BuyTotal + exch[o].got

\* The token, and the whole invariant.
Core == BoundInv /\ TokenInv /\ DoneInv /\ WatcherHasActive

IInv ==
  /\ TypeOK /\ Core
  /\ AnswerInv /\ FillInv /\ KnownInv /\ WayInv /\ OwnInv /\ LordInv /\ EndInv
  /\ LiveInv /\ StoredInv /\ SpendInv /\ booked <= Bought

-----------------------------------------------------------------------------
(* Types, one part of TypeOK at a time.                                     *)

SessionOK ==
  /\ need \in BOOLEAN /\ isDone \in BOOLEAN
  /\ active \in Ids /\ prev \in Ids /\ req \in Ids
  /\ orders \subseteq Requests /\ completed \in Nat /\ booked \in Nat
ControlOK ==
  /\ spc \in {"running", "cleaned"}
  /\ dpc \in {"idle", "sent", "stopped"} /\ dreq \in Ids
  /\ lpc \in {"off", "idle", "cancelling", "stopped"} /\ lord \in Ids
  /\ failed \in BOOLEAN /\ backwards \in BOOLEAN /\ missed \in BOOLEAN
WatchersOK ==
  /\ wpc \in [Requests -> {"none", "watch", "altered", "cancelling", "getting", "stopped"}]
  /\ wreq \in [Requests -> Ids]
Statuses == {"unsent", "sent", "used", "discarded"} \cup Answers
WireOK ==
  /\ last \in Ids /\ target \in [Requests -> Ids] /\ amount \in [Requests -> Volumes]
  /\ status \in [Requests -> Statuses]
CallsOK ==
  /\ cancel \in [Requests -> {"none", "sent", "ok", "done", "error"}]
  /\ get \in [Requests -> {"none", "sent", "answered"}]
  /\ answer \in [Requests -> Snapshots]
LedgerOK ==
  /\ exch \in [Requests -> Snapshots]
  /\ reported \in [Requests -> Snapshots]
  /\ stored \in [Requests -> Snapshots]

LEMMA TypeParts ==
  /\ TypeOK <=> SessionOK /\ ControlOK /\ WatchersOK /\ WireOK /\ CallsOK /\ LedgerOK
  /\ TypeOK' <=> SessionOK' /\ ControlOK' /\ WatchersOK' /\ WireOK' /\ CallsOK' /\ LedgerOK'
  BY DEF TypeOK, SessionOK, ControlOK, WatchersOK, WireOK, CallsOK, LedgerOK, Statuses

LEMMA Members ==
  /\ 0 \in Ids /\ Requests \subseteq Ids /\ IsFiniteSet(Requests) /\ 0 \notin Requests
  /\ \A n \in Ids : n \in Nat /\ n <= MaxRequests
  /\ \A n \in Ids : n < MaxRequests => n + 1 \in Requests /\ n + 1 # n
  /\ \A n \in Ids : n # 0 => n \in Requests
  /\ \A r \in Requests : r \in Nat /\ r # 0
<1>1. IsFiniteSet(Requests)
  BY FS_Interval, BuyAssumption DEF Requests
<1> QED
  BY <1>1, BuyAssumption DEF Ids, Requests

LEMMA Amounts ==
  /\ 0 \in Volumes /\ Absent \in Snapshots /\ Absent.st = "absent" /\ Absent.got = 0
  /\ \A v \in Volumes : v \in Nat /\ v <= BuyTotal
  /\ \A v, w \in Volumes : v < w => v + 1 \in Volumes
  /\ \A x \in Snapshots : x.st \in OrderStates /\ x.got \in Volumes /\ x.got \in Nat
  /\ \A st \in OrderStates, v \in Volumes : [st |-> st, got |-> v] \in Snapshots
  /\ Live \subseteq OrderStates /\ Final \subseteq OrderStates
  /\ OrderStates = {"absent"} \cup Live \cup Final
  BY BuyAssumption DEF Volumes, Absent, Snapshots, OrderStates, Live, Final

\* Sums are numbers.
LEMMA Sums ==
  ASSUME TypeOK
  PROVE  /\ Counts(stored, Requests) /\ Counts(exch, Requests)
         /\ BoughtCost \in Nat /\ Bought \in Nat /\ Remaining \in Volumes
<1>1. Counts(stored, Requests) /\ Counts(exch, Requests)
  BY Members, Amounts DEF TypeOK, Counts
<1>2. IsFiniteSet(orders) /\ \A o \in orders : stored[o].got \in Nat
  BY <1>1, Members, FS_Subset DEF TypeOK, Counts
<1>3. BoughtCost \in Nat /\ Bought \in Nat
  BY <1>1, <1>2, TotalNat DEF BoughtCost, Bought, Counts
<1> QED
  BY <1>1, <1>3, BuyAssumption DEF Remaining, Volumes

LEMMA SessionTypes ==
  ASSUME TypeOK, BoundInv, [Next]_vars PROVE SessionOK'
<1>0. SessionOK /\ BoughtCost \in Nat /\ \A o \in Requests : o \in Ids
  BY TypeParts, Sums, Members
<1>1. CASE UNCHANGED session
  BY <1>0, <1>1 DEF SessionOK, session
<1>2. ASSUME NEW o \in Ids, ExecutedFlags(o) PROVE SessionOK'
  BY <1>0, <1>2, Members DEF ExecutedFlags, SessionOK
<1>3. ASSUME NEW o \in Ids, Reopen(o) PROVE SessionOK'
  BY <1>0, <1>3, Members DEF Reopen, SessionOK
<1>4. CASE DeciderSend \/ DeciderStop
  BY <1>0, <1>4 DEF DeciderSend, DeciderStop, SessionOK
<1>5. CASE DeciderStore
  BY <1>0, <1>5 DEF DeciderStore, BoundInv, SessionOK
<1>6. CASE ListenerCancelled
  BY <1>2, <1>6 DEF ListenerCancelled, TypeOK
<1>7. CASE \E r \in Requests : ListenerAdopt(r)
  BY <1>0, <1>7, Members DEF ListenerAdopt, SessionOK
<1>8. CASE \E r \in Requests : ListenerTooSmall(r)
  BY <1>1, <1>2, <1>8 DEF ListenerTooSmall, TypeOK
<1>9. CASE \E r \in Requests : ListenerDoneCode(r)
  BY <1>0, <1>2, <1>9, Members DEF ListenerDoneCode, SessionOK
<1>10. CASE \E r \in Requests : WatchStore(r)
  BY <1>0, <1>10 DEF WatchStore, SessionOK, TypeOK
<1>11. CASE \E r \in Requests : WatchCancelled(r) \/ WatchFinal(r)
  BY <1>0, <1>2, <1>3, <1>11 DEF WatchCancelled, WatchFinal
<1> QED
  BY <1>1, <1>4, <1>5, <1>6, <1>7, <1>8, <1>9, <1>10, <1>11
  DEF Next, vars, session, CleanUp, Interrupted, ListenerSubscribed, ListenerCancelFails,
      ListenerStop, ListenerDiscard, ListenerFails, WatchAlter, WatchCancel, WatchCancelDone,
      WatchGet, WatchGot, WatchFails, WatchStop, ExchangeCreates, ExchangeRefuses,
      ExchangeMoves, ExchangeCancels, ExchangeGets, Accounting

LEMMA ControlTypes ==
  ASSUME TypeOK, BoundInv, [Next]_vars PROVE ControlOK'
<1>1. CASE UNCHANGED <<spc, dpc, dreq, lpc, lord, failed, backwards, missed>>
  BY <1>1, TypeParts DEF ControlOK
<1>2. CASE DeciderSend
  <2>1. /\ last + 1 \in Ids /\ dpc' = "sent" /\ dreq' = last + 1
        /\ UNCHANGED <<spc, lpc, lord, failed, backwards>>
    BY <1>2, Members DEF DeciderSend, SendOrder, TypeOK, listener, ledger
  <2>2. missed' \in BOOLEAN
    BY <1>2, Zenon DEF DeciderSend, SendOrder
  <2> QED
    BY <2>1, <2>2, TypeParts DEF ControlOK
<1>8. CASE DeciderStore \/ DeciderStop \/ CleanUp \/ Interrupted
  BY <1>8, TypeParts, Members DEF ControlOK, DeciderStore, DeciderStop,
     CleanUp, Interrupted, listener, decider, ledger
<1>3. CASE ListenerSubscribed \/ ListenerCancelled \/ ListenerCancelFails \/ ListenerStop
  BY <1>3, TypeParts, Members DEF ControlOK, ListenerSubscribed, ListenerCancelled,
     ListenerCancelFails, ListenerStop, decider, ledger
<1>4. CASE \E r \in Requests : ListenerTooSmall(r) \/ ListenerFails(r)
  BY <1>4, TypeParts DEF ControlOK, ListenerTooSmall, ListenerFails, decider, listener,
     ledger, SessionOK
<1>5. CASE \E r \in Requests : WatchAlter(r) \/ WatchFails(r)
  BY <1>5, TypeParts DEF ControlOK, WatchAlter, SendOrder, WatchFails, decider, listener, ledger
<1>6. CASE \E r \in Requests : WatchGot(r) \/ Accounting(r)
  <2>1. UNCHANGED <<spc, dpc, dreq, lpc, lord, failed, missed>>
    BY <1>6 DEF WatchGot, Accounting, decider, listener
  <2>2. backwards' \in BOOLEAN
    BY <1>6, Zenon DEF WatchGot, Accounting, Upsert
  <2> QED
    BY <2>1, <2>2, TypeParts DEF ControlOK
<1>7. CASE \E r \in Requests : ExchangeMoves(r)
  BY <1>7, TypeParts DEF ControlOK, ExchangeMoves, decider, listener
<1> QED
  BY <1>1, <1>2, <1>3, <1>4, <1>5, <1>6, <1>7, <1>8
  DEF Next, vars, decider, listener, ledger, ListenerDiscard, ListenerAdopt, ListenerDoneCode,
      WatchStore, WatchCancel, WatchCancelled, WatchCancelDone, WatchFinal, WatchGet, WatchStop,
      ExchangeCreates, ExchangeRefuses, ExchangeCancels, ExchangeGets

LEMMA WatchersTypes ==
  ASSUME TypeOK, BoundInv, [Next]_vars PROVE WatchersOK'
<1>1. CASE UNCHANGED watchers
  BY <1>1, TypeParts DEF WatchersOK, watchers
<1>2. CASE \E r \in Requests : ListenerAdopt(r)
  BY <1>2, TypeParts DEF WatchersOK, ListenerAdopt
<1>3. CASE \E r \in Requests : WatchAlter(r)
  BY <1>3, TypeParts, Members DEF WatchersOK, WatchAlter, SendOrder, WireOK
<1>4. CASE \E r \in Requests : WatchStore(r) \/ WatchCancel(r) \/ WatchCancelled(r)
  BY <1>4, TypeParts DEF WatchersOK, WatchStore, WatchCancel, WatchCancelled
<1>5. CASE \E r \in Requests : WatchCancelDone(r) \/ WatchFinal(r) \/ WatchGet(r)
  BY <1>5, TypeParts DEF WatchersOK, WatchCancelDone, WatchFinal, WatchGet
<1>6. CASE \E r \in Requests : WatchGot(r) \/ WatchFails(r) \/ WatchStop(r)
  BY <1>6, TypeParts DEF WatchersOK, WatchGot, WatchFails, WatchStop
<1> QED
  BY <1>1, <1>2, <1>3, <1>4, <1>5, <1>6
  DEF Next, vars, watchers, DeciderSend, DeciderStore, DeciderStop, CleanUp, Interrupted,
      ListenerSubscribed, ListenerCancelled, ListenerCancelFails, ListenerStop,
      ListenerDiscard, ListenerTooSmall, ListenerDoneCode, ListenerFails,
      ExchangeCreates, ExchangeRefuses, ExchangeMoves, ExchangeCancels, ExchangeGets, Accounting

\* A request that is sent is a new one.
LEMMA SendTypes ==
  ASSUME TypeOK, NEW a \in Ids, SendOrder(a)
  PROVE  WireOK' /\ last + 1 \in Requests /\ last \in Nat
<1>1. last + 1 \in Requests /\ last \in Nat /\ Remaining \in Volumes
  BY Members, Sums DEF TypeOK, SendOrder
<1>2. "sent" \in Statuses
  BY DEF Statuses
<1> QED
  BY <1>1, <1>2, TypeParts, Members DEF SendOrder, WireOK

LEMMA WireTypes ==
  ASSUME TypeOK, BoundInv, [Next]_vars PROVE WireOK'
<1>1. CASE UNCHANGED wire
  BY <1>1, TypeParts DEF WireOK, wire
<1>2. CASE DeciderSend
  BY <1>2, SendTypes, Members DEF DeciderSend
<1>3. CASE \E r \in Requests : WatchAlter(r)
  BY <1>3, SendTypes DEF WatchAlter, TypeOK
<1>4. ASSUME NEW r \in Requests, NEW st \in Statuses, status' = [status EXCEPT ![r] = st],
             UNCHANGED <<last, target, amount>>
      PROVE  WireOK'
  BY <1>4, TypeParts DEF WireOK
<1>5. {"sent", "created", "tooSmall", "doneCode", "error", "used", "discarded"} \subseteq Statuses
  BY DEF Statuses, Answers
<1>6. CASE \E r \in Requests : \/ ListenerDiscard(r) \/ ListenerAdopt(r) \/ ListenerTooSmall(r)
                               \/ ListenerDoneCode(r) \/ ListenerFails(r)
  BY <1>4, <1>5, <1>6 DEF ListenerDiscard, ListenerAdopt, ListenerTooSmall, ListenerDoneCode,
     ListenerFails, Takes
<1>7. CASE \E r \in Requests : ExchangeCreates(r) \/ ExchangeRefuses(r)
  BY <1>4, <1>5, <1>7 DEF ExchangeCreates, ExchangeRefuses
<1> QED
  BY <1>1, <1>2, <1>3, <1>6, <1>7
  DEF Next, vars, wire, DeciderStore, DeciderStop, CleanUp, Interrupted,
      ListenerSubscribed, ListenerCancelled, ListenerCancelFails, ListenerStop,
      WatchStore, WatchCancel, WatchCancelled, WatchCancelDone, WatchFinal, WatchGet, WatchGot,
      WatchFails, WatchStop, ExchangeMoves, ExchangeCancels, ExchangeGets, Accounting

LEMMA CallsTypes ==
  ASSUME TypeOK, BoundInv, [Next]_vars PROVE CallsOK'
<1>1. CASE UNCHANGED calls
  BY <1>1, TypeParts DEF CallsOK, calls
<1>2. CASE ListenerCancelled \/ ListenerCancelFails
  BY <1>2, TypeParts DEF CallsOK, ListenerCancelled, ListenerCancelFails
<1>3. CASE \E r \in Requests : ListenerTooSmall(r)
  BY <1>3, TypeParts DEF CallsOK, ListenerTooSmall
<1>4. CASE \E r \in Requests : WatchCancel(r) \/ WatchCancelled(r) \/ WatchCancelDone(r)
  BY <1>4, TypeParts DEF CallsOK, WatchCancel, WatchCancelled, WatchCancelDone
<1>5. CASE \E r \in Requests : WatchGet(r) \/ WatchGot(r) \/ ExchangeGets(r)
  <2>1. CASE \E r \in Requests : WatchGet(r)
    BY <2>1, TypeParts DEF CallsOK, WatchGet
  <2>2. CASE \E r \in Requests : WatchGot(r)
    BY <2>2, TypeParts, Amounts DEF CallsOK, WatchGot
  <2>3. CASE \E r \in Requests : ExchangeGets(r)
    BY <2>3, TypeParts DEF CallsOK, LedgerOK, ExchangeGets
  <2> QED
    BY <1>5, <2>1, <2>2, <2>3
<1>6. CASE \E r \in Requests : ExchangeCancels(r)
  BY <1>6, TypeParts DEF CallsOK, ExchangeCancels
<1> QED
  BY <1>1, <1>2, <1>3, <1>4, <1>5, <1>6
  DEF Next, vars, calls, DeciderSend, DeciderStore, DeciderStop, CleanUp, Interrupted,
      ListenerSubscribed, ListenerStop, ListenerDiscard, ListenerAdopt, ListenerDoneCode,
      ListenerFails, WatchAlter, WatchStore, WatchFinal, WatchFails, WatchStop,
      ExchangeCreates, ExchangeRefuses, ExchangeMoves, Accounting

\* The three ways an order's snapshot changes at the exchange.
LEMMA ExchTypes ==
  ASSUME TypeOK, FillInv, NEW r \in Requests,
         ExchangeCreates(r) \/ ExchangeMoves(r) \/ ExchangeCancels(r)
  PROVE  exch' \in [Requests -> Snapshots]
<1>0. /\ exch \in [Requests -> Snapshots] /\ amount[r] \in Volumes
      /\ \A o \in Requests, st \in OrderStates : [exch[o] EXCEPT !.st = st] \in Snapshots
  BY Amounts DEF TypeOK, Snapshots
<1>1. {"placing", "active", "done", "cancelled"} \subseteq OrderStates
  BY DEF OrderStates
<1>2. CASE ExchangeCreates(r)
  <2>1. PICK st \in Live :
          exch' = [o \in Requests |-> IF o = r THEN [st |-> st, got |-> 0]
                                      ELSE IF o = target[r] THEN [exch[o] EXCEPT !.st = "cancelled"]
                                      ELSE exch[o]]
    BY <1>2 DEF ExchangeCreates
  <2> QED
    BY <1>0, <1>1, <2>1, Amounts
<1>3. CASE ExchangeMoves(r)
  <2>1. exch[r].st = "active" => exch[r].got + 1 \in Volumes
    BY <1>0, Amounts DEF FillInv, Live, TypeOK
  <2>2. \/ \E st \in OrderStates : exch' = [exch EXCEPT ![r].st = st]
        \/ /\ exch[r].st = "active"
           /\ \E st \in OrderStates : exch' = [exch EXCEPT ![r] = [st |-> st, got |-> exch[r].got + 1]]
    BY <1>1, <1>3 DEF ExchangeMoves
  <2> QED
    BY <1>0, <2>1, <2>2, Amounts
<1>4. CASE ExchangeCancels(r)
  BY <1>0, <1>1, <1>4 DEF ExchangeCancels
<1> QED
  BY <1>2, <1>3, <1>4

LEMMA LedgerTypes ==
  ASSUME TypeOK, BoundInv, FillInv, [Next]_vars PROVE LedgerOK'
<1>1. CASE UNCHANGED <<exch, reported, stored>>
  BY <1>1, TypeParts DEF LedgerOK
<1>2. CASE \E r \in Requests : ExchangeCreates(r) \/ ExchangeMoves(r) \/ ExchangeCancels(r)
  BY <1>2, ExchTypes, TypeParts DEF LedgerOK, ExchangeCreates, ExchangeMoves, ExchangeCancels
<1>3. CASE \E r \in Requests : WatchGot(r)
  BY <1>3, TypeParts DEF LedgerOK, CallsOK, WatchGot, Upsert
<1>4. CASE \E r \in Requests : Accounting(r)
  <2>1. PICK r \in Requests : Accounting(r)
    BY <1>4
  <2>2. PICK snap \in {exch[r]} \cup [st : Live, got : Volumes] :
          reported' = [reported EXCEPT ![r] = snap] /\ Upsert(r, snap) /\ exch' = exch
    BY <2>1 DEF Accounting
  <2>3. snap \in Snapshots
    BY <2>2, TypeParts, Amounts DEF LedgerOK, Snapshots
  <2> QED
    BY <2>2, <2>3, TypeParts DEF LedgerOK, Upsert
<1> QED
  BY <1>1, <1>2, <1>3, <1>4
  DEF Next, vars, ledger, DeciderSend, DeciderStore, DeciderStop, CleanUp, Interrupted,
      ListenerSubscribed, ListenerCancelled, ListenerCancelFails, ListenerStop,
      ListenerDiscard, ListenerAdopt, ListenerTooSmall, ListenerDoneCode,
      ListenerFails, WatchAlter, WatchStore, WatchCancel, WatchCancelled, WatchCancelDone,
      WatchFinal, WatchGet, WatchFails, WatchStop, ExchangeRefuses, ExchangeGets

LEMMA TypeStep ==
  ASSUME TypeOK, BoundInv, FillInv, [Next]_vars PROVE TypeOK'
BY TypeParts, SessionTypes, ControlTypes, WatchersTypes, WireTypes, CallsTypes, LedgerTypes

-----------------------------------------------------------------------------
(* Steps that do not hand the token on, and steps that do.                  *)

\* Nothing moves but answers and states of orders; goroutines only end.
Quiet ==
  /\ UNCHANGED <<need, active, prev, req, orders, completed, isDone, booked>>
  /\ UNCHANGED <<dpc, dreq, wreq, last, target, amount>>
  /\ failed => failed'
  /\ lpc' = "cancelling" => lpc = "cancelling" /\ lord' = lord
  /\ lpc = "cancelling" => lpc' = "cancelling" \/ failed'
  /\ \A r \in Requests :
       /\ Watching(r)' => Watching(r)
       /\ Watching(r) => Watching(r)' \/ failed' \/ dpc = "stopped"
       /\ wpc'[r] = "altered" <=> wpc[r] = "altered"
       /\ OnItsWay(r)' => OnItsWay(r)
       /\ status'[r] = "unsent" <=> status[r] = "unsent"
       /\ status[r] = "used" => status'[r] = "used"
       /\ status'[r] = "used" => status[r] = "used" \/ (failed' /\ r = req)

\* An action that hands the token on, or puts it away.
Loud ==
  \/ DeciderSend \/ DeciderStore \/ DeciderStop \/ ListenerCancelled
  \/ \E r \in Requests :
       \/ ListenerAdopt(r) \/ ListenerTooSmall(r) \/ ListenerDoneCode(r)
       \/ WatchAlter(r) \/ WatchStore(r) \/ WatchCancelled(r) \/ WatchFinal(r)

LEMMA QuietOrLoud ==
  ASSUME TypeOK, [Next]_vars PROVE Quiet \/ Loud
<1> USE DEF Quiet, Watching, OnItsWay, Answers
<1>0. /\ wpc \in [Requests -> {"none", "watch", "altered", "cancelling", "getting", "stopped"}]
      /\ status \in [Requests -> Statuses]
  BY DEF TypeOK, Statuses
<1>1. CASE CleanUp
  BY <1>1 DEF CleanUp, session, decider, listener, watchers, wire
<1>2. CASE ListenerSubscribed
  BY <1>2 DEF ListenerSubscribed, session, decider, watchers, wire
<1>3. CASE ListenerCancelFails
  BY <1>3 DEF ListenerCancelFails, session, decider, watchers, wire
<1>4. CASE ListenerStop
  BY <1>4 DEF ListenerStop, session, decider, watchers, wire
<1>5. CASE Interrupted
  BY <1>5 DEF Interrupted, session, decider, listener, watchers, wire
<1>6. CASE \E r \in Requests : ListenerDiscard(r)
  BY <1>0, <1>6 DEF ListenerDiscard, session, decider, listener, watchers
<1>7. CASE \E r \in Requests : ListenerFails(r)
  BY <1>0, <1>7 DEF ListenerFails, session, decider, watchers, Takes
<1>8. CASE \E r \in Requests : WatchCancel(r)
  BY <1>0, <1>8 DEF WatchCancel, Managed, session, decider, listener, wire
<1>9. CASE \E r \in Requests : WatchCancelDone(r)
  BY <1>0, <1>9 DEF WatchCancelDone, session, decider, listener, wire
<1>10. CASE \E r \in Requests : WatchGet(r)
  BY <1>0, <1>10 DEF WatchGet, session, decider, listener, wire
<1>11. CASE \E r \in Requests : WatchGot(r)
  BY <1>0, <1>11 DEF WatchGot, session, decider, listener, wire
<1>12. CASE \E r \in Requests : WatchFails(r)
  BY <1>0, <1>12 DEF WatchFails, session, decider, listener, wire
<1>13. CASE \E r \in Requests : WatchStop(r)
  BY <1>0, <1>13 DEF WatchStop, ctxDone, session, decider, listener, wire
<1>14. CASE \E r \in Requests : ExchangeCreates(r)
  BY <1>0, <1>14 DEF ExchangeCreates, session, decider, listener, watchers
<1>15. CASE \E r \in Requests : ExchangeRefuses(r)
  BY <1>0, <1>15 DEF ExchangeRefuses, session, decider, listener, watchers
<1>16. CASE \E r \in Requests : ExchangeMoves(r)
  BY <1>16 DEF ExchangeMoves, session, decider, listener, watchers, wire
<1>17. CASE \E r \in Requests : ExchangeCancels(r)
  BY <1>17 DEF ExchangeCancels, session, decider, listener, watchers, wire
<1>18. CASE \E r \in Requests : ExchangeGets(r)
  BY <1>18 DEF ExchangeGets, session, decider, listener, watchers, wire
<1>19. CASE \E r \in Requests : Accounting(r)
  BY <1>19 DEF Accounting, session, decider, listener, watchers, wire
<1>20. CASE UNCHANGED vars
  BY <1>20 DEF vars
<1> HIDE DEF Quiet, OnItsWay
<1> QED
  BY <1>1, <1>2, <1>3, <1>4, <1>5, <1>6, <1>7, <1>8, <1>9, <1>10, <1>11, <1>12, <1>13,
     <1>14, <1>15, <1>16, <1>17, <1>18, <1>19, <1>20 DEF Next, Loud

-----------------------------------------------------------------------------
(* Which steps change what.                                                *)

LEMMA ExchSteps ==
  ASSUME [Next]_vars
  PROVE  exch' = exch \/ \E r \in Requests : \/ ExchangeCreates(r) \/ ExchangeMoves(r)
                                             \/ ExchangeCancels(r)
  BY DEF Next, vars, ledger, DeciderSend, DeciderStore, DeciderStop, CleanUp, Interrupted,
     ListenerSubscribed, ListenerDiscard, ListenerAdopt, ListenerTooSmall,
     ListenerDoneCode, ListenerFails, ListenerCancelled, ListenerCancelFails,
     ListenerStop, WatchAlter, WatchStore, WatchCancel, WatchCancelled,
     WatchCancelDone, WatchFinal, WatchGet, WatchGot, WatchFails, WatchStop,
     ExchangeRefuses, ExchangeGets, Accounting

LEMMA StoredSteps ==
  ASSUME [Next]_vars
  PROVE  \/ UNCHANGED <<stored, backwards>>
         \/ \E o \in Requests : WatchGot(o) \/ Accounting(o)
  BY DEF Next, vars, ledger, DeciderSend, DeciderStore, DeciderStop, CleanUp, Interrupted,
     ListenerSubscribed, ListenerDiscard, ListenerAdopt, ListenerTooSmall,
     ListenerDoneCode, ListenerFails, ListenerCancelled, ListenerCancelFails,
     ListenerStop, WatchAlter, WatchStore, WatchCancel, WatchCancelled,
     WatchCancelDone, WatchFinal, WatchGet, WatchFails, WatchStop,
     ExchangeCreates, ExchangeMoves, ExchangeCancels, ExchangeRefuses, ExchangeGets

LEMMA CallSteps ==
  ASSUME [Next]_vars
  PROVE  /\ \/ UNCHANGED <<get, answer>>
            \/ \E o \in Requests : WatchGet(o) \/ WatchGot(o) \/ ExchangeGets(o)
         /\ \/ UNCHANGED cancel
            \/ ListenerCancelled \/ ListenerCancelFails
            \/ \E o \in Requests : \/ ListenerTooSmall(o) \/ WatchCancel(o) \/ WatchCancelled(o)
                                   \/ WatchCancelDone(o) \/ ExchangeCancels(o)
<1>1. \/ UNCHANGED calls
      \/ ListenerCancelled \/ ListenerCancelFails
      \/ \E o \in Requests : \/ WatchGet(o) \/ WatchGot(o) \/ ExchangeGets(o)
                             \/ ListenerTooSmall(o) \/ WatchCancel(o) \/ WatchCancelled(o)
                             \/ WatchCancelDone(o) \/ ExchangeCancels(o)
  BY DEF Next, vars, calls, DeciderSend, DeciderStore, DeciderStop, CleanUp, Interrupted,
     ListenerSubscribed, ListenerDiscard, ListenerAdopt, ListenerDoneCode, ListenerFails,
     ListenerStop, WatchAlter, WatchStore, WatchFinal, WatchFails, WatchStop,
     ExchangeCreates, ExchangeMoves, ExchangeRefuses, Accounting
<1>2. ListenerCancelled \/ ListenerCancelFails => UNCHANGED <<get, answer>>
  BY DEF ListenerCancelled, ListenerCancelFails
<1>3. \A o \in Requests :
        /\ WatchGet(o) \/ WatchGot(o) \/ ExchangeGets(o) => UNCHANGED cancel
        /\ \/ ListenerTooSmall(o) \/ WatchCancel(o) \/ WatchCancelled(o)
           \/ WatchCancelDone(o) \/ ExchangeCancels(o)
           => UNCHANGED <<get, answer>>
  BY DEF WatchGet, WatchGot, ExchangeGets, ListenerTooSmall, WatchCancel, WatchCancelled,
     WatchCancelDone, ExchangeCancels
<1> QED
  BY <1>1, <1>2, <1>3 DEF calls

LEMMA WatcherSteps ==
  ASSUME [Next]_vars
  PROVE  \/ UNCHANGED <<wpc, wreq>>
         \/ \E o \in Requests : 
              \/ ListenerAdopt(o) \/ WatchAlter(o) \/ WatchStore(o) \/ WatchCancel(o)
              \/ WatchCancelled(o) \/ WatchCancelDone(o) \/ WatchFinal(o)
              \/ WatchGet(o) \/ WatchGot(o) \/ WatchFails(o) \/ WatchStop(o)
  BY DEF Next, vars, watchers, DeciderSend, DeciderStore, DeciderStop, CleanUp, Interrupted,
     ListenerSubscribed, ListenerDiscard, ListenerTooSmall,
     ListenerDoneCode, ListenerFails, ListenerCancelled, ListenerCancelFails,
     ListenerStop, ExchangeCreates, ExchangeMoves, ExchangeCancels,
     ExchangeRefuses, ExchangeGets, Accounting

LEMMA WireSteps ==
  ASSUME [Next]_vars
  PROVE  /\ \/ UNCHANGED <<last, target, amount>>
            \/ DeciderSend \/ \E r \in Requests : WatchAlter(r)
         /\ \/ UNCHANGED status
            \/ DeciderSend
            \/ \E r \in Requests : 
                 \/ ListenerDiscard(r) \/ ListenerAdopt(r) \/ ListenerTooSmall(r)
                 \/ ListenerDoneCode(r) \/ ListenerFails(r) \/ WatchAlter(r)
                 \/ ExchangeCreates(r) \/ ExchangeRefuses(r)
<1>1. \/ UNCHANGED wire
      \/ DeciderSend
      \/ \E r \in Requests : 
           \/ ListenerDiscard(r) \/ ListenerAdopt(r) \/ ListenerTooSmall(r)
           \/ ListenerDoneCode(r) \/ ListenerFails(r) \/ WatchAlter(r)
           \/ ExchangeCreates(r) \/ ExchangeRefuses(r)
  BY DEF Next, vars, wire, DeciderStore, DeciderStop, CleanUp, Interrupted,
     ListenerSubscribed, ListenerCancelled, ListenerCancelFails,
     ListenerStop, WatchStore, WatchCancel, WatchCancelled,
     WatchCancelDone, WatchFinal, WatchGet, WatchGot, WatchFails, WatchStop,
     ExchangeMoves, ExchangeCancels, ExchangeGets, Accounting
<1>2. \A r \in Requests :
        \/ ListenerDiscard(r) \/ ListenerAdopt(r) \/ ListenerTooSmall(r)
        \/ ListenerDoneCode(r) \/ ListenerFails(r)
        \/ ExchangeCreates(r) \/ ExchangeRefuses(r)
        => UNCHANGED <<last, target, amount>>
  BY DEF ListenerDiscard, ListenerAdopt, ListenerTooSmall, ListenerDoneCode, ListenerFails,
     Takes, ExchangeCreates, ExchangeRefuses
<1> QED
  BY <1>1, <1>2 DEF wire

LEMMA FailedStays ==
  ASSUME [Next]_vars PROVE failed => failed'
  BY DEF Next, vars, DeciderSend, DeciderStore, DeciderStop, CleanUp, Interrupted,
     ListenerSubscribed, ListenerDiscard, ListenerAdopt, ListenerTooSmall,
     ListenerDoneCode, ListenerFails, ListenerCancelled, ListenerCancelFails,
     ListenerStop, WatchAlter, WatchStore, WatchCancel, WatchCancelled,
     WatchCancelDone, WatchFinal, WatchGet, WatchGot, WatchFails, WatchStop,
     ExchangeCreates, ExchangeMoves, ExchangeCancels,
     ExchangeRefuses, ExchangeGets, Accounting

-----------------------------------------------------------------------------
(* Who acts, and what is under way then.                                    *)

\* The one that watches is the only one.
LEMMA WatcherAlone ==
  ASSUME TypeOK, Core, NEW o \in Requests, Watching(o)
  PROVE  /\ ~Idle /\ ~isDone /\ ~need /\ req = 0 /\ dpc # "sent" /\ lpc # "cancelling"
         /\ active = o /\ o <= last
         /\ \A p \in Requests : Watching(p) => p = o
  BY DEF Core, BoundInv, TokenInv, DoneInv, WatcherHasActive, Idle, NoWatcher

\* The flag is up, and nothing else.
LEMMA NeedAlone ==
  ASSUME TypeOK, Core, need
  PROVE  /\ ~Idle /\ ~isDone /\ req = 0 /\ dpc # "sent" /\ lpc # "cancelling" /\ NoWatcher
  BY DEF Core, BoundInv, TokenInv, DoneInv, Idle

\* The decider has sent a request, whose number the session does not know yet.
LEMMA SenderAlone ==
  ASSUME TypeOK, Core, dpc = "sent"
  PROVE  /\ ~Idle /\ ~isDone /\ ~need /\ req = 0 /\ lpc # "cancelling" /\ NoWatcher
         /\ dreq \in Requests
  BY DEF Core, BoundInv, TokenInv, DoneInv, Idle

\* The session waits for the answer to its request.
LEMMA RequestAlone ==
  ASSUME TypeOK, Core, req # 0
  PROVE  ~Idle /\ ~isDone /\ ~need /\ dpc # "sent" /\ NoWatcher /\ req \in Requests
  BY Members DEF Core, BoundInv, TokenInv, DoneInv, Idle, TypeOK

\* A request that is under way is the only one, and there is no flag up.
LEMMA OneOnTheWay ==
  ASSUME TypeOK, Core, WayInv, NEW r \in Requests, OnItsWay(r)
  PROVE  /\ ~Idle /\ ~isDone /\ ~need
         /\ req # 0 => r = req
         /\ dpc = "sent" => r = dreq
         /\ \A o \in Requests : Watching(o) => wpc[o] = "altered" /\ r = wreq[o]
<1>1. CASE r = req
  BY <1>1, Members, RequestAlone DEF NoWatcher
<1>2. CASE dpc = "sent" /\ r = dreq
  BY <1>2, SenderAlone DEF NoWatcher
<1>3. CASE \E o \in Requests : wpc[o] = "altered" /\ r = wreq[o]
  <2>1. PICK o \in Requests : wpc[o] = "altered" /\ r = wreq[o]
    BY <1>3
  <2>2. Watching(o)
    BY <2>1 DEF Watching
  <2> QED
    BY <2>1, <2>2, WatcherAlone
<1> QED
  BY <1>1, <1>2, <1>3 DEF WayInv

\* The listener has used the answer to r: nothing is under way any more.
LEMMA Taken ==
  ASSUME TypeOK, Core, WayInv, NEW r \in Requests,
         ListenerAdopt(r) \/ ListenerTooSmall(r) \/ ListenerDoneCode(r)
  PROVE  /\ req = r /\ r # 0 /\ ~Idle /\ ~isDone /\ ~need /\ lpc = "idle" /\ dpc # "sent"
         /\ NoWatcher
         /\ status' = [status EXCEPT ![r] = "used"]
         /\ \A q \in Requests : ~OnItsWay(q)'
         /\ UNCHANGED <<exch, stored, backwards, missed, last, target, amount, dpc, dreq, failed>>
<1>1. PICK a \in {"created", "tooSmall", "doneCode"} : Takes(r, a)
  BY DEF ListenerAdopt, ListenerTooSmall, ListenerDoneCode
<1>2. /\ req = r /\ r # 0 /\ lpc = "idle" /\ status[r] = a
      /\ status' = [status EXCEPT ![r] = "used"] /\ UNCHANGED <<last, target, amount>>
  BY <1>1, Members DEF Takes
<1>3. \A q \in Requests : OnItsWay(q) => q = r
  BY <1>2, OneOnTheWay
<1>4. \A q \in Requests : ~OnItsWay(q)'
  BY <1>2, <1>3 DEF OnItsWay, Answers, TypeOK
<1>5. UNCHANGED <<exch, stored, backwards, missed, dpc, dreq, failed>>
  BY DEF ListenerAdopt, ListenerTooSmall, ListenerDoneCode, ledger, decider
<1> QED
  BY <1>2, <1>4, <1>5, RequestAlone

\* The watcher of o ends, and has sent nothing.
LEMMA Unwatched ==
  ASSUME TypeOK, Core, WayInv, NEW o \in Requests, WatchCancelled(o) \/ WatchFinal(o)
  PROVE  /\ ~Idle /\ ~isDone /\ ~need /\ req = 0 /\ Watching(o) /\ wpc[o] # "altered"
         /\ dpc # "sent" /\ lpc # "cancelling" /\ active = o
         /\ NoWatcher'
         /\ \A q \in Requests : ~OnItsWay(q) /\ ~OnItsWay(q)'
         /\ UNCHANGED <<exch, stored, backwards, missed, last, target, amount, status, dpc,
                        dreq, lpc, failed>>
<1>1. /\ Watching(o) /\ wpc[o] # "altered"
      /\ wpc' = [wpc EXCEPT ![o] = "stopped"]
      /\ UNCHANGED <<exch, stored, backwards, missed, last, target, amount, status, dpc,
                     dreq, lpc, failed>>
  BY DEF WatchCancelled, WatchFinal, Watching, ledger, wire, decider, listener
<1>2. /\ ~Idle /\ ~isDone /\ ~need /\ req = 0 /\ dpc # "sent" /\ lpc # "cancelling" /\ active = o
      /\ \A p \in Requests : Watching(p) => p = o
  BY <1>1, WatcherAlone
<1>3. NoWatcher'
  BY <1>1, <1>2 DEF NoWatcher, Watching, TypeOK
<1>4. \A q \in Requests : ~OnItsWay(q)
  BY <1>1, OneOnTheWay
<1>5. \A q \in Requests : ~OnItsWay(q)'
  BY <1>1, <1>4 DEF OnItsWay
<1> QED
  BY <1>1, <1>2, <1>3, <1>4, <1>5

\* The listener has cancelled the order that a refused one was to replace.
LEMMA PreviousCancelled ==
  ASSUME TypeOK, Core, WayInv, LordInv, ListenerCancelled
  PROVE  /\ lord \in Requests /\ cancel[lord] = "ok" /\ lord = prev
         /\ req \in Requests /\ req # 0 /\ exch[req].st = "absent"
         /\ ~Idle /\ ~isDone /\ ~need /\ dpc # "sent" /\ NoWatcher /\ NoWatcher'
         /\ \A q \in Requests : ~OnItsWay(q) /\ ~OnItsWay(q)'
         /\ ExecutedFlags(lord) /\ lpc' = "idle"
         /\ UNCHANGED <<exch, stored, backwards, missed, last, target, amount, status, dpc,
                        dreq, wpc, failed>>
<1>1. /\ lpc = "cancelling" /\ cancel[lord] = "ok" /\ ExecutedFlags(lord) /\ lpc' = "idle"
      /\ UNCHANGED <<exch, stored, backwards, missed, last, target, amount, status, dpc, dreq,
                     wpc, failed>>
  BY DEF ListenerCancelled, ledger, wire, decider, watchers
<1>2. /\ lord \in Requests /\ lord = prev /\ req # 0
      /\ exch[req].st = "absent" /\ status[req] = "used"
  BY <1>1 DEF Core, BoundInv, LordInv
<1>3. ~Idle /\ ~isDone /\ ~need /\ dpc # "sent" /\ NoWatcher /\ req \in Requests
  BY <1>2, RequestAlone
<1>4. \A q \in Requests : ~OnItsWay(q)
  BY <1>2, OneOnTheWay DEF OnItsWay, Answers
<1>5. (\A q \in Requests : ~OnItsWay(q)') /\ NoWatcher'
  BY <1>1, <1>3, <1>4 DEF OnItsWay, NoWatcher, Watching
<1> QED
  BY <1>1, <1>2, <1>3, <1>4, <1>5

-----------------------------------------------------------------------------
(* An order's life at the exchange.                                         *)

\* The ways an order comes to another snapshot.
LEMMA ExchChange ==
  ASSUME TypeOK, AnswerInv, [Next]_vars, NEW o \in Requests, exch'[o] # exch[o]
  PROVE  \/ /\ ExchangeCreates(o) /\ exch[o].st = "absent"
            /\ exch'[o].st \in Live /\ exch'[o].got = 0
         \/ /\ exch[o].st \in Live /\ exch'[o].st \in {"active", "cancelled"}
            /\ exch'[o].got = exch[o].got
         \/ /\ ExchangeMoves(o) /\ exch[o].st = "active"
            /\ exch'[o].got = exch[o].got + 1
            /\ exch'[o].st = IF exch[o].got + 1 = amount[o] THEN "done" ELSE "active"
            /\ missed' = (missed \/ \E r \in Requests : target[r] = o /\ status[r] = "sent")
<1>0. /\ exch \in [Requests -> Snapshots]
      /\ \A x \in Snapshots, st \in OrderStates :
           [x EXCEPT !.st = st].st = st /\ [x EXCEPT !.st = st].got = x.got
      /\ "active" \in OrderStates /\ "cancelled" \in OrderStates
  BY DEF TypeOK, Snapshots, OrderStates
<1>1. CASE \E r \in Requests : ExchangeCreates(r)
  <2>1. PICK r \in Requests : ExchangeCreates(r)
    BY <1>1
  <2>2. exch[r].st = "absent"
    BY <2>1 DEF ExchangeCreates, AnswerInv
  <2>3. PICK st \in Live :
          exch' = [q \in Requests |-> IF q = r THEN [st |-> st, got |-> 0]
                                      ELSE IF q = target[r]
                                           THEN [exch[q] EXCEPT !.st = "cancelled"]
                                      ELSE exch[q]]
    BY <2>1 DEF ExchangeCreates
  <2>4. target[r] # 0 => exch[target[r]].st \in Live
    BY <2>1 DEF ExchangeCreates
  <2>5. CASE o = r
    <3>1. exch'[o] = [st |-> st, got |-> 0]
      BY <2>3, <2>5
    <3> QED
      BY <2>1, <2>2, <2>5, <3>1
  <2>6. CASE o # r /\ o = target[r]
    <3>1. exch'[o] = [exch[o] EXCEPT !.st = "cancelled"]
      BY <2>3, <2>6
    <3> QED
      BY <1>0, <2>4, <2>6, <3>1, Members
  <2>7. CASE o # r /\ o # target[r]
    BY <2>3, <2>7
  <2> QED
    BY <2>5, <2>6, <2>7
<1>2. ASSUME NEW st \in {"active", "cancelled"}, exch[o].st \in Live,
             exch'[o] = [exch[o] EXCEPT !.st = st]
      PROVE  exch'[o].st = st /\ exch'[o].got = exch[o].got
  BY <1>0, <1>2
<1>3. CASE \E r \in Requests : ExchangeMoves(r)
  <2>1. PICK r \in Requests : ExchangeMoves(r)
    BY <1>3
  <2>2. CASE o # r
    BY <1>0, <2>1, <2>2 DEF ExchangeMoves
  <2>3. CASE o = r /\ \/ exch[o].st = "placing" /\ exch' = [exch EXCEPT ![o].st = "active"]
                      \/ exch[o].st \in Live /\ exch' = [exch EXCEPT ![o].st = "cancelled"]
    <3>1. \/ exch[o].st = "placing" /\ exch'[o] = [exch[o] EXCEPT !.st = "active"]
          \/ exch[o].st \in Live /\ exch'[o] = [exch[o] EXCEPT !.st = "cancelled"]
      BY <1>0, <2>3
    <3> QED
      BY <1>2, <3>1 DEF Live
  <2>4. CASE /\ o = r /\ exch[o].st = "active"
             /\ exch' = [exch EXCEPT ![o] = [st |-> IF @.got + 1 = amount[o] THEN "done" ELSE "active",
                                             got |-> @.got + 1]]
             /\ missed' = (missed \/ \E q \in Requests : target[q] = o /\ status[q] = "sent")
    <3>1. exch'[o] = [st |-> IF exch[o].got + 1 = amount[o] THEN "done" ELSE "active",
                      got |-> exch[o].got + 1]
      BY <1>0, <2>4
    <3> QED
      BY <2>1, <2>4, <3>1
  <2> QED
    BY <2>1, <2>2, <2>3, <2>4 DEF ExchangeMoves
<1>4. CASE \E r \in Requests : ExchangeCancels(r)
  <2>1. exch[o].st \in Live /\ exch'[o] = [exch[o] EXCEPT !.st = "cancelled"]
    BY <1>0, <1>4 DEF ExchangeCancels
  <2> QED
    BY <1>2, <2>1
<1> QED
  BY <1>1, <1>3, <1>4, ExchSteps

LEMMA OrderStays ==
  ASSUME TypeOK, AnswerInv, FillInv, [Next]_vars, NEW o \in Requests
  PROVE  /\ exch[o].st \in Final => exch'[o] = exch[o]
         /\ exch[o].st # "absent" => exch'[o].st # "absent"
         /\ exch[o].st = "absent" /\ exch'[o].st # "absent" => ExchangeCreates(o)
         /\ exch'[o].st \in Live => exch[o].st \in Live \/ ExchangeCreates(o)
         /\ exch[o].got \in Nat /\ exch[o].got <= exch'[o].got
         /\ exch'[o].got # exch[o].got => ExchangeMoves(o) /\ exch[o].st = "active"
<1>0. /\ exch[o].got \in Nat /\ Live = {"placing", "active"} /\ Final = {"done", "cancelled"}
      /\ exch[o].st \in {"absent"} \cup Live \cup Final
      /\ exch[o].st = "absent" => exch[o].got = 0
  BY Amounts DEF TypeOK, Live, Final, FillInv
<1>1. CASE exch'[o] = exch[o]
  BY <1>0, <1>1
<1>2. CASE exch'[o] # exch[o]
  BY <1>0, <1>2, ExchChange
<1> QED
  BY <1>1, <1>2

\* The sum of what was bought goes up, and only with a fill.
LEMMA BoughtStays ==
  ASSUME TypeOK, TypeOK', AnswerInv, FillInv, [Next]_vars
  PROVE  /\ Bought \in Nat /\ Bought' \in Nat /\ Bought <= Bought'
         /\ (\A o \in Requests : exch'[o].got = exch[o].got) => Bought' = Bought
         /\ \A o \in Requests : exch'[o].got = exch[o].got + 1
              /\ (\A q \in Requests \ {o} : exch'[q].got = exch[q].got)
              => Bought' = Bought + 1
<1> PICK f, g : f = exch /\ g = exch'
  OBVIOUS
<1>1. Counts(f, Requests) /\ Counts(g, Requests)
  <2>1. IsFiniteSet(Requests) /\ exch \in [Requests -> Snapshots] /\ exch' \in [Requests -> Snapshots]
    BY Members DEF TypeOK
  <2> QED
    BY <2>1, Amounts DEF Counts
<1>2. Bought = Total(f, Requests) /\ Bought' = Total(g, Requests)
  BY DEF Bought
<1>3. \A o \in Requests : f[o].got <= g[o].got
  BY OrderStays
<1>4. Bought \in Nat /\ Bought' \in Nat
  BY <1>1, <1>2, TotalNat DEF Counts
<1>5. Bought <= Bought'
  <2>1. \A o \in Requests : f[o].got = 0 \/ (o \in Requests /\ f[o].got <= g[o].got)
    BY <1>3
  <2> QED
    BY <1>1, <1>2, <2>1, TotalLess
<1>6. ASSUME \A o \in Requests : exch'[o].got = exch[o].got PROVE Bought' = Bought
  <2>1. \A o \in Requests : f[o].got = g[o].got
    BY <1>6
  <2>2. Total(f, Requests) = Total(g, Requests)
    BY <1>1, <2>1, TotalSame
  <2> QED
    BY <1>2, <2>2
<1>7. ASSUME NEW o \in Requests, exch'[o].got = exch[o].got + 1,
             \A q \in Requests \ {o} : exch'[q].got = exch[q].got
      PROVE  Bought' = Bought + 1
  <2>1. Total(g, Requests) = Total(f, Requests) + 1
    BY <1>1, <1>7, TotalMore
  <2> QED
    BY <1>2, <2>1
<1> QED
  BY <1>4, <1>5, <1>6, <1>7

\* A request that is sent is new to the exchange.
LEMMA NewRequest ==
  ASSUME TypeOK, BoundInv, AnswerInv, NEW a \in Ids, SendOrder(a)
  PROVE  /\ last + 1 \in Requests /\ last \in Nat /\ last' = last + 1
         /\ status[last + 1] = "unsent" /\ exch[last + 1].st = "absent"
         /\ target'[last + 1] = a /\ status'[last + 1] = "sent" /\ amount'[last + 1] = Remaining
         /\ \A r \in Requests \ {last + 1} :
              target'[r] = target[r] /\ status'[r] = status[r] /\ amount'[r] = amount[r]
         /\ \A r \in Requests : Watching(r) => r # last + 1
<1>1. last + 1 \in Requests /\ last \in Nat
  BY SendTypes
<1>2. status[last + 1] = "unsent" /\ \A r \in Requests : Watching(r) => r # last + 1
  BY <1>1, Members DEF BoundInv
<1>3. exch[last + 1].st = "absent"
  BY <1>1, <1>2 DEF AnswerInv
<1> QED
  BY <1>1, <1>2, <1>3 DEF SendOrder, TypeOK

LEMMA SendAnswers ==
  ASSUME TypeOK, BoundInv, AnswerInv, NEW a \in Ids, SendOrder(a), a # last + 1, exch' = exch
  PROVE  AnswerInv'
<1>1. /\ last + 1 \in Requests
      /\ exch[last + 1].st = "absent"
      /\ target'[last + 1] = a /\ status'[last + 1] = "sent"
      /\ \A r \in Requests \ {last + 1} : target'[r] = target[r] /\ status'[r] = status[r]
  BY NewRequest
<1>2. \A r \in Requests : r = last + 1 \/ r \in Requests \ {last + 1}
  OBVIOUS
<1> QED
  BY <1>1, <1>2 DEF AnswerInv

\* The order a watcher alters is the active one.
LEMMA AlteringOrder ==
  ASSUME TypeOK, Core, AnswerInv, WayInv, NEW o \in Requests, WatchAlter(o)
  PROVE  /\ ~Idle /\ ~isDone /\ ~need /\ req = 0 /\ Watching(o) /\ o \in Ids /\ o # last + 1
         /\ dpc # "sent" /\ lpc # "cancelling"
         /\ \A q \in Requests : Watching(q) => q = o
         /\ \A q \in Requests : ~OnItsWay(q)
         /\ SendOrder(o)
         /\ stored[o].st = "active" /\ wpc[o] = "watch"
         /\ wpc' = [wpc EXCEPT ![o] = "altered"]
         /\ wreq' = [wreq EXCEPT ![o] = last + 1]
         /\ UNCHANGED <<need, active, prev, req, orders, completed, isDone, booked, dpc, dreq,
                        lpc, lord, failed, exch, stored, backwards>>
<1>1. Watching(o) /\ wpc[o] = "watch"
  BY DEF WatchAlter, MoveRequired, Managed, Watching
<1>2. /\ ~Idle /\ ~isDone /\ ~need /\ req = 0 /\ dpc # "sent" /\ lpc # "cancelling" /\ active = o
      /\ \A p \in Requests : Watching(p) => p = o
  BY <1>1, WatcherAlone
<1>3. \A q \in Requests : ~OnItsWay(q)
  BY <1>1, OneOnTheWay
<1>4. SendOrder(o) /\ o \in Ids
  BY <1>2, Members DEF WatchAlter
<1>5. o # last + 1
  BY <1>1, <1>4, NewRequest DEF Core
<1> QED
  BY <1>1, <1>2, <1>3, <1>4, <1>5
  DEF WatchAlter, MoveRequired, Managed, session, decider, listener, ledger

\* The listener takes an answer up, or drops it.
LEMMA UsedSteps ==
  ASSUME NEW r \in Requests,
         \/ ListenerDiscard(r) \/ ListenerAdopt(r) \/ ListenerTooSmall(r)
         \/ ListenerDoneCode(r) \/ ListenerFails(r)
  PROVE  /\ status[r] \in Answers /\ UNCHANGED <<exch, target>>
         /\ \E st \in {"used", "discarded"} : status' = [status EXCEPT ![r] = st]
  BY DEF ListenerDiscard, ListenerAdopt, ListenerTooSmall, ListenerDoneCode, ListenerFails,
     Takes, Answers, ledger, calls

LEMMA AnswerStep ==
  ASSUME TypeOK, Core, AnswerInv, FillInv, WayInv, [Next]_vars PROVE AnswerInv'
<1>0. /\ status \in [Requests -> Statuses] /\ target \in [Requests -> Ids]
      /\ \A r \in Requests : target[r] # 0 => target[r] \in Requests
      /\ \A r \in Requests : exch[r].st \in Final => exch'[r].st \in Final
  BY Members, OrderStays DEF TypeOK, Statuses
<1>1. CASE UNCHANGED <<status, target>>
  <2>1. \A r \in Requests : ~ExchangeCreates(r)
    BY <1>0, <1>1 DEF ExchangeCreates
  <2>2. \A r \in Requests : exch'[r].st # "absent" <=> exch[r].st # "absent"
    BY <2>1, OrderStays
  <2> QED
    BY <1>0, <1>1, <2>2 DEF AnswerInv
<1>2. CASE \E r \in Requests : \/ ListenerDiscard(r) \/ ListenerAdopt(r) \/ ListenerTooSmall(r)
                               \/ ListenerDoneCode(r) \/ ListenerFails(r)
  <2>1. PICK r \in Requests : \/ ListenerDiscard(r) \/ ListenerAdopt(r) \/ ListenerTooSmall(r)
                              \/ ListenerDoneCode(r) \/ ListenerFails(r)
    BY <1>2
  <2>2. UNCHANGED <<exch, target>>
    BY <2>1, UsedSteps
  <2>3. PICK st \in {"used", "discarded"} : status' = [status EXCEPT ![r] = st]
    BY <2>1, UsedSteps
  <2> QED
    BY <1>0, <2>2, <2>3 DEF AnswerInv
<1>3. CASE DeciderSend
  <2>1. SendOrder(0) /\ exch' = exch /\ 0 \in Ids /\ 0 # last + 1
    BY <1>3, Members DEF DeciderSend, ledger, TypeOK
  <2> QED
    BY <2>1, SendAnswers DEF Core
<1>4. CASE \E o \in Requests : WatchAlter(o)
  BY <1>4, AlteringOrder, SendAnswers DEF Core
<1>5. CASE \E r \in Requests : ExchangeCreates(r)
  <2>1. PICK r \in Requests : ExchangeCreates(r)
    BY <1>5
  <2>2. /\ status[r] = "sent" /\ status' = [status EXCEPT ![r] = "created"]
        /\ UNCHANGED target
        /\ target[r] # 0 => exch[target[r]].st \in Live
    BY <2>1 DEF ExchangeCreates
  <2>3. PICK st \in Live :
          exch' = [q \in Requests |-> IF q = r THEN [st |-> st, got |-> 0]
                                      ELSE IF q = target[r]
                                           THEN [exch[q] EXCEPT !.st = "cancelled"]
                                      ELSE exch[q]]
    BY <2>1 DEF ExchangeCreates
  <2>4. exch[r].st = "absent" /\ st # "absent" /\ "cancelled" \in Final
    BY <2>2 DEF AnswerInv, Live, Final
  <2>5. ASSUME NEW q \in Requests
        PROVE  /\ exch'[q].st # "absent" => status'[q] \in {"created", "used", "discarded"}
               /\ status'[q] = "created" => exch'[q].st # "absent"
               /\ status'[q] = "doneCode" => target'[q] # 0
               /\ target'[q] # 0 => target'[q] # q
               /\ target'[q] # 0 /\ (exch'[q].st # "absent" \/ status'[q] = "doneCode") =>
                    exch'[target'[q]].st \in Final
    <3>1. CASE q = r
      <4>1. exch'[r].st = st /\ status'[r] = "created" /\ target' = target
        BY <1>0, <2>2, <2>3
      <4>2. target[r] # r
        BY <2>2, <2>4, Members DEF Live
      <4>3. target[r] # 0 => exch'[target[r]] = [exch[target[r]] EXCEPT !.st = "cancelled"]
        BY <1>0, <2>3, <4>2
      <4>4. target[r] # 0 => exch'[target[r]].st = "cancelled"
        BY <1>0, <4>3 DEF TypeOK, Snapshots
      <4> QED
        BY <2>4, <3>1, <4>1, <4>2, <4>4
    <3>2. CASE q # r
      <4>1. status'[q] = status[q] /\ target'[q] = target[q]
        BY <1>0, <2>2, <3>2
      <4>2. exch'[q].st # "absent" => exch[q].st # "absent" \/ q = target[r]
        BY <2>3, <3>2
      <4>3. q = target[r] => exch[q].st # "absent"
        BY <1>0, <2>2, Members DEF Live
      <4>4. exch[q].st # "absent" => exch'[q].st # "absent"
        BY OrderStays
      <4> QED
        BY <1>0, <4>1, <4>2, <4>3, <4>4 DEF AnswerInv
    <3> QED
      BY <3>1, <3>2
  <2> QED
    BY <2>5 DEF AnswerInv
<1>6. CASE \E r \in Requests : ExchangeRefuses(r)
  <2>1. PICK r \in Requests : ExchangeRefuses(r)
    BY <1>6
  <2>2. status[r] = "sent" /\ UNCHANGED <<target, exch>>
    BY <2>1 DEF ExchangeRefuses, ledger
  <2>3. PICK a \in {"tooSmall", "doneCode", "error"} :
          /\ a = "doneCode" => target[r] # 0 /\ exch[target[r]].st \in Final
          /\ status' = [status EXCEPT ![r] = a]
    BY <2>1 DEF ExchangeRefuses
  <2> QED
    BY <1>0, <2>2, <2>3 DEF AnswerInv
<1> QED
  BY <1>1, <1>2, <1>3, <1>4, <1>5, <1>6, WireSteps

LEMMA FillStep ==
  ASSUME TypeOK, BoundInv, AnswerInv, FillInv, WayInv, Core, [Next]_vars PROVE FillInv'
<1> SUFFICES ASSUME NEW o \in Requests
             PROVE  /\ exch'[o].st = "absent" => exch'[o].got = 0
                    /\ exch'[o].st \in Live => exch'[o].got < amount'[o]
  BY DEF FillInv
<1>0. /\ amount[o] \in Nat /\ exch[o].got \in Nat /\ amount[o] \in Volumes
      /\ exch[o].st \in Live => exch[o].got < amount[o]
      /\ exch[o].st = "absent" => exch[o].got = 0
      /\ Live = {"placing", "active"}
  BY Amounts DEF TypeOK, FillInv, Live
<1>1. exch'[o].st \in Live => amount'[o] = amount[o]
  <2>1. ASSUME NEW a \in Ids, SendOrder(a), exch' = exch PROVE exch'[o].st \in Live => amount'[o] = amount[o]
    BY <2>1, NewRequest DEF Live
  <2>2. CASE DeciderSend
    BY <2>1, <2>2, Members DEF DeciderSend, ledger
  <2>3. CASE \E q \in Requests : WatchAlter(q)
    BY <2>1, <2>3, AlteringOrder
  <2> QED
    BY <2>2, <2>3, WireSteps
<1>2. CASE exch'[o] = exch[o]
  BY <1>0, <1>1, <1>2
<1>3. CASE ExchangeCreates(o) /\ exch'[o].st \in Live /\ exch'[o].got = 0
  BY <1>0, <1>1, <1>3 DEF ExchangeCreates
<1>4. CASE /\ exch[o].st \in Live /\ exch'[o].st \in {"active", "cancelled"}
           /\ exch'[o].got = exch[o].got
  BY <1>0, <1>1, <1>4
<1>5. CASE /\ exch[o].st = "active"
           /\ exch'[o].got = exch[o].got + 1
           /\ exch'[o].st = IF exch[o].got + 1 = amount[o] THEN "done" ELSE "active"
  BY <1>0, <1>1, <1>5
<1> QED
  BY <1>2, <1>3, <1>4, <1>5, ExchChange

-----------------------------------------------------------------------------
(* What is known of orders.                                                 *)

LEMMA Ranks ==
  /\ \A st \in OrderStates : Rank(st) \in 0..3 /\ (Rank(st) = 0 <=> st = "absent")
  /\ \A st \in OrderStates : Rank(st) >= 2 <=> st \in {"active"} \cup Final
  BY DEF Rank, OrderStates, Final

\* What accounting applies is true of the order.
LEMMA Accounted ==
  ASSUME TypeOK, FillInv, NEW o \in Requests, Accounting(o)
  PROVE  \E snap \in Snapshots : /\ Upsert(o, snap) /\ exch' = exch
                                 /\ snap.st # "absent" /\ snap.got <= exch[o].got
                                 /\ snap.st \in Final => exch[o].st = snap.st
<1>1. PICK snap \in {exch[o]} \cup [st : Live, got : Volumes] :
        /\ snap # reported[o] /\ Rank(reported[o].st) <= Rank(snap.st)
        /\ reported[o].got <= snap.got /\ snap.got <= exch[o].got
        /\ Upsert(o, snap) /\ exch' = exch
  BY DEF Accounting
<1>2. snap \in Snapshots /\ reported[o] \in Snapshots
  BY <1>1, Amounts DEF TypeOK, Snapshots
<1>3. snap.st \in Final => exch[o].st = snap.st
  BY <1>1 DEF Live, Final
<1>4. snap.st # "absent"
  <2> SUFFICES ASSUME snap.st = "absent" PROVE FALSE
    OBVIOUS
  <2>1. snap = exch[o]
    BY <1>1 DEF Live
  <2>2. snap.got = 0
    BY <2>1 DEF FillInv
  <2>3. reported[o].got \in Nat /\ reported[o].st \in OrderStates
    BY <1>2, Amounts
  <2>4. reported[o].got = 0
    BY <1>1, <2>2, <2>3
  <2>5. reported[o].st = "absent"
    <3>1. Rank(snap.st) = 0
      BY DEF Rank
    <3>2. Rank(reported[o].st) \in 0..3 /\ Rank(reported[o].st) <= 0
      BY <1>1, <2>3, <3>1, Ranks
    <3>3. Rank(reported[o].st) = 0
      BY <3>2
    <3> QED
      BY <2>3, <3>3, Ranks
  <2>6. snap = reported[o]
    BY <1>2, <2>2, <2>4, <2>5 DEF Snapshots
  <2> QED
    BY <1>1, <2>6
<1> QED
  BY <1>1, <1>2, <1>3, <1>4

\* An order's stored snapshot.
LEMMA StoredStays ==
  ASSUME TypeOK, FillInv, KnownInv, [Next]_vars, NEW o \in Requests
  PROVE  /\ Stored(o) => Stored(o)'
         /\ backwards => backwards'
         /\ stored'[o] # stored[o] => /\ stored'[o].st \in Final => exch[o].st = stored'[o].st
                                      /\ stored'[o].got <= exch[o].got
                                      /\ exch' = exch /\ stored'[o].st # "absent"
         /\ ~backwards' /\ stored[o].st \in {"active"} \cup Final =>
              stored'[o].st \in {"active"} \cup Final
<1>0. /\ stored \in [Requests -> Snapshots] /\ backwards \in BOOLEAN
      /\ \A x \in Snapshots : x.st \in OrderStates
  BY Amounts DEF TypeOK
<1>1. CASE UNCHANGED <<stored, backwards>>
  BY <1>1 DEF Stored
<1>2. ASSUME NEW p \in Requests, NEW snap \in Snapshots, Upsert(p, snap), snap.st # "absent",
             snap.st \in Final => exch[p].st = snap.st, snap.got <= exch[p].got, exch' = exch
      PROVE  /\ Stored(o) => Stored(o)'
             /\ backwards => backwards'
             /\ stored'[o] # stored[o] => /\ stored'[o].st \in Final => exch[o].st = stored'[o].st
                                          /\ stored'[o].got <= exch[o].got
                                          /\ exch' = exch /\ stored'[o].st # "absent"
             /\ ~backwards' /\ stored[o].st \in {"active"} \cup Final =>
                  stored'[o].st \in {"active"} \cup Final
  <2>0. backwards => backwards'
    BY <1>2, Zenon DEF Upsert
  <2>1. CASE o = p
    <3>1. stored'[o] = snap
      BY <1>0, <1>2, <2>1 DEF Upsert
    <3>2. ~backwards' => ~(Rank(snap.st) < Rank(stored[p].st))
      BY <1>2, Zenon DEF Upsert
    <3>3. ~backwards' /\ Rank(stored[o].st) >= 2 => Rank(snap.st) >= 2
      <4>1. Rank(snap.st) \in 0..3 /\ Rank(stored[p].st) \in 0..3
        BY <1>0, Ranks
      <4> QED
        BY <2>1, <3>2, <4>1
    <3> QED
      BY <1>0, <1>2, <2>0, <2>1, <3>1, <3>3, Ranks DEF Stored
  <2>2. CASE o # p
    BY <1>0, <1>2, <2>0, <2>2 DEF Upsert, Stored
  <2> QED
    BY <2>1, <2>2
<1>3. CASE \E p \in Requests : WatchGot(p)
  <2>1. PICK p \in Requests : WatchGot(p)
    BY <1>3
  <2>2. /\ answer[p] \in Snapshots /\ answer[p].st # "absent" /\ answer[p].got <= exch[p].got
        /\ answer[p].st \in Final => exch[p].st = answer[p].st
    BY <2>1 DEF WatchGot, KnownInv, TypeOK
  <2> QED
    BY <1>2, <2>1, <2>2 DEF WatchGot
<1>4. CASE \E p \in Requests : Accounting(p)
  BY <1>2, <1>4, Accounted
<1> QED
  BY <1>1, <1>3, <1>4, StoredSteps

\* A watcher that goes on; it cancels and alters what the storage has as active.
LEMMA WatcherGoesOn ==
  ASSUME TypeOK, [Next]_vars, NEW o \in Requests, wpc'[o] # wpc[o]
  PROVE  \/ ListenerAdopt(o)
         \/ wpc[o] # "none" /\ (wpc'[o] \in {"altered", "cancelling"} => stored[o].st = "active")
<1>0. wpc \in [Requests -> {"none", "watch", "altered", "cancelling", "getting", "stopped"}]
  BY DEF TypeOK
<1>1. CASE \E p \in Requests : ListenerAdopt(p)
  BY <1>0, <1>1 DEF ListenerAdopt
<1>2. CASE \E p \in Requests : WatchAlter(p) \/ WatchCancel(p)
  BY <1>0, <1>2 DEF WatchAlter, WatchCancel, MoveRequired, Managed
<1>3. CASE \E p \in Requests : WatchStore(p) \/ WatchCancelled(p) \/ WatchCancelDone(p)
  BY <1>0, <1>3 DEF WatchStore, WatchCancelled, WatchCancelDone
<1>4. CASE \E p \in Requests : WatchFinal(p) \/ WatchGet(p)
  BY <1>0, <1>4 DEF WatchFinal, WatchGet
<1>5. CASE \E p \in Requests : WatchGot(p) \/ WatchFails(p) \/ WatchStop(p)
  BY <1>0, <1>5 DEF WatchGot, WatchFails, WatchStop
<1> QED
  BY <1>1, <1>2, <1>3, <1>4, <1>5, WatcherSteps

LEMMA KnownStep ==
  ASSUME TypeOK, TypeOK', Core, AnswerInv, FillInv, KnownInv, [Next]_vars PROVE KnownInv'
<1>0. /\ cancel \in [Requests -> {"none", "sent", "ok", "done", "error"}]
      /\ get \in [Requests -> {"none", "sent", "answered"}]
      /\ answer \in [Requests -> Snapshots] /\ exch \in [Requests -> Snapshots]
      /\ wpc \in [Requests -> {"none", "watch", "altered", "cancelling", "getting", "stopped"}]
  BY DEF TypeOK
<1> SUFFICES ASSUME NEW o \in Requests
             PROVE  /\ stored'[o].st \in Final => exch'[o].st = stored'[o].st
                    /\ stored'[o].got <= exch'[o].got
                    /\ get'[o] = "answered" =>
                         /\ answer'[o].st # "absent"
                         /\ answer'[o].st \in Final => exch'[o].st = answer'[o].st
                         /\ answer'[o].got <= exch'[o].got
                    /\ cancel'[o] = "ok" => exch'[o].st = "cancelled"
                    /\ wpc'[o] # "none" \/ get'[o] # "none" => exch'[o].st # "absent"
                    /\ wpc'[o] \in {"altered", "cancelling"} => Stored(o)'
  BY DEF KnownInv
<1>1. /\ exch[o].st \in Final => exch'[o] = exch[o]
      /\ exch[o].st # "absent" => exch'[o].st # "absent"
      /\ exch[o].got <= exch'[o].got
  BY OrderStays
<1>b. /\ exch[o].got \in Nat /\ exch'[o].got \in Nat /\ stored[o].got \in Nat
      /\ stored'[o].got \in Nat /\ answer[o].got \in Nat
  BY Amounts DEF TypeOK
<1>2. /\ stored'[o].st \in Final => exch'[o].st = stored'[o].st
      /\ stored'[o].got <= exch'[o].got
  <2>1. CASE stored'[o] = stored[o]
    BY <1>1, <1>b, <2>1 DEF KnownInv
  <2>2. CASE stored'[o] # stored[o]
    BY <2>2, StoredStays
  <2> QED
    BY <2>1, <2>2
<1>3. /\ get'[o] = "answered" => /\ answer'[o].st # "absent"
                                 /\ answer'[o].st \in Final => exch'[o].st = answer'[o].st
                                 /\ answer'[o].got <= exch'[o].got
      /\ get'[o] # "none" => exch'[o].st # "absent"
  <2>1. CASE get'[o] = get[o] /\ answer'[o] = answer[o]
    BY <1>1, <1>b, <2>1 DEF KnownInv
  <2>2. CASE \E p \in Requests : WatchGet(p)
    <3>1. PICK p \in Requests : WatchGet(p)
      BY <2>2
    <3>2. CASE p = o
      BY <1>0, <1>1, <3>1, <3>2 DEF WatchGet, KnownInv
    <3>3. CASE p # o
      BY <1>0, <2>1, <3>1, <3>3 DEF WatchGet
    <3> QED
      BY <3>2, <3>3
  <2>3. CASE \E p \in Requests : WatchGot(p)
    <3>1. PICK p \in Requests : WatchGot(p)
      BY <2>3
    <3>2. CASE p = o
      BY <1>0, <3>1, <3>2 DEF WatchGot
    <3>3. CASE p # o
      BY <1>0, <2>1, <3>1, <3>3 DEF WatchGot
    <3> QED
      BY <3>2, <3>3
  <2>4. CASE \E p \in Requests : ExchangeGets(p)
    <3>1. PICK p \in Requests : ExchangeGets(p)
      BY <2>4
    <3>2. CASE p = o
      <4>1. /\ get[o] = "sent" /\ answer'[o] = exch[o] /\ exch' = exch
        BY <1>0, <3>1, <3>2 DEF ExchangeGets, ledger
      <4> QED
        BY <1>b, <4>1 DEF KnownInv
    <3>3. CASE p # o
      BY <1>0, <2>1, <3>1, <3>3 DEF ExchangeGets
    <3> QED
      BY <3>2, <3>3
  <2> QED
    BY <2>1, <2>2, <2>3, <2>4, CallSteps
<1>4. cancel'[o] = "ok" => exch'[o].st = "cancelled"
  <2>0. cancel[o] = "ok" => exch'[o].st = "cancelled"
    BY <1>1 DEF KnownInv, Final
  <2>2. CASE ListenerCancelled \/ ListenerCancelFails
    BY <1>0, <2>0, <2>2 DEF ListenerCancelled, ListenerCancelFails
  <2>3. CASE \E p \in Requests : ListenerTooSmall(p)
    <3>1. PICK p \in Requests : ListenerTooSmall(p)
      BY <2>3
    <3>2. cancel' \in {cancel, [cancel EXCEPT ![prev] = "sent"]}
      BY <3>1 DEF ListenerTooSmall
    <3> QED
      BY <1>0, <2>0, <3>2
  <2>4. CASE \E p \in Requests : WatchCancel(p) \/ WatchCancelled(p) \/ WatchCancelDone(p)
    BY <1>0, <2>0, <2>4 DEF WatchCancel, WatchCancelled, WatchCancelDone
  <2>5. CASE \E p \in Requests : ExchangeCancels(p)
    <3>1. PICK p \in Requests : ExchangeCancels(p)
      BY <2>5
    <3>2. CASE p = o
      <4>1. CASE exch[o].st \in Live /\ exch' = [exch EXCEPT ![o].st = "cancelled"]
        BY <1>0, <4>1 DEF Snapshots
      <4>2. CASE /\ cancel' = [cancel EXCEPT ![o] = CASE exch[o].st = "cancelled" -> "ok"
                                             [] exch[o].st = "done" -> "done"
                                             [] OTHER -> "error"]
                 /\ UNCHANGED exch
        BY <1>0, <4>2
      <4> QED
        BY <3>1, <3>2, <4>1, <4>2 DEF ExchangeCancels
    <3>3. CASE p # o
      BY <1>0, <2>0, <3>1, <3>3 DEF ExchangeCancels
    <3> QED
      BY <3>2, <3>3
  <2> QED
    BY <2>0, <2>2, <2>3, <2>4, <2>5, CallSteps
<1>5. wpc'[o] # "none" => exch'[o].st # "absent"
  <2>1. CASE wpc[o] # "none"
    BY <1>1, <2>1 DEF KnownInv
  <2>2. CASE ListenerAdopt(o)
    BY <1>1, <2>2 DEF ListenerAdopt, Takes, AnswerInv
  <2> QED
    BY <2>1, <2>2, WatcherGoesOn
<1>6. wpc'[o] \in {"altered", "cancelling"} => Stored(o)'
  <2>1. Stored(o) => Stored(o)'
    BY StoredStays
  <2>2. CASE ListenerAdopt(o)
    BY <1>0, <2>2 DEF ListenerAdopt
  <2>3. CASE wpc'[o] = wpc[o]
    BY <2>1, <2>3 DEF KnownInv
  <2>4. CASE stored[o].st = "active"
    BY <2>1, <2>4 DEF Stored
  <2> QED
    BY <2>2, <2>3, <2>4, WatcherGoesOn
<1> QED
  BY <1>2, <1>3, <1>4, <1>5, <1>6

\* An order whose creation the session took note of is one of its orders.
LEMMA OwnStep ==
  ASSUME TypeOK, Core, AnswerInv, FillInv, WayInv, OwnInv, [Next]_vars PROVE OwnInv'
<1> SUFFICES ASSUME NEW o \in Requests, exch'[o].st # "absent", status'[o] = "used"
             PROVE  o \in orders'
  BY DEF OwnInv
<1>0. status \in [Requests -> Statuses]
  BY DEF TypeOK, Statuses
<1>1. exch[o].st # "absent"
  <2>1. ExchangeCreates(o) => status'[o] = "created"
    BY <1>0 DEF ExchangeCreates
  <2> QED
    BY <2>1, OrderStays
<1>2. orders \subseteq orders'
  BY QuietOrLoud DEF Quiet, Loud, DeciderSend, DeciderStore, DeciderStop, ListenerCancelled,
     ListenerAdopt, ListenerTooSmall, ListenerDoneCode, WatchAlter, WatchStore,
     WatchCancelled, WatchFinal, ExecutedFlags, Reopen, session
<1>3. CASE status[o] = "used"
  BY <1>1, <1>2, <1>3 DEF OwnInv
<1>4. CASE status[o] # "used"
  <2>1. ListenerAdopt(o) \/ status[o] \in {"error", "tooSmall", "doneCode"}
    <3>1. CASE DeciderSend \/ \E r \in Requests : WatchAlter(r)
      <4>1. \E a \in Ids : SendOrder(a)
        BY <3>1, AlteringOrder, Members DEF DeciderSend
      <4>2. status'[o] \in {status[o], "sent"}
        BY <4>1, NewRequest DEF Core
      <4> QED
        BY <1>4, <4>2
    <3>2. CASE \E r \in Requests : \/ ListenerDiscard(r) \/ ExchangeCreates(r) \/ ExchangeRefuses(r)
      BY <1>0, <1>4, <3>2 DEF ListenerDiscard, ExchangeCreates, ExchangeRefuses
    <3>3. CASE \E r \in Requests : \/ ListenerAdopt(r) \/ ListenerTooSmall(r)
                                   \/ ListenerDoneCode(r) \/ ListenerFails(r)
      BY <1>0, <1>4, <3>3 DEF ListenerAdopt, ListenerTooSmall, ListenerDoneCode, ListenerFails, Takes
    <3> QED
      BY <1>4, <3>1, <3>2, <3>3, WireSteps
  <2>2. status[o] \notin {"error", "tooSmall", "doneCode"}
    BY <1>1 DEF AnswerInv
  <2> QED
    BY <2>1, <2>2 DEF ListenerAdopt
<1> QED
  BY <1>3, <1>4

-----------------------------------------------------------------------------
(* The session comes to rest, and so does what was under way: the executed  *)
(* flags are set, or another order may be created.                          *)

Settled ==
  /\ ~Idle /\ ~isDone /\ ~need /\ dpc # "sent" /\ dpc' = dpc /\ lpc' # "cancelling"
  /\ req' = 0 /\ NoWatcher'
  /\ \A r \in Requests : ~OnItsWay(r)' /\ (status'[r] = "unsent" <=> status[r] = "unsent")
  /\ UNCHANGED <<exch, stored, backwards, missed, last, target, amount, failed>>
  /\ \A p \in orders : Stored(p)
  /\ LiveOrders = {} \/ backwards

Finish == Settled /\ \E o \in Ids : ExecutedFlags(o)
Resume == /\ Settled /\ LiveOrders = {}
          /\ need' = TRUE /\ UNCHANGED <<orders, completed, isDone, booked>>
          /\ prev' = prev \/ Stored(prev')

\* A replacement is refused as too small, and its predecessor is cancelled.
Refused(r) == ListenerTooSmall(r) /\ stored[prev].st = "active"

\* What the parts of the invariant say together of an order that was to replace
\* another one: when neither is in the market, none is.
LEMMA NeitherLive ==
  ASSUME TypeOK, LiveInv, req # 0, exch[req].st = "absent",
         target[req] # 0 => exch[target[req]].st \in Final
  PROVE  LiveOrders = {}
<1>1. LiveOrders \subseteq {req, target[req]}
  BY DEF LiveInv
<1>2. 0 \notin Requests
  BY Members
<1> QED
  BY <1>1, <1>2 DEF LiveOrders, Live, Final

LEMMA AnswerSettles ==
  ASSUME TypeOK, Core, AnswerInv, KnownInv, WayInv, LiveInv, StoredInv, NEW r \in Requests,
         ListenerTooSmall(r) \/ ListenerDoneCode(r)
  PROVE  Refused(r) \/ Finish \/ Resume
<1>1. /\ req = r /\ r # 0 /\ ~Idle /\ ~isDone /\ ~need /\ lpc = "idle" /\ dpc # "sent"
      /\ NoWatcher
      /\ status' = [status EXCEPT ![r] = "used"]
      /\ \A q \in Requests : ~OnItsWay(q)'
      /\ UNCHANGED <<exch, stored, backwards, missed, last, target, amount, dpc, dreq, failed>>
  BY Taken
<1>2. /\ status[r] \in {"tooSmall", "doneCode"}
      /\ ListenerTooSmall(r) \/ status[r] = "doneCode"
      /\ wpc' = wpc /\ Stored(prev)
  BY DEF ListenerTooSmall, ListenerDoneCode, Takes, watchers
<1>3. /\ exch[r].st = "absent"
      /\ target[r] # 0 => target[r] = prev /\ target[r] \in Requests
      /\ status[r] = "doneCode" => target[r] # 0 /\ exch[target[r]].st \in Final
  BY <1>1, <1>2, Members DEF AnswerInv, WayInv, TypeOK
<1>4. status[r] = "doneCode" => LiveOrders = {}
  BY <1>1, <1>3, NeitherLive
<1>5. stored[prev].st # "active" /\ ~backwards => LiveOrders = {}
  <2> SUFFICES ASSUME stored[prev].st # "active", ~backwards, target[r] # 0
               PROVE  exch[target[r]].st \in Final
    BY <1>1, <1>3, NeitherLive
  <2>1. stored[target[r]].st \in Final
    BY <1>3 DEF StoredInv
  <2> QED
    BY <1>3, <2>1 DEF KnownInv
<1>6. NoWatcher' /\ \A q \in Requests : status'[q] = "unsent" <=> status[q] = "unsent"
  BY <1>1, <1>2 DEF NoWatcher, Watching, TypeOK
<1>7. \A p \in orders : Stored(p)
  BY <1>1 DEF StoredInv
<1>8. ASSUME LiveOrders = {} \/ backwards, lpc' = lpc, req' = 0 PROVE Settled
  BY <1>1, <1>6, <1>7, <1>8 DEF Settled
<1>9. CASE ListenerTooSmall(r) /\ stored[prev].st # "active"
  <2>1. ExecutedFlags(prev) /\ lpc' = lpc /\ prev \in Ids
    BY <1>9 DEF ListenerTooSmall, listener, TypeOK
  <2>2. req' = 0
    BY <2>1 DEF ExecutedFlags
  <2> QED
    BY <1>5, <1>8, <1>9, <2>1, <2>2 DEF Finish
<1>10. CASE ListenerDoneCode(r)
  <2>1. lpc' = lpc /\ req' = 0 /\ prev \in Ids
    BY <1>10 DEF ListenerDoneCode, ExecutedFlags, listener, TypeOK
  <2>2. Settled /\ LiveOrders = {}
    BY <1>4, <1>8, <1>10, <2>1 DEF ListenerDoneCode, Takes
  <2> QED
    BY <1>10, <2>1, <2>2 DEF ListenerDoneCode, Finish, Resume
<1> QED
  BY <1>9, <1>10 DEF Refused

LEMMA WatcherSettles ==
  ASSUME TypeOK, Core, KnownInv, WayInv, LiveInv, StoredInv, NEW o \in Requests,
         WatchCancelled(o) \/ WatchFinal(o)
  PROVE  Finish \/ Resume
<1>1. /\ ~Idle /\ ~isDone /\ ~need /\ req = 0 /\ Watching(o) /\ wpc[o] # "altered"
      /\ dpc # "sent" /\ lpc # "cancelling" /\ active = o
      /\ NoWatcher'
      /\ \A q \in Requests : ~OnItsWay(q) /\ ~OnItsWay(q)'
      /\ UNCHANGED <<exch, stored, backwards, missed, last, target, amount, status, dpc,
                     dreq, lpc, failed>>
  BY Unwatched
<1>2. exch[o].st \in Final /\ Stored(o) /\ o \in Ids
  BY Members DEF WatchCancelled, WatchFinal, KnownInv, Final, Stored
<1>3. LiveOrders = {}
  BY <1>1, <1>2 DEF LiveInv, LiveOrders, Live, Final
<1>4. \A p \in orders : Stored(p)
  BY <1>1, <1>2 DEF StoredInv
<1>5. req' = 0
  BY <1>1 DEF WatchCancelled, WatchFinal, ExecutedFlags, Reopen
<1>6. Settled
  BY <1>1, <1>3, <1>4, <1>5 DEF Settled
<1> QED
  BY <1>2, <1>3, <1>6 DEF WatchCancelled, WatchFinal, Reopen, Finish, Resume

LEMMA CancelSettles ==
  ASSUME TypeOK, Core, KnownInv, WayInv, LordInv, LiveInv, StoredInv, ListenerCancelled
  PROVE  Finish
<1>1. /\ lord \in Requests /\ cancel[lord] = "ok" /\ lord = prev
      /\ req \in Requests /\ req # 0 /\ exch[req].st = "absent"
      /\ ~Idle /\ ~isDone /\ ~need /\ dpc # "sent" /\ NoWatcher'
      /\ \A q \in Requests : ~OnItsWay(q)'
      /\ ExecutedFlags(lord) /\ lpc' = "idle"
      /\ UNCHANGED <<exch, stored, backwards, missed, last, target, amount, status, dpc, dreq,
                     failed>>
  BY PreviousCancelled
<1>2. target[req] # 0 => exch[target[req]].st \in Final
  BY <1>1 DEF WayInv, KnownInv, Final
<1>3. LiveOrders = {} /\ lord \in Ids
  BY <1>1, <1>2, NeitherLive, Members
<1>4. \A p \in orders : Stored(p)
  BY <1>1 DEF StoredInv
<1>5. req' = 0
  BY <1>1 DEF ExecutedFlags
<1>6. Settled
  BY <1>1, <1>3, <1>4, <1>5 DEF Settled
<1> QED
  BY <1>1, <1>3, <1>6 DEF Finish

LEMMA Kinds ==
  ASSUME TypeOK, Core, AnswerInv, KnownInv, WayInv, LordInv, LiveInv, StoredInv, [Next]_vars
  PROVE  \/ Quiet \/ Finish \/ Resume
         \/ DeciderSend \/ DeciderStore \/ DeciderStop
         \/ \E r \in Requests : ListenerAdopt(r) \/ Refused(r) \/ WatchAlter(r) \/ WatchStore(r)
<1>1. CASE Quiet
  BY <1>1
<1>2. CASE Loud
  BY <1>2, AnswerSettles, WatcherSettles, CancelSettles DEF Loud
<1> QED
  BY <1>1, <1>2, QuietOrLoud

-----------------------------------------------------------------------------
(* The token.                                                               *)

LEMMA CoreStep ==
  ASSUME TypeOK, Core, AnswerInv, KnownInv, WayInv, LordInv, LiveInv, StoredInv, [Next]_vars
  PROVE  Core'
<1>0. /\ wpc \in [Requests -> {"none", "watch", "altered", "cancelling", "getting", "stopped"}]
      /\ status \in [Requests -> Statuses]
      /\ \A r \in Requests : status[r] # "unsent" \/ Watching(r) => r <= last
      /\ dpc = "sent" => dreq \in Requests
      /\ lpc = "cancelling" => lord \in Requests /\ lord = prev /\ req # 0
      /\ completed = IF isDone THEN 1 ELSE 0
      /\ isDone => Idle
      /\ ~isDone => booked = 0
      /\ WatcherHasActive
  BY DEF TypeOK, Statuses, Core, BoundInv, DoneInv

\* A new request disturbs no older one.
<1>a. ASSUME NEW a \in Ids, SendOrder(a), \A r \in Requests : Watching(r)' => Watching(r)
      PROVE  \A r \in Requests : status'[r] # "unsent" \/ Watching(r)' => r <= last'
  <2>1. /\ last + 1 \in Requests /\ last \in Nat /\ last' = last + 1
        /\ \A r \in Requests \ {last + 1} : status'[r] = status[r]
    BY <1>a, NewRequest DEF Core
  <2>2. \A r \in Requests : r \in Nat /\ (r <= last => r <= last + 1)
    BY <2>1, Members
  <2>3. last + 1 <= last + 1
    BY <2>1
  <2> QED
    BY <1>0, <1>a, <2>1, <2>2, <2>3
<1>1. CASE Quiet
  <2>1. BoundInv'
    BY <1>1, <1>0, RequestAlone DEF BoundInv, Quiet
  <2>2. (NoWatcher => NoWatcher') /\ (Idle => Idle')
    BY <1>1 DEF Quiet, NoWatcher, Idle
  <2>3. TokenInv'
    BY <1>1, <2>2 DEF Core, TokenInv, Quiet
  <2>4. DoneInv'
    BY <1>1, <1>0, <2>2 DEF DoneInv, Quiet
  <2>5. WatcherHasActive'
    BY <1>1, <1>0 DEF WatcherHasActive, Quiet
  <2> QED
    BY <2>1, <2>3, <2>4, <2>5 DEF Core
<1>2. CASE Finish
  <2>1. /\ completed' = 1 /\ isDone' = TRUE /\ need' = need
    BY <1>0, <1>2 DEF Finish, Settled, ExecutedFlags
  <2>2. Idle' /\ DoneInv'
    BY <1>2, <2>1 DEF Finish, Settled, Idle, DoneInv
  <2>3. BoundInv'
    BY <1>0, <1>2 DEF Finish, Settled, BoundInv, NoWatcher
  <2>4. TokenInv' /\ WatcherHasActive'
    BY <1>2, <2>1 DEF Finish, Settled, TokenInv, WatcherHasActive, NoWatcher
  <2> QED
    BY <2>2, <2>3, <2>4 DEF Core
<1>3. CASE Resume
  <2>1. DoneInv'
    BY <1>0, <1>3 DEF Resume, Settled, DoneInv
  <2>2. BoundInv'
    BY <1>0, <1>3 DEF Resume, Settled, BoundInv, NoWatcher
  <2>3. TokenInv' /\ WatcherHasActive'
    BY <1>3 DEF Resume, Settled, TokenInv, WatcherHasActive, NoWatcher
  <2> QED
    BY <2>1, <2>2, <2>3 DEF Core
<1>4. CASE DeciderSend
  <2>1. /\ need /\ need' = FALSE /\ SendOrder(0) /\ dpc' = "sent" /\ dreq' = last + 1
        /\ UNCHANGED <<active, prev, req, completed, isDone, booked, lpc, lord, wpc>>
    BY <1>4 DEF DeciderSend, BuyAvailable, listener, watchers
  <2>2. ~isDone /\ req = 0 /\ lpc # "cancelling" /\ NoWatcher /\ NoWatcher'
    BY <2>1, NeedAlone DEF NoWatcher, Watching
  <2>3. BoundInv'
    <3>1. last + 1 \in Requests
      BY <2>1, NewRequest, Members DEF Core
    <3>2. \A r \in Requests : status'[r] # "unsent" \/ Watching(r)' => r <= last'
      BY <1>a, <2>1, Members DEF Watching
    <3> QED
      BY <2>1, <2>2, <3>1, <3>2 DEF BoundInv
  <2> QED
    BY <1>0, <2>1, <2>2, <2>3 DEF Core, TokenInv, DoneInv, WatcherHasActive, NoWatcher
<1>5. CASE DeciderStore
  <2>1. /\ dpc = "sent" /\ dpc' = "idle"
        /\ UNCHANGED <<need, active, prev, completed, isDone, booked, lpc, lord, wpc, last, status>>
    BY <1>5 DEF DeciderStore, listener, watchers, wire
  <2>2. ~isDone /\ ~need /\ lpc # "cancelling" /\ NoWatcher /\ NoWatcher'
    BY <2>1, SenderAlone DEF NoWatcher, Watching
  <2> QED
    BY <1>0, <2>1, <2>2 DEF Core, BoundInv, TokenInv, DoneInv, WatcherHasActive, NoWatcher
<1>6. CASE DeciderStop
  <2>1. /\ dpc # "sent" /\ dpc' # "sent" /\ (need' => need)
        /\ UNCHANGED <<active, prev, req, completed, isDone, booked, lpc, lord, wpc, last, status>>
    BY <1>6 DEF DeciderStop, listener, watchers, wire, TypeOK
  <2>2. (NoWatcher' <=> NoWatcher) /\ (Idle => Idle') /\ \A r \in Requests : Watching(r)' <=> Watching(r)
    BY <2>1 DEF NoWatcher, Watching, Idle
  <2>3. BoundInv' /\ WatcherHasActive'
    BY <1>0, <2>1, <2>2 DEF BoundInv, WatcherHasActive
  <2>4. TokenInv' /\ DoneInv'
    BY <1>0, <2>1, <2>2 DEF Core, TokenInv, DoneInv
  <2> QED
    BY <2>3, <2>4 DEF Core
<1>7. ASSUME NEW r \in Requests, ListenerAdopt(r) PROVE Core'
  <2>1. /\ ~isDone /\ ~need /\ lpc = "idle" /\ dpc # "sent" /\ NoWatcher
        /\ status' = [status EXCEPT ![r] = "used"]
        /\ UNCHANGED <<last, dpc>>
    BY <1>7, Taken
  <2>2. /\ active' = r /\ req' = 0 /\ wpc' = [wpc EXCEPT ![r] = "watch"]
        /\ UNCHANGED <<need, completed, isDone, booked, lpc>>
        /\ status[r] = "created"
    BY <1>7 DEF ListenerAdopt, Takes, listener
  <2>3. \A q \in Requests : Watching(q)' => q = r
    BY <1>0, <2>1, <2>2 DEF NoWatcher, Watching
  <2>4. \A q \in Requests : status'[q] # "unsent" => status[q] # "unsent"
    BY <1>0, <2>1, <2>2
  <2>5. BoundInv'
    BY <1>0, <2>1, <2>2, <2>3, <2>4 DEF BoundInv
  <2> QED
    BY <1>0, <2>1, <2>2, <2>3, <2>5 DEF Core, TokenInv, DoneInv, WatcherHasActive
<1>8. ASSUME NEW r \in Requests, Refused(r) PROVE Core'
  <2>1. /\ req = r /\ r # 0 /\ ~isDone /\ ~need /\ dpc # "sent" /\ NoWatcher
        /\ status' = [status EXCEPT ![r] = "used"]
        /\ UNCHANGED <<last, dpc>>
    BY <1>8, Taken DEF Refused
  <2>2. /\ lord' = prev /\ prev \in Requests
        /\ UNCHANGED <<need, active, prev, req, completed, isDone, booked, wpc>>
        /\ status[r] = "tooSmall"
    BY <1>8 DEF Refused, ListenerTooSmall, Takes, Stored, session, watchers
  <2>3. NoWatcher'
    BY <2>1, <2>2 DEF NoWatcher, Watching
  <2>4. \A q \in Requests : status'[q] # "unsent" => status[q] # "unsent"
    BY <1>0, <2>1, <2>2
  <2>5. BoundInv'
    BY <1>0, <2>1, <2>2, <2>3, <2>4 DEF BoundInv, NoWatcher
  <2> QED
    BY <1>0, <2>1, <2>2, <2>3, <2>5 DEF Core, TokenInv, DoneInv, WatcherHasActive, NoWatcher
<1>9. ASSUME NEW o \in Requests, WatchAlter(o) PROVE Core'
  <2>1. /\ ~isDone /\ ~need /\ req = 0 /\ Watching(o) /\ dpc # "sent" /\ lpc # "cancelling"
        /\ \A q \in Requests : Watching(q) => q = o
        /\ SendOrder(o) /\ o \in Ids
        /\ wpc' = [wpc EXCEPT ![o] = "altered"]
        /\ UNCHANGED <<need, active, prev, req, completed, isDone, booked, dpc, lpc>>
    BY <1>9, AlteringOrder
  <2>2. \A q \in Requests : Watching(q)' => q = o
    BY <1>0, <2>1 DEF Watching
  <2>3. \A r \in Requests : status'[r] # "unsent" \/ Watching(r)' => r <= last'
    BY <1>a, <2>1, <2>2
  <2>4. BoundInv'
    BY <2>1, <2>3 DEF BoundInv
  <2> QED
    BY <1>0, <2>1, <2>2, <2>4 DEF Core, TokenInv, DoneInv, WatcherHasActive
<1>10. ASSUME NEW o \in Requests, WatchStore(o) PROVE Core'
  <2>1. /\ wpc[o] = "altered" /\ wpc' = [wpc EXCEPT ![o] = "stopped"]
        /\ UNCHANGED <<need, active, completed, isDone, booked, dpc, lpc, last, status>>
    BY <1>10 DEF WatchStore, decider, listener, wire
  <2>2. Watching(o)
    BY <2>1 DEF Watching
  <2>3. /\ ~isDone /\ ~need /\ dpc # "sent" /\ lpc # "cancelling"
        /\ \A p \in Requests : Watching(p) => p = o
    BY <2>2, WatcherAlone
  <2>4. NoWatcher'
    BY <1>0, <2>1, <2>3 DEF NoWatcher, Watching
  <2> QED
    BY <1>0, <2>1, <2>3, <2>4 DEF Core, BoundInv, TokenInv, DoneInv, WatcherHasActive, NoWatcher
<1> QED
  BY <1>1, <1>2, <1>3, <1>4, <1>5, <1>6, <1>7, <1>8, <1>9, <1>10, Kinds

-----------------------------------------------------------------------------
(* Requests on their way.                                                   *)

LEMMA WayStep ==
  ASSUME TypeOK, Core, Core', AnswerInv, KnownInv, WayInv, LordInv, LiveInv, StoredInv, [Next]_vars
  PROVE  WayInv'
<1>0. /\ wpc \in [Requests -> {"none", "watch", "altered", "cancelling", "getting", "stopped"}]
      /\ status \in [Requests -> Statuses] /\ wreq \in [Requests -> Ids]
  BY DEF TypeOK, Statuses

\* With no request known, and none of the others around, nothing is to be shown.
<1>a. ASSUME req' = 0 \/ (status'[req'] # "unsent" /\ target'[req'] \in {0, prev'}),
             dpc' # "sent", \A q \in Requests : wpc'[q] # "altered",
             \A r \in Requests : OnItsWay(r)' => r = req'
      PROVE  WayInv'
  BY <1>a DEF WayInv
<1>1. CASE Quiet
  <2>1. req # 0 => req \in Requests
    BY RequestAlone
  <2>2. dpc = "sent" => dreq \in Requests /\ req = 0
    BY SenderAlone
  <2>3. \A o \in Requests : wpc[o] = "altered" => req = 0 /\ wreq[o] \in Requests
    BY WatcherAlone DEF Watching, WayInv
  <2>4. req' # 0 => status'[req'] # "unsent" /\ target'[req'] \in {0, prev'}
    BY <1>1, <2>1 DEF Quiet, WayInv
  <2>5. dpc' = "sent" => target'[dreq'] = 0 /\ status'[dreq'] \notin {"unsent", "used"}
    BY <1>1, <2>2, Members DEF Quiet, WayInv
  <2>6. \A o \in Requests : wpc'[o] = "altered" =>
          /\ wreq'[o] \in Requests /\ status'[wreq'[o]] \notin {"unsent", "used"}
          /\ target'[wreq'[o]] = o
    BY <1>1, <2>3, Members DEF Quiet, WayInv
  <2>7. \A r \in Requests : OnItsWay(r)' =>
          \/ r = req'
          \/ dpc' = "sent" /\ r = dreq'
          \/ \E o \in Requests : wpc'[o] = "altered" /\ r = wreq'[o]
    BY <1>1 DEF Quiet, WayInv
  <2> QED
    BY <2>4, <2>5, <2>6, <2>7 DEF WayInv
<1>2. CASE Finish \/ Resume
  <2>1. /\ req' = 0 /\ dpc' # "sent" /\ NoWatcher' /\ \A r \in Requests : ~OnItsWay(r)'
    BY <1>2 DEF Finish, Resume, Settled
  <2> QED
    BY <1>a, <2>1 DEF NoWatcher, Watching
<1>3. CASE DeciderSend
  <2>1. /\ need /\ SendOrder(0) /\ dpc' = "sent" /\ dreq' = last + 1
        /\ UNCHANGED <<req, prev, wpc, wreq>>
    BY <1>3 DEF DeciderSend, BuyAvailable, watchers
  <2>2. req = 0 /\ \A o \in Requests : wpc[o] # "altered"
    BY <2>1, NeedAlone DEF NoWatcher, Watching
  <2>3. \A q \in Requests : ~OnItsWay(q)
    BY <2>1, OneOnTheWay
  <2>4. /\ target'[last + 1] = 0 /\ status'[last + 1] = "sent"
        /\ \A r \in Requests \ {last + 1} : status'[r] = status[r]
    BY <2>1, NewRequest, Members DEF Core
  <2>5. \A r \in Requests : OnItsWay(r)' => r = last + 1
    BY <2>3, <2>4 DEF OnItsWay
  <2> QED
    BY <2>1, <2>2, <2>4, <2>5 DEF WayInv
<1>4. CASE DeciderStore
  <2>1. /\ dpc = "sent" /\ req' = dreq /\ dpc' = "idle"
        /\ UNCHANGED <<prev, wpc, wreq, target, status>>
    BY <1>4 DEF DeciderStore, watchers, wire
  <2>2. dreq \in Requests /\ \A o \in Requests : wpc[o] # "altered"
    BY <2>1, SenderAlone DEF NoWatcher, Watching
  <2>3. \A q \in Requests : OnItsWay(q)' => q = dreq
    BY <2>1, OneOnTheWay DEF OnItsWay
  <2>4. target[dreq] = 0 /\ status[dreq] # "unsent"
    BY <2>1 DEF WayInv
  <2> QED
    BY <1>a, <2>1, <2>2, <2>3, <2>4
<1>5. CASE DeciderStop
  <2>1. dpc # "sent" /\ dpc' # "sent" /\ UNCHANGED <<req, prev, wpc, wreq, target, status>>
    BY <1>5 DEF DeciderStop, watchers, wire
  <2> QED
    BY <2>1 DEF WayInv, OnItsWay
<1>6. ASSUME NEW r \in Requests, ListenerAdopt(r) PROVE WayInv'
  <2>1. dpc' # "sent" /\ NoWatcher /\ \A q \in Requests : ~OnItsWay(q)'
    BY <1>6, Taken
  <2>2. req' = 0 /\ wpc' = [wpc EXCEPT ![r] = "watch"]
    BY <1>6 DEF ListenerAdopt
  <2>3. \A o \in Requests : wpc'[o] # "altered"
    BY <1>0, <2>1, <2>2 DEF NoWatcher, Watching
  <2> QED
    BY <1>a, <2>1, <2>2, <2>3
<1>7. ASSUME NEW r \in Requests, Refused(r) PROVE WayInv'
  <2>1. /\ req = r /\ dpc' # "sent" /\ NoWatcher /\ \A q \in Requests : ~OnItsWay(q)'
        /\ status' = [status EXCEPT ![r] = "used"] /\ target' = target
    BY <1>7, Taken DEF Refused
  <2>2. UNCHANGED <<req, prev, wpc>>
    BY <1>7 DEF Refused, ListenerTooSmall, session, watchers
  <2>3. \A o \in Requests : wpc'[o] # "altered"
    BY <2>1, <2>2 DEF NoWatcher, Watching
  <2>4. req' = 0 \/ (status'[req'] # "unsent" /\ target'[req'] \in {0, prev'})
    BY <1>0, <2>1, <2>2 DEF WayInv
  <2> QED
    BY <1>a, <2>1, <2>3, <2>4
<1>8. ASSUME NEW o \in Requests, WatchAlter(o) PROVE WayInv'
  <2>1. /\ req' = 0 /\ dpc' # "sent"
        /\ \A q \in Requests : wpc[q] = "altered" => q = o
        /\ \A q \in Requests : ~OnItsWay(q)
        /\ SendOrder(o) /\ o \in Ids
        /\ wpc' = [wpc EXCEPT ![o] = "altered"]
        /\ wreq' = [wreq EXCEPT ![o] = last + 1]
    BY <1>8, AlteringOrder DEF Watching
  <2>2. /\ last + 1 \in Requests /\ target'[last + 1] = o /\ status'[last + 1] = "sent"
        /\ \A r \in Requests \ {last + 1} : status'[r] = status[r]
    BY <2>1, NewRequest DEF Core
  <2>3. \A r \in Requests : OnItsWay(r)' => r = last + 1
    BY <2>1, <2>2 DEF OnItsWay
  <2>4. /\ \A q \in Requests : wpc'[q] = "altered" => q = o
        /\ wpc'[o] = "altered" /\ wreq'[o] = last + 1
    BY <1>0, <2>1
  <2> QED
    BY <2>1, <2>2, <2>3, <2>4 DEF WayInv
<1>9. ASSUME NEW o \in Requests, WatchStore(o) PROVE WayInv'
  <2>1. /\ wpc[o] = "altered" /\ prev' = o /\ req' = wreq[o]
        /\ wpc' = [wpc EXCEPT ![o] = "stopped"]
        /\ UNCHANGED <<dpc, target, status>>
    BY <1>9 DEF WatchStore, decider, wire
  <2>2. Watching(o)
    BY <2>1 DEF Watching
  <2>3. dpc # "sent" /\ \A p \in Requests : Watching(p) => p = o
    BY <2>2, WatcherAlone
  <2>4. \A q \in Requests : wpc'[q] # "altered"
    BY <1>0, <2>1, <2>3 DEF Watching
  <2>5. status[wreq[o]] # "unsent" /\ target[wreq[o]] = o
    BY <2>1 DEF WayInv
  <2>6. \A q \in Requests : OnItsWay(q)' => q = wreq[o]
    BY <2>1, <2>2, OneOnTheWay DEF OnItsWay
  <2> QED
    BY <1>a, <2>1, <2>3, <2>4, <2>5, <2>6
<1> QED
  BY <1>1, <1>2, <1>3, <1>4, <1>5, <1>6, <1>7, <1>8, <1>9, Kinds

-----------------------------------------------------------------------------
(* A refused replacement, and how the session goes on after it.            *)

LEMMA LordStep ==
  ASSUME TypeOK, Core, AnswerInv, FillInv, KnownInv, WayInv, LordInv, LiveInv, StoredInv, [Next]_vars
  PROVE  LordInv'
<1>0. status \in [Requests -> Statuses]
  BY DEF TypeOK, Statuses
<1>1. CASE Quiet
  <2>1. lpc' = "cancelling" => exch'[req'].st = "absent" /\ status'[req'] = "used"
    <3> SUFFICES ASSUME lpc' = "cancelling" PROVE exch'[req].st = "absent" /\ status'[req] = "used"
      BY <1>1 DEF Quiet
    <3>1. lpc = "cancelling"
      BY <1>1 DEF Quiet
    <3>2. req \in Requests /\ exch[req].st = "absent" /\ status[req] = "used"
      BY <3>1, RequestAlone DEF LordInv, Core, BoundInv
    <3>3. ~ExchangeCreates(req)
      BY <3>2 DEF ExchangeCreates
    <3> QED
      BY <1>1, <3>2, <3>3, OrderStays DEF Quiet
  <2>2. req' # 0 /\ status'[req'] = "used" => lpc' = "cancelling" \/ failed'
    BY <1>1, RequestAlone DEF Quiet, LordInv
  <2> QED
    BY <2>1, <2>2 DEF LordInv
<1>2. CASE Finish \/ Resume
  BY <1>2 DEF Finish, Resume, Settled, LordInv
<1>3. CASE DeciderSend
  BY <1>3, NeedAlone DEF DeciderSend, BuyAvailable, listener, LordInv
<1>4. CASE DeciderStore
  BY <1>4, SenderAlone DEF DeciderStore, listener, wire, LordInv, WayInv
<1>5. CASE DeciderStop
  BY <1>5 DEF DeciderStop, listener, wire, ledger, LordInv
<1>6. ASSUME NEW r \in Requests, ListenerAdopt(r) PROVE LordInv'
  BY <1>6, Taken DEF ListenerAdopt, listener, LordInv
<1>7. ASSUME NEW r \in Requests, Refused(r) PROVE LordInv'
  <2>1. req = r /\ status' = [status EXCEPT ![r] = "used"] /\ exch' = exch
    BY <1>7, Taken DEF Refused
  <2>2. lpc' = "cancelling" /\ req' = req /\ status[r] = "tooSmall"
    BY <1>7 DEF Refused, ListenerTooSmall, Takes, session
  <2>3. exch[r].st = "absent"
    BY <2>2 DEF AnswerInv
  <2> QED
    BY <1>0, <2>1, <2>2, <2>3 DEF LordInv
<1>8. ASSUME NEW o \in Requests, WatchAlter(o) PROVE LordInv'
  BY <1>8, AlteringOrder DEF LordInv
<1>9. ASSUME NEW o \in Requests, WatchStore(o) PROVE LordInv'
  <2>1. Watching(o) /\ wpc[o] = "altered" /\ req' = wreq[o] /\ UNCHANGED <<lpc, status>>
    BY <1>9 DEF WatchStore, Watching, listener, wire
  <2> QED
    BY <2>1, WatcherAlone DEF LordInv, WayInv
<1> QED
  BY <1>1, <1>2, <1>3, <1>4, <1>5, <1>6, <1>7, <1>8, <1>9, Kinds

-----------------------------------------------------------------------------
(* Where the orders are.                                                   *)

\* Only a step outside the goroutines touches the market.
LEMMA SameLive ==
  ASSUME TypeOK, Loud
  PROVE  /\ UNCHANGED <<exch, stored, backwards>> /\ LiveOrders' = LiveOrders
<1>1. UNCHANGED <<exch, stored, backwards>>
  BY DEF Loud, DeciderSend, DeciderStore, DeciderStop, ListenerCancelled,
     ListenerAdopt, ListenerTooSmall, ListenerDoneCode, WatchAlter, WatchStore,
     WatchCancelled, WatchFinal, ledger
<1> QED
  BY <1>1 DEF LiveOrders

\* A request that is under way brings no order beside the one it replaces.
LEMMA RoomForOne ==
  ASSUME TypeOK, WayInv, LiveInv, NEW r \in Requests, OnItsWay(r)
  PROVE  LiveOrders \subseteq {r, target[r]}
<1>1. CASE r = req
  BY <1>1, Members DEF LiveInv
<1>2. CASE dpc = "sent" /\ r = dreq
  BY <1>2 DEF LiveInv
<1>3. CASE \E o \in Requests : wpc[o] = "altered" /\ r = wreq[o]
  BY <1>3 DEF LiveInv, WayInv, Watching
<1> QED
  BY <1>1, <1>2, <1>3 DEF WayInv

\* The market without a new order.
LEMMA QuietLive ==
  ASSUME TypeOK, Core, AnswerInv, FillInv, KnownInv, LiveInv, [Next]_vars, Quiet,
         \A r \in Requests : ~ExchangeCreates(r)
  PROVE  LiveInv'
<1>1. LiveOrders' \subseteq LiveOrders
  BY OrderStays DEF LiveOrders
<1>2. backwards => backwards'
  <2>1. CASE Requests = {}
    BY <2>1, StoredSteps
  <2>2. CASE \E r \in Requests : TRUE
    BY <2>2, StoredStays
  <2> QED
    BY <2>1, <2>2
<1>3. /\ UNCHANGED <<need, req, isDone, dpc, dreq, target, wreq>>
      /\ \A o \in Requests : /\ Watching(o)' => Watching(o)
                             /\ wpc'[o] = "altered" <=> wpc[o] = "altered"
  BY DEF Quiet
<1>4. need' => LiveOrders' = {}
  BY <1>1, <1>3 DEF LiveInv
<1>5. dpc' = "sent" => LiveOrders' \subseteq {dreq'}
  BY <1>1, <1>3 DEF LiveInv
<1>6. req' # 0 => LiveOrders' \subseteq {req', target'[req']}
  BY <1>1, <1>3 DEF LiveInv
<1>7. \A o \in Requests : Watching(o)' =>
        LiveOrders' \subseteq IF wpc'[o] = "altered" THEN {o, wreq'[o]} ELSE {o}
  BY <1>1, <1>3 DEF LiveInv
<1>8. isDone' /\ ~backwards' => LiveOrders' = {}
  BY <1>1, <1>2, <1>3 DEF LiveInv
<1>9. \A p, q \in LiveOrders' : p = q
  BY <1>1 DEF LiveInv
<1> QED
  BY <1>4, <1>5, <1>6, <1>7, <1>8, <1>9 DEF LiveInv

\* A new order, alone in the market.
LEMMA CreateLive ==
  ASSUME TypeOK, TypeOK', Core, AnswerInv, FillInv, WayInv, LiveInv, [Next]_vars,
         NEW r \in Requests, ExchangeCreates(r)
  PROVE  LiveInv' /\ LiveOrders' \subseteq {r}
<1>1. /\ status[r] = "sent"
      /\ UNCHANGED <<need, active, prev, req, orders, completed, isDone, dpc, dreq,
                     wpc, wreq, target, backwards>>
  BY DEF ExchangeCreates, session, decider, watchers
<1>2. OnItsWay(r)
  BY <1>1 DEF OnItsWay
<1>3. /\ ~isDone /\ ~need
      /\ req # 0 => r = req
      /\ dpc = "sent" => r = dreq
      /\ \A o \in Requests : Watching(o) => wpc[o] = "altered" /\ r = wreq[o]
  BY <1>2, OneOnTheWay
<1>4. PICK st \in Live :
        exch' = [q \in Requests |-> IF q = r THEN [st |-> st, got |-> 0]
                                    ELSE IF q = target[r] THEN [exch[q] EXCEPT !.st = "cancelled"]
                                    ELSE exch[q]]
  BY DEF ExchangeCreates
<1>5. LiveOrders' \subseteq {r}
  <2>1. LiveOrders \subseteq {r, target[r]}
    BY <1>2, RoomForOne
  <2>2. ASSUME NEW q \in Requests, exch'[q].st \in Live, q # r PROVE FALSE
    <3>1. q = target[r]
      BY <1>4, <2>1, <2>2 DEF LiveOrders
    <3>2. exch'[q] = [exch[q] EXCEPT !.st = "cancelled"]
      BY <1>4, <2>2, <3>1
    <3> QED
      BY <2>2, <3>2 DEF Live, TypeOK, Snapshots
  <2> QED
    BY <2>2 DEF LiveOrders
<1>6. \A o \in Requests : Watching(o)' => wpc'[o] = "altered" /\ wreq'[o] = r
  BY <1>1, <1>3 DEF Watching
<1> QED
  BY <1>1, <1>3, <1>5, <1>6 DEF LiveInv

LEMMA LiveStep ==
  ASSUME TypeOK, TypeOK', Core, Core', AnswerInv, FillInv, KnownInv, WayInv, LordInv, LiveInv,
         StoredInv, [Next]_vars
  PROVE  LiveInv'
<1>0. /\ wpc \in [Requests -> {"none", "watch", "altered", "cancelling", "getting", "stopped"}]
      /\ wreq \in [Requests -> Ids]
      /\ \A p, q \in LiveOrders : p = q
  BY DEF TypeOK, LiveInv
<1>1. CASE Quiet
  BY <1>1, QuietLive, CreateLive
<1>2. CASE Finish \/ Resume
  <2>1. UNCHANGED <<exch, backwards>> /\ LiveOrders' = LiveOrders /\ (LiveOrders = {} \/ backwards)
    BY <1>2 DEF Finish, Resume, Settled, LiveOrders
  <2>2. CASE Finish
    BY <1>0, <2>1, <2>2 DEF Finish, Settled, ExecutedFlags, LiveInv, NoWatcher
  <2>3. CASE Resume
    BY <2>1, <2>3 DEF Resume, LiveInv
  <2> QED
    BY <1>2, <2>2, <2>3
<1>3. CASE DeciderSend
  <2>1. need /\ need' = FALSE /\ LiveOrders' = LiveOrders
    BY <1>3, SameLive DEF DeciderSend, BuyAvailable, Loud
  <2> QED
    BY <2>1 DEF LiveInv
<1>4. CASE DeciderStore
  <2>1. dpc = "sent" /\ req' = dreq /\ LiveOrders' = LiveOrders /\ UNCHANGED <<need, isDone, wpc, wreq>>
        /\ dpc' = "idle"
    BY <1>4, SameLive DEF DeciderStore, Loud, watchers
  <2>2. ~need /\ ~isDone /\ NoWatcher' /\ LiveOrders \subseteq {dreq}
    BY <2>1, SenderAlone DEF LiveInv, NoWatcher, Watching
  <2> QED
    BY <1>0, <2>1, <2>2 DEF LiveInv, NoWatcher
<1>5. CASE DeciderStop
  <2>1. /\ LiveOrders' = LiveOrders /\ (need' => need) /\ dpc' # "sent"
        /\ UNCHANGED <<req, target, isDone, wpc, wreq, backwards>>
    BY <1>5, SameLive DEF DeciderStop, Loud, watchers, wire, TypeOK
  <2> QED
    BY <2>1 DEF LiveInv, Watching
<1>6. ASSUME NEW r \in Requests, ListenerAdopt(r) PROVE LiveInv'
  <2>1. req = r /\ r # 0 /\ ~isDone /\ ~need /\ dpc' # "sent" /\ NoWatcher /\ target' = target
    BY <1>6, Taken
  <2>2. /\ status[r] = "created" /\ wpc' = [wpc EXCEPT ![r] = "watch"] /\ req' = 0
        /\ UNCHANGED <<isDone, need>> /\ LiveOrders' = LiveOrders
    BY <1>6, SameLive DEF ListenerAdopt, Takes, Loud
  <2>3. target[r] # 0 => exch[target[r]].st \in Final
    BY <2>2 DEF AnswerInv
  <2>4. LiveOrders \subseteq {r}
    <3>1. LiveOrders \subseteq {r, target[r]}
      BY <2>1 DEF LiveInv
    <3>2. target[r] \notin LiveOrders
      BY <2>3, Members DEF LiveOrders, Live, Final
    <3> QED
      BY <3>1, <3>2
  <2>5. \A o \in Requests : Watching(o)' => o = r
    BY <1>0, <2>1, <2>2 DEF NoWatcher, Watching
  <2> QED
    BY <1>0, <2>1, <2>2, <2>4, <2>5 DEF LiveInv
<1>7. ASSUME NEW r \in Requests, Refused(r) PROVE LiveInv'
  <2>1. dpc' = dpc /\ dpc # "sent" /\ NoWatcher /\ target' = target
    BY <1>7, Taken DEF Refused
  <2>2. UNCHANGED <<need, req, isDone, wpc, wreq, backwards>> /\ LiveOrders' = LiveOrders
    BY <1>7, SameLive DEF Refused, ListenerTooSmall, session, watchers, ledger, Loud
  <2> QED
    BY <2>1, <2>2 DEF LiveInv, Watching
<1>8. ASSUME NEW o \in Requests, WatchAlter(o) PROVE LiveInv'
  <2>1. /\ ~isDone /\ ~need /\ req = 0 /\ Watching(o) /\ wpc[o] = "watch" /\ dpc # "sent"
        /\ \A q \in Requests : Watching(q) => q = o
        /\ wpc' = [wpc EXCEPT ![o] = "altered"]
        /\ UNCHANGED <<need, req, isDone, dpc>>
    BY <1>8, AlteringOrder
  <2>2. LiveOrders \subseteq {o} /\ LiveOrders' = LiveOrders
    BY <1>8, <2>1, SameLive DEF LiveInv, Loud
  <2>3. \A q \in Requests : Watching(q)' => q = o
    BY <1>0, <2>1 DEF Watching
  <2> QED
    BY <1>0, <2>1, <2>2, <2>3 DEF LiveInv
<1>9. ASSUME NEW o \in Requests, WatchStore(o) PROVE LiveInv'
  <2>1. /\ Watching(o) /\ wpc[o] = "altered" /\ req' = wreq[o]
        /\ wpc' = [wpc EXCEPT ![o] = "stopped"]
        /\ UNCHANGED <<need, isDone, dpc, target>> /\ LiveOrders' = LiveOrders
    BY <1>9, SameLive DEF WatchStore, Watching, decider, wire, Loud
  <2>2. /\ ~isDone /\ ~need /\ dpc # "sent"
        /\ \A p \in Requests : Watching(p) => p = o
    BY <2>1, WatcherAlone
  <2>3. LiveOrders \subseteq {o, wreq[o]} /\ target[wreq[o]] = o
    BY <2>1 DEF LiveInv, WayInv
  <2>4. NoWatcher'
    BY <1>0, <2>1, <2>2 DEF NoWatcher, Watching
  <2> QED
    BY <1>0, <2>1, <2>2, <2>3, <2>4 DEF LiveInv, NoWatcher
<1> QED
  BY <1>1, <1>2, <1>3, <1>4, <1>5, <1>6, <1>7, <1>8, <1>9, Kinds

\* Somebody has the token until the session ends, and nobody after that.
LEMMA EndStep ==
  ASSUME TypeOK, Core, Core', AnswerInv, FillInv, KnownInv, WayInv, LordInv, EndInv, LiveInv,
         StoredInv, [Next]_vars
  PROVE  EndInv'
<1>0. wpc \in [Requests -> {"none", "watch", "altered", "cancelling", "getting", "stopped"}]
  BY DEF TypeOK
<1>1. CASE Quiet
  <2>1. ctxDone' \/ isDone' \/ ~Idle'
    <3>1. (ctxDone => ctxDone') /\ (isDone => isDone')
      BY <1>1, FailedStays DEF Quiet, ctxDone
    <3>2. ASSUME NEW o \in Requests, Watching(o) PROVE ctxDone' \/ ~Idle'
      BY <1>1, <3>2 DEF Quiet, ctxDone, Idle, NoWatcher
    <3>3. need \/ dpc = "sent" \/ req # 0 => ~Idle'
      BY <1>1 DEF Quiet, Idle
    <3> QED
      BY <3>1, <3>2, <3>3 DEF EndInv, Idle, NoWatcher
  <2>2. ASSUME dpc' = "stopped", ~failed' PROVE Idle' /\ (isDone' \/ LiveOrders' = {})
    <3>1. dpc = "stopped" /\ ~failed /\ isDone' = isDone
      BY <1>1, <2>2, FailedStays DEF Quiet
    <3>2. Idle /\ (isDone \/ LiveOrders = {})
      BY <3>1 DEF EndInv
    <3>3. Idle'
      BY <1>1, <3>2 DEF Quiet, Idle, NoWatcher
    <3>4. \A r \in Requests : ~ExchangeCreates(r)
      BY <3>2, OneOnTheWay DEF ExchangeCreates, OnItsWay
    <3>5. LiveOrders' \subseteq LiveOrders
      BY <3>4, OrderStays DEF LiveOrders
    <3> QED
      BY <3>1, <3>2, <3>3, <3>5
  <2> QED
    BY <2>1, <2>2 DEF EndInv
<1>2. CASE Finish \/ Resume
  <2>1. dpc' = "stopped" => failed'
    BY <1>2 DEF Finish, Resume, Settled, EndInv
  <2>2. isDone' \/ ~Idle'
    BY <1>2 DEF Finish, Resume, Settled, ExecutedFlags, Idle
  <2> QED
    BY <2>1, <2>2 DEF EndInv

\* Whoever has the token does not give it away.
<1>a. ASSUME ~Idle, ~Idle', dpc' = dpc \/ dpc' # "stopped", failed' = failed PROVE EndInv'
  BY <1>a DEF EndInv
<1>3. CASE DeciderSend
  BY <1>a, <1>3, NeedAlone DEF DeciderSend, BuyAvailable, Idle
<1>4. CASE DeciderStore
  BY <1>a, <1>4, SenderAlone, Members DEF DeciderStore, Idle
<1>5. CASE DeciderStop
  <2>1. /\ isDone \/ failed \/ need
        /\ ~need' \/ need' = need
        /\ need => ~isDone \/ need' = need
        /\ dpc = "idle" /\ dpc' = "stopped"
        /\ UNCHANGED <<req, isDone, wpc, failed, exch>>
        /\ isDone \/ failed \/ ~need'
    BY <1>5 DEF DeciderStop, watchers, ledger
  <2>2. LiveOrders' = LiveOrders /\ (NoWatcher => NoWatcher')
    BY <2>1 DEF LiveOrders, NoWatcher, Watching
  <2>3. CASE isDone
    <3>1. Idle
      BY <2>3 DEF Core, DoneInv
    <3>2. Idle'
      BY <2>1, <2>2, <3>1 DEF Idle
    <3> QED
      BY <2>1, <2>3, <3>2 DEF EndInv, ctxDone
  <2>4. CASE failed
    BY <2>1, <2>4 DEF EndInv, ctxDone
  <2>5. CASE need /\ ~isDone /\ ~failed
    <3>1. req = 0 /\ NoWatcher /\ LiveOrders = {}
      BY <2>5, NeedAlone DEF LiveInv
    <3>2. Idle' /\ LiveOrders' = {}
      BY <2>1, <2>2, <2>5, <3>1 DEF Idle
    <3> QED
      BY <2>1, <3>2 DEF EndInv, ctxDone
  <2> QED
    BY <2>1, <2>3, <2>4, <2>5
<1>6. ASSUME NEW r \in Requests, ListenerAdopt(r) PROVE EndInv'
  <2>1. ~Idle /\ UNCHANGED <<dpc, failed>>
    BY <1>6, Taken
  <2>2. wpc'[r] = "watch"
    BY <1>0, <1>6 DEF ListenerAdopt
  <2> QED
    BY <1>a, <2>1, <2>2 DEF Idle, NoWatcher, Watching
<1>7. ASSUME NEW r \in Requests, Refused(r) PROVE EndInv'
  <2>1. ~Idle /\ UNCHANGED <<dpc, failed>> /\ req # 0
    BY <1>7, Taken DEF Refused
  <2>2. req' = req
    BY <1>7 DEF Refused, ListenerTooSmall, session
  <2> QED
    BY <1>a, <2>1, <2>2 DEF Idle
<1>8. ASSUME NEW o \in Requests, WatchAlter(o) PROVE EndInv'
  <2>1. ~Idle /\ UNCHANGED <<dpc, failed>> /\ wpc' = [wpc EXCEPT ![o] = "altered"]
    BY <1>8, AlteringOrder
  <2>2. wpc'[o] = "altered"
    BY <1>0, <2>1
  <2> QED
    BY <1>a, <2>1, <2>2 DEF Idle, NoWatcher, Watching
<1>9. ASSUME NEW o \in Requests, WatchStore(o) PROVE EndInv'
  <2>1. Watching(o) /\ wpc[o] = "altered" /\ req' = wreq[o] /\ UNCHANGED <<dpc, failed>>
    BY <1>9 DEF WatchStore, Watching, decider
  <2>2. ~Idle /\ req' # 0
    BY <2>1, WatcherAlone, Members DEF WayInv
  <2> QED
    BY <1>a, <2>1, <2>2 DEF Idle
<1> QED
  BY <1>1, <1>2, <1>3, <1>4, <1>5, <1>6, <1>7, <1>8, <1>9, Kinds

-----------------------------------------------------------------------------
(* What is summed is stored.                                               *)

LEMMA StoredStep ==
  ASSUME TypeOK, Core, Core', AnswerInv, FillInv, KnownInv, WayInv, LordInv, LiveInv, StoredInv,
         [Next]_vars
  PROVE  StoredInv'
<1>0. /\ wpc \in [Requests -> {"none", "watch", "altered", "cancelling", "getting", "stopped"}]
      /\ orders \subseteq Requests
      /\ prev # 0 => Stored(prev)
      /\ \A r \in Requests : target[r] # 0 => target[r] \in Requests
  BY Members DEF TypeOK, StoredInv
<1>a. /\ \A o \in Requests : Stored(o) => Stored(o)'
      /\ \A o : Stored(o) => Stored(o)'
      /\ target' = target =>
           \A r \in Requests :
             target'[r] # 0 /\ ~backwards' => stored'[target'[r]].st \in {"active"} \cup Final
  <2>1. \A o \in Requests : Stored(o) => Stored(o)'
    BY StoredStays
  <2>2. \A r \in Requests : (backwards => backwards')
    BY StoredStays
  <2>3. \A o : Stored(o) => o \in Requests
    BY DEF Stored
  <2> QED
    BY <1>0, <2>1, <2>2, <2>3, StoredStays DEF StoredInv

\* Everything is stored, and so is the previous order.
<1>b. ASSUME \A p \in orders : Stored(p), orders' = orders,
             prev' = prev \/ Stored(prev'),
             \A r \in Requests :
               target'[r] # 0 /\ ~backwards' => stored'[target'[r]].st \in {"active"} \cup Final
      PROVE  StoredInv'
  <2>1. \A p \in orders' : Stored(p)'
    BY <1>a, <1>b
  <2>2. prev' # 0 => Stored(prev)'
    BY <1>0, <1>a, <1>b DEF Stored
  <2> QED
    BY <1>b, <2>1, <2>2 DEF StoredInv
<1>1. CASE Quiet
  <2>1. /\ UNCHANGED <<need, dpc, req, prev, orders, target>>
        /\ \A o \in Requests : Watching(o)' => Watching(o)
    BY <1>1 DEF Quiet
  <2>2. prev' # 0 => Stored(prev)'
    BY <1>0, <1>a, <2>1 DEF Stored
  <2>3. need' \/ dpc' = "sent" \/ req' # 0 => \A p \in orders' : Stored(p)'
    BY <1>a, <2>1 DEF StoredInv
  <2>4. \A o \in Requests : Watching(o)' => \A p \in orders' \ {o} : Stored(p)'
    BY <1>a, <2>1 DEF StoredInv
  <2> QED
    BY <1>a, <2>1, <2>2, <2>3, <2>4 DEF StoredInv
<1>2. CASE Finish
  <2>1. /\ ~need' /\ dpc' # "sent" /\ req' = 0 /\ NoWatcher' /\ prev' = 0 /\ target' = target
    BY <1>2 DEF Finish, Settled, ExecutedFlags
  <2> QED
    BY <1>a, <2>1 DEF StoredInv, NoWatcher
<1>3. CASE Resume
  <2>1. /\ \A p \in orders : Stored(p)
        /\ orders' = orders /\ target' = target /\ (prev' = prev \/ Stored(prev'))
    BY <1>3 DEF Resume, Settled
  <2> QED
    BY <1>a, <1>b, <2>1
<1>4. CASE DeciderSend
  <2>1. need /\ SendOrder(0) /\ UNCHANGED <<orders, prev, stored, backwards>>
    BY <1>4 DEF DeciderSend, BuyAvailable, ledger
  <2>2. \A p \in orders : Stored(p)
    BY <2>1 DEF StoredInv
  <2>3. \A r \in Requests : target'[r] = 0 \/ target'[r] = target[r]
    BY <2>1, NewRequest, Members DEF Core
  <2> QED
    BY <1>b, <2>1, <2>2, <2>3 DEF StoredInv
<1>5. CASE DeciderStore
  <2>1. /\ \A p \in orders : Stored(p)
        /\ UNCHANGED <<orders, prev, target>>
    BY <1>5 DEF DeciderStore, wire, StoredInv
  <2> QED
    BY <1>a, <1>b, <2>1
<1>6. CASE DeciderStop
  <2>1. /\ (need' => need) /\ dpc' # "sent"
        /\ UNCHANGED <<orders, prev, req, target, stored, wpc, backwards>>
    BY <1>6 DEF DeciderStop, wire, watchers, ledger, TypeOK
  <2> QED
    BY <2>1 DEF StoredInv, Stored, Watching
<1>7. ASSUME NEW r \in Requests, ListenerAdopt(r) PROVE StoredInv'
  <2>1. req = r /\ r # 0 /\ ~need /\ dpc' # "sent" /\ NoWatcher /\ target' = target
    BY <1>7, Taken
  <2>2. /\ req' = 0 /\ orders' = orders \cup {r} /\ wpc' = [wpc EXCEPT ![r] = "watch"]
        /\ UNCHANGED <<need, prev>>
    BY <1>7 DEF ListenerAdopt
  <2>3. \A p \in orders : Stored(p)'
    BY <1>a, <2>1 DEF StoredInv
  <2>4. \A o \in Requests : Watching(o)' => o = r
    BY <1>0, <2>1, <2>2 DEF NoWatcher, Watching
  <2>5. prev' # 0 => Stored(prev)'
    BY <1>0, <1>a, <2>2 DEF Stored
  <2> QED
    BY <1>a, <2>1, <2>2, <2>3, <2>4, <2>5 DEF StoredInv
<1>8. ASSUME NEW r \in Requests, Refused(r) PROVE StoredInv'
  <2>1. req # 0 /\ target' = target
    BY <1>8, Taken DEF Refused
  <2>2. UNCHANGED <<orders, prev>> /\ \A p \in orders : Stored(p)
    BY <1>8, <2>1 DEF Refused, ListenerTooSmall, session, StoredInv
  <2> QED
    BY <1>a, <1>b, <2>1, <2>2
<1>9. ASSUME NEW o \in Requests, WatchAlter(o) PROVE StoredInv'
  <2>1. /\ Watching(o) /\ stored[o].st = "active" /\ SendOrder(o) /\ o \in Ids
        /\ UNCHANGED <<orders, prev, stored, backwards>>
    BY <1>9, AlteringOrder
  <2>2. \A p \in orders : Stored(p)
    BY <2>1 DEF StoredInv, Stored
  <2>3. \A r \in Requests : target'[r] = o \/ target'[r] = target[r]
    BY <2>1, NewRequest DEF Core
  <2> QED
    BY <1>b, <2>1, <2>2, <2>3 DEF StoredInv
<1>10. ASSUME NEW o \in Requests, WatchStore(o) PROVE StoredInv'
  <2>1. Watching(o) /\ wpc[o] = "altered" /\ prev' = o /\ UNCHANGED <<orders, target>>
    BY <1>10 DEF WatchStore, Watching, wire
  <2>2. Stored(o) /\ \A p \in orders : Stored(p)
    BY <2>1 DEF KnownInv, StoredInv
  <2> QED
    BY <1>a, <1>b, <2>1, <2>2
<1> QED
  BY <1>1, <1>2, <1>3, <1>4, <1>5, <1>6, <1>7, <1>8, <1>9, <1>10, Kinds

-----------------------------------------------------------------------------
(* The money.                                                               *)

\* Without a fill the storage does not know of, the session knows what was bought.
LEMMA CostIsBought ==
  ASSUME TypeOK, AnswerInv, FillInv, OwnInv,
         \A o \in Requests : stored[o].got = exch[o].got,
         \A r \in Requests : ~OnItsWay(r)
  PROVE  BoughtCost = Bought
<1>1. Counts(stored, Requests) /\ Counts(exch, Requests) /\ orders \subseteq Requests
  BY Sums DEF TypeOK
<1>2. \A x \in Requests \ orders : exch[x].got = 0
  BY DEF FillInv, OwnInv, AnswerInv, OnItsWay, Answers
<1>3. Total(stored, orders) = Total(exch, Requests)
  BY <1>1, <1>2, TotalSame
<1> QED
  BY <1>3 DEF BoughtCost, Bought

\* What is booked was bought.
LEMMA CostIsReal ==
  ASSUME TypeOK, KnownInv PROVE BoughtCost <= Bought
<1>1. Counts(stored, Requests) /\ Counts(exch, Requests) /\ orders \subseteq Requests
  BY Sums DEF TypeOK
<1>2. \A x \in orders : stored[x].got = 0 \/ (x \in Requests /\ stored[x].got <= exch[x].got)
  BY <1>1 DEF KnownInv
<1>3. Total(stored, orders) <= Total(exch, Requests)
  BY <1>1, <1>2, TotalLess
<1> QED
  BY <1>3 DEF BoughtCost, Bought

\* The history variable, and what a request that is sent was sized by.
LEMMA SendSpends ==
  ASSUME TypeOK, Core, AnswerInv, FillInv, OwnInv, SpendInv, NEW a \in Ids, SendOrder(a),
         exch' = exch, \A r \in Requests : ~OnItsWay(r)
  PROVE  SpendInv'
<1> SUFFICES ASSUME ~missed' PROVE SpendInv'
  BY DEF SpendInv
<1>1. ~missed /\ \A o \in Requests : stored[o].got = exch[o].got
  BY Zenon DEF SendOrder
<1>2. BoughtCost = Bought
  BY <1>1, CostIsBought
<1>3. Bought \in Nat /\ BuyTotal \in Nat /\ Bought <= BuyTotal
  BY <1>1, Sums, BuyAssumption DEF SpendInv
<1>4. Remaining = BuyTotal - Bought
  BY <1>2, <1>3 DEF Remaining
<1>5. /\ last + 1 \in Requests /\ exch[last + 1].st = "absent" /\ amount'[last + 1] = Remaining
      /\ \A r \in Requests \ {last + 1} : status'[r] = status[r] /\ amount'[r] = amount[r]
  BY NewRequest DEF Core
<1>6. Bought' = Bought /\ LiveOrders' = LiveOrders
  BY DEF Bought, LiveOrders
<1>7. \A r \in Requests : status'[r] = "sent" => Bought' + amount'[r] <= BuyTotal
  <2>1. \A r \in Requests : status'[r] = "sent" => r = last + 1
    BY <1>5 DEF OnItsWay
  <2>2. Bought + (BuyTotal - Bought) <= BuyTotal
    BY <1>3
  <2> QED
    BY <1>4, <1>5, <1>6, <2>1, <2>2
<1>8. \A o \in LiveOrders' : Bought' + amount'[o] <= BuyTotal + exch'[o].got
  <2>1. \A o \in LiveOrders : o \in Requests \ {last + 1}
    BY <1>5 DEF LiveOrders, Live
  <2> QED
    BY <1>1, <1>5, <1>6, <2>1 DEF SpendInv
<1> QED
  BY <1>3, <1>6, <1>7, <1>8 DEF SpendInv

\* Nobody forgets a missed fill.
LEMMA MissedSteps ==
  ASSUME [Next]_vars
  PROVE  /\ missed => missed'
         /\ \/ UNCHANGED missed
            \/ DeciderSend
            \/ \E r \in Requests : WatchAlter(r) \/ ExchangeMoves(r)
<1>1. \/ UNCHANGED missed
      \/ DeciderSend
      \/ \E r \in Requests : WatchAlter(r) \/ ExchangeMoves(r)
  BY DEF Next, vars, DeciderStore, DeciderStop, CleanUp, Interrupted,
     ListenerSubscribed, ListenerDiscard, ListenerAdopt, ListenerTooSmall,
     ListenerDoneCode, ListenerFails, ListenerCancelled, ListenerCancelFails,
     ListenerStop, WatchStore, WatchCancel, WatchCancelled,
     WatchCancelDone, WatchFinal, WatchGet, WatchGot, WatchFails, WatchStop,
     ExchangeCreates, ExchangeCancels, ExchangeRefuses, ExchangeGets, Accounting
<1>2. DeciderSend => (missed => missed')
  BY Zenon DEF DeciderSend, SendOrder
<1>3. \A r \in Requests : WatchAlter(r) => (missed => missed')
  BY Zenon DEF WatchAlter, SendOrder
<1>4. \A r \in Requests : ExchangeMoves(r) => (missed => missed')
  BY Zenon DEF ExchangeMoves
<1> QED
  BY <1>1, <1>2, <1>3, <1>4

\* No order is filled for more than what was left when it was sized.
LEMMA SpendStep ==
  ASSUME TypeOK, TypeOK', Core, AnswerInv, FillInv, KnownInv, WayInv, OwnInv, LordInv, LiveInv,
         StoredInv, SpendInv, [Next]_vars
  PROVE  SpendInv'
<1> SUFFICES ASSUME ~missed' PROVE SpendInv'
  BY DEF SpendInv
<1>0. ~missed /\ BuyTotal \in Nat
  BY MissedSteps, BuyAssumption
<1>a. /\ Bought \in Nat /\ Bought' \in Nat /\ Bought <= BuyTotal
      /\ \A o \in Requests : /\ exch[o].got \in Nat /\ exch'[o].got \in Nat
                             /\ amount[o] \in Nat /\ amount'[o] \in Nat
      /\ \A r \in Requests : status[r] = "sent" => Bought + amount[r] <= BuyTotal
      /\ \A o \in LiveOrders : Bought + amount[o] <= BuyTotal + exch[o].got
  BY <1>0, BoughtStays, Amounts DEF TypeOK, SpendInv
<1>1. CASE DeciderSend
  <2>1. SendOrder(0) /\ exch' = exch /\ 0 \in Ids /\ \A r \in Requests : ~OnItsWay(r)
    BY <1>1, OneOnTheWay, Members DEF DeciderSend, BuyAvailable, ledger
  <2> QED
    BY <2>1, SendSpends
<1>2. CASE \E o \in Requests : WatchAlter(o)
  BY <1>2, AlteringOrder, SendSpends
<1>3. CASE /\ ~DeciderSend /\ \A o \in Requests : ~WatchAlter(o)
           /\ \A o \in Requests : exch'[o].got = exch[o].got
  <2>1. Bought' = Bought /\ amount' = amount
    BY <1>3, BoughtStays, WireSteps
  <2>2. \A r \in Requests : status'[r] = "sent" => status[r] = "sent"
    <3>1. CASE UNCHANGED status
      BY <3>1
    <3>2. CASE \E r \in Requests, st \in {"used", "discarded", "created", "tooSmall", "doneCode", "error"} :
                 status' = [status EXCEPT ![r] = st]
      BY <3>2 DEF TypeOK
    <3> QED
      BY <1>3, <3>1, <3>2, WireSteps DEF ListenerDiscard, ListenerAdopt, ListenerTooSmall,
         ListenerDoneCode, ListenerFails, Takes, ExchangeCreates, ExchangeRefuses
  <2>3. \A o \in LiveOrders' : Bought + amount[o] <= BuyTotal + exch'[o].got
    <3>1. ASSUME NEW o \in Requests, exch'[o].st \in Live, ExchangeCreates(o)
          PROVE  Bought + amount[o] <= BuyTotal + exch'[o].got
      <4>1. Bought + amount[o] <= BuyTotal
        BY <1>a, <3>1 DEF ExchangeCreates
      <4> QED
        BY <1>0, <1>a, <4>1
    <3>2. ASSUME NEW o \in Requests, exch[o].st \in Live
          PROVE  Bought + amount[o] <= BuyTotal + exch'[o].got
      BY <1>3, <1>a, <3>2 DEF LiveOrders
    <3> QED
      BY <3>1, <3>2, OrderStays DEF LiveOrders
  <2> QED
    BY <1>a, <2>1, <2>2, <2>3 DEF SpendInv
<1>4. ASSUME NEW o \in Requests, exch'[o].got # exch[o].got PROVE SpendInv'
  <2>1. /\ ExchangeMoves(o) /\ exch[o].st = "active"
        /\ exch'[o].got = exch[o].got + 1
        /\ missed' = (missed \/ \E r \in Requests : target[r] = o /\ status[r] = "sent")
    BY <1>4, OrderStays, ExchChange
  <2>2. \A q \in Requests \ {o} : exch'[q] = exch[q]
    BY <2>1 DEF ExchangeMoves, TypeOK
  <2>3. Bought' = Bought + 1
    BY <2>1, <2>2, BoughtStays
  <2>4. UNCHANGED <<amount, status>>
    BY <2>1 DEF ExchangeMoves, wire
  <2>5. o \in LiveOrders /\ exch[o].got < amount[o]
    BY <2>1 DEF LiveOrders, Live, FillInv
  <2>6. \A r \in Requests : status'[r] # "sent"
    <3> SUFFICES ASSUME NEW r \in Requests, status[r] = "sent" PROVE FALSE
      BY <2>4
    <3>1. LiveOrders \subseteq {r, target[r]}
      BY RoomForOne DEF OnItsWay
    <3>2. o # r
      BY <2>1 DEF AnswerInv
    <3>3. target[r] # o
      BY <2>1, Zenon
    <3> QED
      BY <2>5, <3>1, <3>2, <3>3
  <2>7. LiveOrders' \subseteq {o}
    <3>1. \A q \in Requests : exch'[q].st \in Live => exch[q].st \in Live
      BY <2>1, <2>2 DEF Live
    <3>2. \A p, q \in LiveOrders : p = q
      BY DEF LiveInv
    <3> QED
      BY <2>5, <3>1, <3>2 DEF LiveOrders
  <2>8. Bought + amount[o] <= BuyTotal + exch[o].got
    BY <1>a, <2>5
  <2>9. Bought' <= BuyTotal /\ Bought' + amount'[o] <= BuyTotal + exch'[o].got
    BY <1>0, <1>a, <2>1, <2>3, <2>4, <2>5, <2>8
  <2> QED
    BY <2>6, <2>7, <2>9 DEF SpendInv
<1> QED
  BY <1>1, <1>2, <1>3, <1>4

\* The cost is booked when the session ends, and by then it was spent.
LEMMA BookedStep ==
  ASSUME TypeOK, TypeOK', Core, AnswerInv, FillInv, KnownInv, WayInv, LordInv, LiveInv, StoredInv,
         booked <= Bought, [Next]_vars
  PROVE  booked' <= Bought'
<1>0. /\ Bought \in Nat /\ Bought' \in Nat /\ Bought <= Bought' /\ booked \in Nat
      /\ BoughtCost \in Nat /\ BoughtCost <= Bought
  BY BoughtStays, Sums, CostIsReal DEF TypeOK
<1>1. CASE Finish
  <2>1. booked' = booked + BoughtCost /\ ~isDone
    BY <1>1 DEF Finish, Settled, ExecutedFlags
  <2>2. booked = 0
    BY <2>1 DEF Core, DoneInv
  <2> QED
    BY <1>0, <2>1, <2>2
<1>2. CASE ~Finish
  <2>1. booked' = booked
    BY <1>2, Kinds DEF Quiet, Resume, DeciderSend, DeciderStore, DeciderStop, ListenerAdopt,
       Refused, ListenerTooSmall, session, WatchAlter, WatchStore
  <2> QED
    BY <1>0, <2>1
<1> QED
  BY <1>1, <1>2

-----------------------------------------------------------------------------
(* The invariant, and what follows.                                         *)

LEMMA InitIInv == Init => IInv
<1> SUFFICES ASSUME Init PROVE IInv
  OBVIOUS
<1>1. TypeOK
  BY Members, Amounts DEF Init, TypeOK
<1>2. /\ NoWatcher /\ LiveOrders = {} /\ \A r \in Requests : ~OnItsWay(r)
  BY Amounts DEF Init, NoWatcher, Watching, LiveOrders, Live, OnItsWay, Answers
<1>3. Core
  BY <1>2 DEF Init, Core, BoundInv, TokenInv, DoneInv, WatcherHasActive, NoWatcher
<1>4. AnswerInv /\ FillInv /\ OwnInv
  BY Amounts DEF Init, AnswerInv, FillInv, OwnInv, Live
<1>5. KnownInv
  BY Amounts DEF Init, KnownInv, Final
<1>6. WayInv /\ LordInv /\ EndInv
  BY <1>2 DEF Init, WayInv, LordInv, EndInv, Idle, NoWatcher, Watching
<1>7. LiveInv /\ StoredInv
  BY <1>2 DEF Init, LiveInv, StoredInv, NoWatcher
<1>8. Bought = 0
  <2>1. Counts(exch, Requests)
    BY <1>1, Sums
  <2>2. Total(exch, {}) = 0 /\ {} \in SUBSET Requests
    BY FS_EmptySet, TotalNat
  <2>3. \A x \in Requests \ {} : exch[x].got = 0
    BY Amounts DEF Init
  <2>4. Total(exch, {}) = Total(exch, Requests)
    BY <2>1, <2>2, <2>3, TotalSame
  <2> QED
    BY <2>2, <2>4 DEF Bought
<1>9. SpendInv /\ booked <= Bought
  BY <1>2, <1>8, BuyAssumption DEF Init, SpendInv
<1> QED
  BY <1>1, <1>3, <1>4, <1>5, <1>6, <1>7, <1>9 DEF IInv

LEMMA StepIInv == IInv /\ [Next]_vars => IInv'
<1> SUFFICES ASSUME IInv, [Next]_vars PROVE IInv'
  OBVIOUS
<1>1. /\ TypeOK /\ Core /\ AnswerInv /\ FillInv /\ KnownInv /\ WayInv /\ OwnInv /\ LordInv
      /\ EndInv /\ LiveInv /\ StoredInv /\ SpendInv /\ booked <= Bought
  BY DEF IInv
<1>2. TypeOK' /\ Core'
  BY <1>1, TypeStep, CoreStep DEF Core
<1>3. AnswerInv' /\ FillInv' /\ OwnInv' /\ KnownInv'
  BY <1>1, <1>2, AnswerStep, FillStep, OwnStep, KnownStep DEF Core
<1>4. WayInv' /\ LordInv' /\ EndInv'
  BY <1>1, <1>2, WayStep, LordStep, EndStep
<1>5. LiveInv' /\ StoredInv'
  BY <1>1, <1>2, LiveStep, StoredStep
<1>6. SpendInv' /\ booked' <= Bought'
  BY <1>1, <1>2, SpendStep, BookedStep
<1> QED
  BY <1>2, <1>3, <1>4, <1>5, <1>6 DEF IInv

LEMMA Invariance == Spec => []IInv
BY InitIInv, StepIInv, PTL DEF Spec

\* Buying by moving orders is safe, whatever decider, listener and watchers do
\* between each other's steps: one order in the market at a time and a new one
\* only when there is none, the cost booked once and no more than was spent, no
\* stored order nil that is looked at, and one way only into a standstill.
THEOREM BuyingIsSafe == Spec => []SessionSafe
<1>1. IInv => SessionSafe
  <2> SUFFICES ASSUME IInv PROVE SessionSafe
    OBVIOUS
  <2>0. /\ TypeOK /\ Core /\ WayInv /\ LordInv /\ EndInv /\ LiveInv /\ StoredInv
        /\ booked <= Bought
    BY DEF IInv
  <2>1. OneLiveOrder
    <3>1. \A p, q \in LiveOrders : p = q
      BY <2>0 DEF LiveInv
    <3>2. CASE LiveOrders = {}
      BY <3>2, FS_EmptySet DEF OneLiveOrder
    <3>3. CASE LiveOrders # {}
      <4>1. PICK p \in LiveOrders : TRUE
        BY <3>3
      <4>2. LiveOrders = {p}
        BY <3>1, <4>1
      <4>3. Cardinality({p}) = 1
        BY FS_Singleton
      <4> QED
        BY <4>2, <4>3 DEF OneLiveOrder
    <3> QED
      BY <3>2, <3>3
  <2>2. NeedMeansIdle
    <3> SUFFICES ASSUME need, ~isDone
                 PROVE  LiveOrders = {} /\ Open = {} /\ \A o \in Requests : ~Watching(o)
      BY DEF NeedMeansIdle
    <3>1. \A r \in Requests : ~OnItsWay(r)
      BY <2>0, OneOnTheWay
    <3>2. Open = {}
      BY <3>1 DEF Open, OnItsWay
    <3> QED
      BY <2>0, <3>2, NeedAlone DEF LiveInv, NoWatcher
  <2>3. BookedOnce /\ WatcherHasActive
    BY <2>0 DEF BookedOnce, Core, DoneInv
  <2>4. NoNilOrder
    <3>1. \A r \in Requests : r = req => req # 0
      BY Members
    <3> QED
      BY <2>0, <3>1 DEF NoNilOrder, StoredInv
  <2>5. OnlyOneTrap
    <3> SUFFICES ASSUME ~ctxDone, ~isDone, req # 0
                 PROVE  Lost \/ req \in Open \/ lpc = "cancelling"
      BY <2>0 DEF OnlyOneTrap, EndInv, Idle, NoWatcher
    <3>1. req \in Requests /\ status[req] \in {"sent", "used", "discarded"} \cup Answers
      BY <2>0, RequestAlone DEF WayInv, TypeOK
    <3>2. status[req] = "used" => lpc = "cancelling"
      BY <2>0 DEF LordInv, ctxDone
    <3> QED
      BY <3>1, <3>2 DEF Lost, Open
  <2> QED
    BY <2>0, <2>1, <2>2, <2>3, <2>4, <2>5 DEF SessionSafe
<1> QED
  BY <1>1, Invariance, PTL

\* Over all its orders, partly filled ones included, the session buys for no more
\* than it may spend, unless an order was sized without a fill that counts.
THEOREM NothingOverspent == Spec => []SpendsNoMore
<1>1. IInv => SpendsNoMore
  BY DEF IInv, SpendInv, SpendsNoMore
<1> QED
  BY <1>1, Invariance, PTL

\* What ended by itself leaves nothing in the market and nothing on its way there,
\* if no stored order was overwritten by an earlier state of it.
THEOREM SessionEndsFlat == Spec => []EndedIsFlat
<1>1. IInv => EndedIsFlat
  <2> SUFFICES ASSUME IInv, isDone \/ dpc = "stopped", ~failed, ~backwards
               PROVE  LiveOrders = {} /\ Open = {}
    BY DEF EndedIsFlat
  <2>0. TypeOK /\ Core /\ WayInv /\ EndInv /\ LiveInv
    BY DEF IInv
  <2>1. Idle /\ LiveOrders = {}
    BY <2>0 DEF Core, DoneInv, EndInv, LiveInv
  <2>2. \A r \in Requests : ~OnItsWay(r)
    BY <2>0, <2>1, OneOnTheWay
  <2> QED
    BY <2>1, <2>2 DEF Open, OnItsWay
<1> QED
  BY <1>1, Invariance, PTL
=============================================================================
