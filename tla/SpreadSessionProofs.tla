------------------------ MODULE SpreadSessionProofs ------------------------
(***************************************************************************)
(* One session books each side at most once, and every order that is       *)
(* watched is the session's active one, however many requests are sent.    *)
(*                                                                         *)
(* The argument is that of a token.  For each side, at most one of four    *)
(* things is the case: the flag asks for an order, the decider is between  *)
(* sending a request and storing its number, the session waits for an      *)
(* answer, or one order is watched.  The buy side has the token until its  *)
(* done flags are set, which is when the sell side gets it.                *)
(*                                                                         *)
(* The second part is about the market: wherever the token is, there are   *)
(* the session's live orders, and no others.  That is why the session never *)
(* has two orders of a side in the market, and none when it is done.       *)
(*                                                                         *)
(* The third part carries both over a restart: what the first life leaves  *)
(* in the state file lets the second one take the token again.             *)
(***************************************************************************)
EXTENDS SpreadRecovery, FiniteSetTheorems, TLAPS

Sending(s)   == dpc = "sent" /\ side[dreq] = s
NoWatcher(s) == \A o \in Requests : side[o] = s => ~Watching(o)
Pending(r)   == status[r] \in {"sent"} \cup Answers
Idle(s)      == ~need[s] /\ ~Sending(s) /\ req[s] = 0 /\ NoWatcher(s)

\* What is in use has been sent, so a new request disturbs nobody's side.
BoundInv ==
  /\ \A s \in Sides : prev[s] <= last /\ (prev[s] # 0 => side[prev[s]] = s)
  /\ \A r \in Requests : status[r] # "unsent" \/ Watching(r) => r <= last
  /\ dpc = "sent" => dreq \in Requests /\ dreq <= last
  /\ lpc = "cancelling" => lord \in Requests /\ lord <= last /\ req[side[lord]] # 0

\* The four things exclude each other.
Token(s) ==
  /\ need[s] => ~Sending(s) /\ req[s] = 0 /\ NoWatcher(s)
  /\ Sending(s) => req[s] = 0 /\ NoWatcher(s)
  /\ req[s] # 0 => NoWatcher(s)

TokenInv == \A s \in Sides : Token(s)

\* Selling begins when buying is over, and ends once.
PhaseInv ==
  /\ completed["buy"] \in {0, 1}
  /\ completed["sell"] \in {0, 1}
  /\ completed["buy"] = 0 => completed["sell"] = 0 /\ Idle("sell")
  /\ completed["buy"] = 1 => Idle("buy")
  /\ completed["sell"] = 1 => Idle("sell")

Core == BoundInv /\ TokenInv /\ PhaseInv /\ WatcherHasActive
IInv == TypeOK /\ Core

-----------------------------------------------------------------------------
(* Types, one part of TypeOK at a time.                                     *)

LEMMA Members ==
  /\ Sides = {"buy", "sell"}
  /\ 0 \in Ids /\ Requests \subseteq Ids
  /\ \A n \in Ids : n \in Nat /\ n <= MaxRequests
  /\ \A n \in Ids : n < MaxRequests => n + 1 \in Requests
  /\ \A n \in Ids : n # 0 => n \in Requests
  /\ \A r \in Requests : r \in Nat /\ r # 0
  BY MaxRequestsAssumption DEF Sides, Ids, Requests

LEMMA StateNames ==
  /\ {"watch", "altered", "cancelling", "getting", "stopped"} \subseteq WatchStates
  /\ {"none", "sent", "ok", "done", "error"} \subseteq CancelStates
  /\ {"none", "sent"} \cup OrderStates \subseteq GetStates
  /\ {"sent", "created", "tooSmall", "doneCode", "error", "used", "discarded"} \subseteq Statuses
  /\ Live \subseteq OrderStates /\ {"active"} \cup Final \subseteq OrderStates
  /\ "cancelled" \in OrderStates
  BY DEF WatchStates, CancelStates, GetStates, OrderStates, Statuses, Answers, Live, Final

LEMMA DoneFlagsTypes ==
  ASSUME SessionOK, NEW s \in Sides, NEW o \in Ids, SetDoneFlags(s, o)
  PROVE  SessionOK'
<1>1. completed' \in [Sides -> Nat] /\ prev' \in [Sides -> Ids] /\ orders' \in [Sides -> SUBSET Requests]
  BY Members DEF SetDoneFlags, SessionOK
<1>2. active' \in [Sides -> Ids] /\ req' \in [Sides -> Ids]
  BY Members DEF SetDoneFlags, SessionOK
<1>3. need' \in [Sides -> BOOLEAN] /\ isDone' \in BOOLEAN
  BY Members DEF SetDoneFlags, SessionOK
<1> QED
  BY <1>1, <1>2, <1>3 DEF SessionOK

LEMMA SessionTypes ==
  ASSUME TypeOK, [Next]_vars PROVE SessionOK'
<1>1. CASE UNCHANGED session
  BY <1>1 DEF TypeOK, SessionOK, session
<1>2. CASE \E s \in Sides : DeciderSend(s)
  BY <1>2, Members DEF DeciderSend, SendOrder, TypeOK, SessionOK
<1>3. CASE \E s \in Sides : DeciderSendFails(s)
  BY <1>3, Members DEF DeciderSendFails, TypeOK, SessionOK
<1>4. CASE DeciderStore
  BY <1>4, Members DEF DeciderStore, TypeOK, SessionOK, DeciderOK
<1>5. CASE ListenerCancelled
  <2>1. CASE side[lord] = "buy"
    BY <1>5, <2>1 DEF ListenerCancelled, session, TypeOK, SessionOK
  <2>2. CASE side[lord] # "buy"
    BY <1>5, <2>2, DoneFlagsTypes, Members DEF ListenerCancelled, TypeOK, ListenerOK
  <2> QED
    BY <2>1, <2>2
<1>6. CASE \E r \in Requests : ListenerAdopt(r)
  <2>1. PICK r \in Requests : ListenerAdopt(r)
    BY <1>6
  <2>2. active' \in [Sides -> Ids] /\ req' \in [Sides -> Ids]
    BY <2>1, Members DEF ListenerAdopt, TypeOK, SessionOK
  <2>3. orders' \in [Sides -> SUBSET Requests]
    BY <2>1 DEF ListenerAdopt, TypeOK, SessionOK
  <2> QED
    BY <2>1, <2>2, <2>3 DEF ListenerAdopt, TypeOK, SessionOK
<1>7. CASE \E r \in Requests : ListenerTooSmall(r)
  <2>1. PICK r \in Requests : ListenerTooSmall(r)
    BY <1>7
  <2>2. side[r] \in Sides /\ prev[side[r]] \in Ids
    BY <2>1 DEF TypeOK, SessionOK, WireOK
  <2>3. UNCHANGED session \/ SetDoneFlags(side[r], prev[side[r]])
    BY <2>1 DEF ListenerTooSmall
  <2>4. CASE UNCHANGED session
    BY <2>4 DEF session, TypeOK, SessionOK
  <2> QED
    BY <2>2, <2>3, <2>4, DoneFlagsTypes DEF TypeOK
<1>8. CASE \E r \in Requests : ListenerDoneCode(r)
  <2>1. PICK r \in Requests : ListenerDoneCode(r)
    BY <1>8
  <2>2. side[r] \in Sides /\ prev[side[r]] \in Ids
    BY <2>1 DEF TypeOK, SessionOK, WireOK
  <2>3. CASE SetDoneFlags(side[r], prev[side[r]])
    BY <2>2, <2>3, DoneFlagsTypes DEF TypeOK
  <2>4. CASE /\ req' = [req EXCEPT ![side[r]] = 0]
             /\ need' = [need EXCEPT ![side[r]] = TRUE]
             /\ UNCHANGED <<active, prev, orders, completed, isDone>>
    BY <2>4, Members DEF TypeOK, SessionOK
  <2> QED
    BY <2>1, <2>3, <2>4 DEF ListenerDoneCode
<1>9. CASE \E r \in Requests : WatchStore(r)
  <2>1. PICK r \in Requests : WatchStore(r)
    BY <1>9
  <2>2. prev' \in [Sides -> Ids] /\ req' \in [Sides -> Ids]
    BY <2>1, Members DEF WatchStore, TypeOK, SessionOK, WatchersOK
  <2> QED
    BY <2>1, <2>2 DEF WatchStore, TypeOK, SessionOK
<1>10. CASE \E r \in Requests : WatchCancelled(r)
  <2>1. PICK r \in Requests : WatchCancelled(r)
    BY <1>10
  <2>2. active' \in [Sides -> Ids] /\ prev' \in [Sides -> Ids] /\ need' \in [Sides -> BOOLEAN]
    BY <2>1, Members DEF WatchCancelled, Reopen, TypeOK, SessionOK
  <2> QED
    BY <2>1, <2>2 DEF WatchCancelled, Reopen, TypeOK, SessionOK
<1>11. CASE \E r \in Requests : WatchDone(r)
  BY <1>11, DoneFlagsTypes, Members DEF WatchDone, TypeOK, WireOK
<1>12. CASE \E r \in Requests : WatchGone(r)
  <2>1. PICK r \in Requests : WatchGone(r)
    BY <1>12
  <2>2. active' \in [Sides -> Ids] /\ prev' \in [Sides -> Ids] /\ need' \in [Sides -> BOOLEAN]
    BY <2>1, Members DEF WatchGone, Reopen, TypeOK, SessionOK
  <2> QED
    BY <2>1, <2>2 DEF WatchGone, Reopen, TypeOK, SessionOK
<1> QED
  BY <1>1, <1>2, <1>3, <1>4, <1>5, <1>6, <1>7, <1>8, <1>9, <1>10, <1>11, <1>12
  DEF Next, vars, session,
      DeciderStop, ListenerSubscribed, ListenerCancelFails, ListenerStop,
      ListenerDiscard, ListenerFails,
      WatchAlter, WatchCancel, WatchCancelDone, WatchGet, WatchGot, WatchFails,
      WatchStop, ExchangeCreates, ExchangeRefuses, ExchangeMoves, ExchangeCancels,
      ExchangeGets,
      Accounting, Interrupted

LEMMA DeciderTypes ==
  ASSUME TypeOK, [Next]_vars PROVE DeciderOK'
<1>1. CASE UNCHANGED decider
  BY <1>1 DEF TypeOK, DeciderOK, decider
<1>2. CASE \E s \in Sides : DeciderSend(s)
  BY <1>2, Members DEF DeciderSend, SendOrder, TypeOK, DeciderOK, WireOK
<1>3. CASE \E s \in Sides : DeciderSendFails(s)
  BY <1>3, Members DEF DeciderSendFails, TypeOK, DeciderOK
<1>4. CASE DeciderStore
  BY <1>4, Members DEF DeciderStore, TypeOK, DeciderOK
<1>5. CASE DeciderStop
  BY <1>5, Members DEF DeciderStop, TypeOK, DeciderOK
<1> QED
  BY <1>1, <1>2, <1>3, <1>4, <1>5
  DEF Next, vars, decider,
      ListenerSubscribed, ListenerCancelled, ListenerCancelFails, ListenerStop,
      ListenerDiscard, ListenerAdopt,
      ListenerTooSmall, ListenerDoneCode, ListenerFails, WatchAlter, WatchStore,
      WatchCancel,
      WatchCancelled, WatchCancelDone, WatchDone, WatchGone, WatchGet, WatchGot,
      WatchFails, WatchStop, ExchangeCreates, ExchangeRefuses, ExchangeMoves,
      ExchangeCancels,
      ExchangeGets, Accounting, Interrupted

LEMMA ListenerTypes ==
  ASSUME TypeOK, [Next]_vars PROVE ListenerOK'
<1>1. CASE UNCHANGED listener
  BY <1>1 DEF TypeOK, ListenerOK, listener
<1>2. CASE ListenerSubscribed
  BY <1>2, Members DEF ListenerSubscribed, TypeOK, ListenerOK
<1>3. CASE ListenerCancelled
  BY <1>3, Members DEF ListenerCancelled, SetDoneFlags, TypeOK, ListenerOK
<1>4. CASE ListenerCancelFails
  BY <1>4, Members DEF ListenerCancelFails, TypeOK, ListenerOK
<1>5. CASE ListenerStop
  BY <1>5, Members DEF ListenerStop, TypeOK, ListenerOK
<1>6. CASE \E r \in Requests : ListenerTooSmall(r)
  BY <1>6, Members DEF ListenerTooSmall, Stored, listener, TypeOK, ListenerOK
<1>7. CASE \E r \in Requests : ListenerFails(r)
  BY <1>7, Members DEF ListenerFails, Takes, TypeOK, ListenerOK
<1> QED
  BY <1>1, <1>2, <1>3, <1>4, <1>5, <1>6, <1>7
  DEF Next, vars, listener,
      DeciderSend, DeciderSendFails, DeciderStore, DeciderStop, ListenerDiscard,
      ListenerAdopt,
      ListenerDoneCode, WatchAlter, WatchStore, WatchCancel, WatchCancelled,
      WatchCancelDone,
      WatchDone, WatchGone, WatchGet, WatchGot, WatchFails, WatchStop,
      ExchangeCreates, ExchangeRefuses, ExchangeMoves, ExchangeCancels,
      ExchangeGets, Accounting,
      Interrupted

LEMMA WatchersTypes ==
  ASSUME TypeOK, [Next]_vars PROVE WatchersOK'
<1>1. CASE UNCHANGED watchers
  BY <1>1 DEF TypeOK, WatchersOK, watchers
<1>2. CASE \E r \in Requests : ListenerAdopt(r)
  BY <1>2, Members, StateNames DEF ListenerAdopt, Takes, TypeOK, WatchersOK
<1>3. CASE \E r \in Requests : WatchAlter(r)
  <2>1. PICK r \in Requests : WatchAlter(r)
    BY <1>3
  <2>2. last + 1 \in Ids
    BY <2>1, Members DEF WatchAlter, SendOrder, TypeOK, WireOK
  <2> QED
    BY <2>1, <2>2, StateNames DEF WatchAlter, TypeOK, WatchersOK
<1>4. CASE \E r \in Requests : WatchStore(r)
  BY <1>4, Members, StateNames DEF WatchStore, TypeOK, WatchersOK
<1>5. CASE \E r \in Requests : WatchCancel(r)
  BY <1>5, Members, StateNames DEF WatchCancel, TypeOK, WatchersOK
<1>6. CASE \E r \in Requests : WatchCancelled(r)
  BY <1>6, Members, StateNames DEF WatchCancelled, Reopen, TypeOK, WatchersOK
<1>7. CASE \E r \in Requests : WatchCancelDone(r)
  BY <1>7, Members, StateNames DEF WatchCancelDone, TypeOK, WatchersOK
<1>8. CASE \E r \in Requests : WatchDone(r)
  BY <1>8, Members, StateNames DEF WatchDone, SetDoneFlags, TypeOK, WatchersOK
<1>9. CASE \E r \in Requests : WatchGone(r)
  BY <1>9, Members, StateNames DEF WatchGone, Reopen, TypeOK, WatchersOK
<1>10. CASE \E r \in Requests : WatchGet(r)
  BY <1>10, Members, StateNames DEF WatchGet, TypeOK, WatchersOK
<1>11. CASE \E r \in Requests : WatchGot(r)
  BY <1>11, Members, StateNames DEF WatchGot, Upsert, TypeOK, WatchersOK
<1>12. CASE \E r \in Requests : WatchFails(r)
  BY <1>12, Members, StateNames DEF WatchFails, TypeOK, WatchersOK
<1>13. CASE \E r \in Requests : WatchStop(r)
  BY <1>13, Members, StateNames DEF WatchStop, TypeOK, WatchersOK
<1> QED
  BY <1>1, <1>2, <1>3, <1>4, <1>5, <1>6, <1>7, <1>8, <1>9, <1>10, <1>11, <1>12, <1>13
  DEF Next, vars, watchers,
      DeciderSend, DeciderSendFails, DeciderStore, DeciderStop,
      ListenerSubscribed, ListenerCancelled,
      ListenerCancelFails, ListenerStop, ListenerDiscard, ListenerTooSmall,
      ListenerDoneCode, ListenerFails,
      ExchangeCreates, ExchangeRefuses, ExchangeMoves, ExchangeCancels,
      ExchangeGets, Accounting,
      Interrupted

LEMMA WireTypes ==
  ASSUME TypeOK, [Next]_vars PROVE WireOK'
<1>1. CASE UNCHANGED wire
  BY <1>1 DEF TypeOK, WireOK, wire
<1>2. CASE \E s \in Sides : DeciderSend(s)
  BY <1>2, Members, StateNames DEF DeciderSend, SendOrder, TypeOK, WireOK
<1>3. CASE \E r \in Requests : ListenerDiscard(r)
  BY <1>3, Members, StateNames DEF ListenerDiscard, TypeOK, WireOK
<1>4. CASE \E r \in Requests : ListenerAdopt(r)
  BY <1>4, Members, StateNames DEF ListenerAdopt, Takes, TypeOK, WireOK
<1>5. CASE \E r \in Requests : ListenerTooSmall(r)
  BY <1>5, Members, StateNames DEF ListenerTooSmall, SetDoneFlags, Takes, Stored, TypeOK, WireOK
<1>6. CASE \E r \in Requests : ListenerDoneCode(r)
  BY <1>6, Members, StateNames DEF ListenerDoneCode, SetDoneFlags, Takes, TypeOK, WireOK
<1>7. CASE \E r \in Requests : ListenerFails(r)
  BY <1>7, Members, StateNames DEF ListenerFails, Takes, TypeOK, WireOK
<1>8. CASE \E r \in Requests : WatchAlter(r)
  <2>1. PICK r \in Requests : WatchAlter(r)
    BY <1>8
  <2>2. side[r] \in Sides /\ (IF side[r] = "buy" THEN active["buy"] ELSE r) \in Ids
    BY Members DEF TypeOK, SessionOK, WireOK
  <2>3. last' \in Ids /\ side' \in [Requests -> Sides] /\ status' \in [Requests -> Statuses]
    BY <2>1, <2>2, Members, StateNames DEF WatchAlter, SendOrder, TypeOK, WireOK
  <2>4. target' \in [Requests -> Ids]
    BY <2>1, <2>2 DEF WatchAlter, SendOrder, TypeOK, WireOK
  <2> QED
    BY <2>3, <2>4 DEF WireOK
<1>9. CASE \E r \in Requests : ExchangeCreates(r)
  BY <1>9, Members, StateNames DEF ExchangeCreates, TypeOK, WireOK
<1>10. CASE \E r \in Requests : ExchangeRefuses(r)
  BY <1>10, Members, StateNames DEF ExchangeRefuses, TypeOK, WireOK
<1> QED
  BY <1>1, <1>2, <1>3, <1>4, <1>5, <1>6, <1>7, <1>8, <1>9, <1>10
  DEF Next, vars, wire,
      DeciderSendFails, DeciderStore, DeciderStop, ListenerSubscribed,
      ListenerCancelled, ListenerCancelFails,
      ListenerStop, WatchStore, WatchCancel, WatchCancelled, WatchCancelDone, WatchDone,
      WatchGone, WatchGet, WatchGot, WatchFails, WatchStop, ExchangeMoves,
      ExchangeCancels, ExchangeGets, Accounting, Interrupted

LEMMA CallsTypes ==
  ASSUME TypeOK, [Next]_vars PROVE CallsOK'
<1>1. CASE UNCHANGED calls
  BY <1>1 DEF TypeOK, CallsOK, calls
<1>2. CASE ListenerCancelled
  BY <1>2, Members, StateNames DEF ListenerCancelled, SetDoneFlags, TypeOK, CallsOK
<1>3. CASE ListenerCancelFails
  BY <1>3, Members, StateNames DEF ListenerCancelFails, TypeOK, CallsOK
<1>4. CASE \E r \in Requests : ListenerTooSmall(r)
  BY <1>4, Members, StateNames DEF ListenerTooSmall, SetDoneFlags, Takes, Stored, TypeOK, CallsOK
<1>5. CASE \E r \in Requests : WatchCancel(r)
  BY <1>5, Members, StateNames DEF WatchCancel, TypeOK, CallsOK
<1>6. CASE \E r \in Requests : WatchCancelled(r)
  BY <1>6, Members, StateNames DEF WatchCancelled, Reopen, TypeOK, CallsOK
<1>7. CASE \E r \in Requests : WatchCancelDone(r)
  BY <1>7, Members, StateNames DEF WatchCancelDone, TypeOK, CallsOK
<1>8. CASE \E r \in Requests : WatchGet(r)
  BY <1>8, Members, StateNames DEF WatchGet, TypeOK, CallsOK
<1>9. CASE \E r \in Requests : WatchGot(r)
  BY <1>9, Members, StateNames DEF WatchGot, Upsert, TypeOK, CallsOK
<1>10. CASE \E r \in Requests : ExchangeCancels(r)
  BY <1>10, Members, StateNames DEF ExchangeCancels, TypeOK, CallsOK
<1>11. CASE \E r \in Requests : ExchangeGets(r)
  BY <1>11, StateNames DEF ExchangeGets, TypeOK, CallsOK, LedgerOK
<1> QED
  BY <1>1, <1>2, <1>3, <1>4, <1>5, <1>6, <1>7, <1>8, <1>9, <1>10, <1>11
  DEF Next, vars, calls,
      DeciderSend, DeciderSendFails, DeciderStore, DeciderStop,
      ListenerSubscribed, ListenerStop,
      ListenerDiscard, ListenerAdopt, ListenerDoneCode, ListenerFails, WatchAlter,
      WatchStore,
      WatchDone, WatchGone, WatchFails, WatchStop, ExchangeCreates, ExchangeRefuses,
      ExchangeMoves, Accounting, Interrupted

LEMMA LedgerTypes ==
  ASSUME TypeOK, [Next]_vars PROVE LedgerOK'
<1>1. CASE UNCHANGED ledger
  BY <1>1 DEF TypeOK, LedgerOK, ledger
<1>2. CASE \E r \in Requests : WatchGot(r)
  BY <1>2, Members, StateNames DEF WatchGot, Upsert, TypeOK, LedgerOK
<1>3. CASE \E r \in Requests : ExchangeCreates(r)
  BY <1>3, Members, StateNames DEF ExchangeCreates, TypeOK, LedgerOK
<1>4. CASE \E r \in Requests : ExchangeMoves(r)
  BY <1>4, Members, StateNames DEF ExchangeMoves, TypeOK, LedgerOK
<1>5. CASE \E r \in Requests : ExchangeCancels(r)
  BY <1>5, Members, StateNames DEF ExchangeCancels, TypeOK, LedgerOK
<1>6. CASE \E r \in Requests : Accounting(r)
  BY <1>6, Members, StateNames DEF Accounting, Upsert, TypeOK, LedgerOK
<1> QED
  BY <1>1, <1>2, <1>3, <1>4, <1>5, <1>6
  DEF Next, vars, ledger,
      DeciderSend, DeciderSendFails, DeciderStore, DeciderStop,
      ListenerSubscribed, ListenerCancelled,
      ListenerCancelFails, ListenerStop, ListenerDiscard, ListenerAdopt,
      ListenerTooSmall, ListenerDoneCode,
      ListenerFails, WatchAlter, WatchStore, WatchCancel, WatchCancelled,
      WatchCancelDone,
      WatchDone, WatchGone, WatchGet, WatchFails, WatchStop, ExchangeRefuses,
      ExchangeGets, Interrupted

LEMMA TypeStep ==
  ASSUME TypeOK, [Next]_vars PROVE TypeOK'
<1>1. failed' \in {failed, TRUE}
  BY DEF Next, vars, DeciderSend, DeciderSendFails, DeciderStore, DeciderStop,
      ListenerSubscribed, ListenerDiscard, ListenerAdopt, ListenerTooSmall,
      ListenerDoneCode, ListenerFails, ListenerCancelled, ListenerCancelFails,
      ListenerStop, WatchAlter, WatchStore, WatchCancel, WatchCancelled,
      WatchCancelDone, WatchDone, WatchGone, WatchGet, WatchGot, WatchFails, WatchStop,
      ExchangeCreates, ExchangeRefuses, ExchangeMoves, ExchangeCancels, ExchangeGets,
      Accounting, Interrupted
<1> QED
  BY <1>1, SessionTypes, DeciderTypes, ListenerTypes, WatchersTypes, WireTypes,
     CallsTypes, LedgerTypes DEF TypeOK

-----------------------------------------------------------------------------
(* Steps that do not hand the token on.                                     *)

\* Nothing moves but answers and states of orders; goroutines only end, and
\* only when the session does.
Quiet ==
  /\ UNCHANGED <<need, active, prev, req, orders, completed, isDone>>
  /\ UNCHANGED <<dreq, last, side, target, wreq>>
  /\ dpc' = "sent" <=> dpc = "sent"
  /\ dpc' = "stopped" => dpc = "stopped" \/ isDone \/ failed
  /\ failed => failed'
  /\ lpc' = "cancelling" => lpc = "cancelling" /\ lord' = lord
  /\ \A r \in Requests :
       /\ Watching(r)' => Watching(r)
       /\ Watching(r) => Watching(r)' \/ failed' \/ dpc = "stopped"
       /\ wpc'[r] = "altered" <=> wpc[r] = "altered"
       /\ status'[r] # "unsent" <=> status[r] # "unsent"
       /\ status[r] = "used" => status'[r] = "used"
       /\ Pending(r)' => Pending(r)

LEMMA QuietKeeps ==
  ASSUME Core, Quiet PROVE Core'
<1>1. BoundInv'
  BY DEF Core, BoundInv, Quiet, Watching
<1>2. \A s \in Sides : (Sending(s)' => Sending(s)) /\ (NoWatcher(s) => NoWatcher(s)')
  BY DEF Quiet, Sending, NoWatcher, Watching
<1>3. TokenInv'
  BY <1>2 DEF Core, TokenInv, Token, Quiet
<1>4. \A s \in Sides : Idle(s) => Idle(s)'
  BY <1>2 DEF Idle, Quiet
<1>5. PhaseInv'
  BY <1>4 DEF Core, PhaseInv, Quiet, Sides
<1>6. WatcherHasActive'
  BY DEF Core, WatcherHasActive, Quiet, Watching
<1> QED
  BY <1>1, <1>3, <1>5, <1>6 DEF Core

\* An action that hands the token on.
Loud ==
  \/ \E s \in Sides : DeciderSend(s) \/ DeciderSendFails(s)
  \/ DeciderStore \/ (ListenerCancelled /\ side[lord] # "buy")
  \/ \E r \in Requests :
       \/ ListenerAdopt(r) \/ ListenerTooSmall(r) \/ ListenerDoneCode(r)
       \/ WatchAlter(r) \/ WatchStore(r) \/ WatchCancelled(r)
       \/ WatchDone(r) \/ WatchGone(r)

LEMMA QuietOrLoud ==
  ASSUME TypeOK, [Next]_vars PROVE Quiet \/ Loud
<1> USE DEF Quiet, Watching, Pending, Answers
<1>1. CASE DeciderStop
  BY <1>1 DEF DeciderStop, session, ctxDone, listener, watchers, wire
<1>2. CASE ListenerSubscribed
  BY <1>2 DEF ListenerSubscribed, session, ctxDone, decider, watchers, wire
<1>3. CASE ListenerCancelFails
  BY <1>3 DEF ListenerCancelFails, session, ctxDone, decider, watchers, wire
<1>4. CASE ListenerStop
  BY <1>4 DEF ListenerStop, session, ctxDone, decider, watchers, wire
<1>5. CASE Interrupted
  BY <1>5 DEF Interrupted, session, ctxDone, decider, listener, watchers, wire
<1>6. CASE \E r \in Requests : ListenerDiscard(r)
  BY <1>6 DEF ListenerDiscard, session, ctxDone, decider, listener, watchers, TypeOK, WireOK
<1>7. CASE \E r \in Requests : ListenerFails(r)
  BY <1>7 DEF ListenerFails, session, ctxDone, decider, watchers, Takes, TypeOK, WireOK
<1>8. CASE \E r \in Requests : WatchCancel(r)
  BY <1>8 DEF WatchCancel, session, ctxDone, decider, listener, wire, TypeOK, WatchersOK
<1>9. CASE \E r \in Requests : WatchCancelDone(r)
  BY <1>9 DEF WatchCancelDone, session, ctxDone, decider, listener, wire, TypeOK, WatchersOK
<1>10. CASE \E r \in Requests : WatchGet(r)
  BY <1>10 DEF WatchGet, session, ctxDone, decider, listener, wire, TypeOK, WatchersOK
<1>11. CASE \E r \in Requests : WatchGot(r)
  BY <1>11 DEF WatchGot, session, ctxDone, decider, listener, wire, TypeOK, WatchersOK
<1>12. CASE \E r \in Requests : WatchFails(r)
  BY <1>12 DEF WatchFails, session, ctxDone, decider, listener, wire, TypeOK, WatchersOK
<1>13. CASE \E r \in Requests : WatchStop(r)
  BY <1>13 DEF WatchStop, session, ctxDone, decider, listener, wire, TypeOK, WatchersOK
<1>14. CASE \E r \in Requests : ExchangeCreates(r)
  BY <1>14 DEF ExchangeCreates, session, ctxDone, decider, listener, watchers, TypeOK, WireOK
<1>15. CASE \E r \in Requests : ExchangeRefuses(r)
  BY <1>15 DEF ExchangeRefuses, session, ctxDone, decider, listener, watchers, TypeOK, WireOK
<1>16. CASE \E r \in Requests : ExchangeMoves(r)
  BY <1>16 DEF ExchangeMoves, session, ctxDone, decider, listener, watchers, wire
<1>17. CASE \E r \in Requests : ExchangeCancels(r)
  BY <1>17 DEF ExchangeCancels, session, ctxDone, decider, listener, watchers, wire
<1>18. CASE \E r \in Requests : ExchangeGets(r)
  BY <1>18 DEF ExchangeGets, session, ctxDone, decider, listener, watchers, wire
<1>19. CASE \E r \in Requests : Accounting(r)
  BY <1>19 DEF Accounting, session, ctxDone, decider, listener, watchers, wire
<1>20. CASE ListenerCancelled /\ side[lord] = "buy"
  BY <1>20 DEF ListenerCancelled, session, decider, watchers, wire
<1>21. CASE UNCHANGED vars
  BY <1>21 DEF vars
<1> HIDE DEF Quiet, Pending
<1> QED
  BY <1>1, <1>2, <1>3, <1>4, <1>5, <1>6, <1>7, <1>8, <1>9, <1>10, <1>11, <1>12, <1>13,
     <1>14, <1>15, <1>16, <1>17, <1>18, <1>19, <1>20, <1>21 DEF Next, Loud

-----------------------------------------------------------------------------
(* Steps that hand the token on.  Whoever has it acts for its side s, and   *)
(* the other side is idle.                                                  *)

LEMMA Turn ==
  ASSUME PhaseInv, NEW s \in Sides, ~Idle(s)
  PROVE  /\ completed[s] = 0
         /\ \A t \in Sides \ {s} : Idle(t)
         /\ s = "sell" => completed["buy"] = 1
  BY DEF PhaseInv, Sides

LEMMA SamePhase ==
  ASSUME PhaseInv, NEW s \in Sides, ~Idle(s), completed' = completed,
         \A t \in Sides \ {s} : Idle(t)'
  PROVE  PhaseInv'
  BY DEF PhaseInv, Sides

LEMMA NextPhase ==
  ASSUME TypeOK, PhaseInv, NEW s \in Sides, ~Idle(s),
         completed' = [completed EXCEPT ![s] = @ + 1],
         Idle(s)', s = "sell" => Idle("buy")'
  PROVE  PhaseInv'
<1>1. completed \in [Sides -> Nat]
  BY DEF TypeOK, SessionOK
<1> QED
  BY <1>1, Turn DEF PhaseInv, Sides

LEMMA OneToken ==
  ASSUME NEW s \in Sides, Token(s)', \A t \in Sides \ {s} : Idle(t)'
  PROVE  TokenInv'
  BY DEF TokenInv, Token, Idle

\* Adding a request changes nobody's side, and moves no watcher.
LEMMA SendingOrder ==
  ASSUME TypeOK, BoundInv, NEW s \in Sides, NEW a \in Ids, SendOrder(s, a)
  PROVE  /\ last' = last + 1 /\ last \in Nat /\ last + 1 \in Requests
         /\ side'[last + 1] = s
         /\ \A r \in Requests : r <= last => side'[r] = side[r]
         /\ \A r \in Requests : status'[r] # "unsent" => r <= last + 1
  BY Members DEF SendOrder, BoundInv, TypeOK, WireOK

LEMMA DeciderSendKeeps ==
  ASSUME TypeOK, Core, NEW s \in Sides, DeciderSend(s) PROVE Core'
<1>1. /\ need' = [need EXCEPT ![s] = FALSE] /\ need[s]
      /\ dpc = "idle" /\ dpc' = "sent" /\ dreq' = last + 1
      /\ UNCHANGED <<active, prev, req, completed, lpc, lord, wpc>>
      /\ need \in [Sides -> BOOLEAN]
  BY DEF DeciderSend, listener, watchers, TypeOK, SessionOK
<1>2. /\ last' = last + 1 /\ last \in Nat /\ last + 1 \in Requests
      /\ side'[last + 1] = s
      /\ \A r \in Requests : r <= last => side'[r] = side[r]
      /\ \A r \in Requests : status'[r] # "unsent" => r <= last + 1
  BY SendingOrder, Members DEF DeciderSend, Core
<1>3. \A o \in Requests : Watching(o)' => Watching(o) /\ o <= last /\ side'[o] = side[o]
  BY <1>1, <1>2 DEF Core, BoundInv, Watching
<1>4. ~Idle(s) /\ Token(s)
  BY <1>1 DEF Idle, Core, TokenInv
<1>5. \A t \in Sides \ {s} : Idle(t)
  BY <1>4, Turn DEF Core
<1>6. \A t \in Sides \ {s} : Idle(t)'
  BY <1>1, <1>2, <1>3, <1>5 DEF Idle, Sending, NoWatcher
<1>7. Token(s)'
  BY <1>1, <1>2, <1>3, <1>4 DEF Token, NoWatcher
<1>8. BoundInv'
  <2>1. \A t \in Sides : prev'[t] <= last' /\ (prev'[t] # 0 => side'[prev'[t]] = t)
    BY <1>1, <1>2, Members DEF Core, BoundInv, TypeOK, SessionOK
  <2>2. \A r \in Requests : status'[r] # "unsent" \/ Watching(r)' => r <= last'
    BY <1>2, <1>3, Members
  <2>3. lpc' = "cancelling" => /\ lord' \in Requests /\ lord' <= last'
                               /\ req'[side'[lord']] # 0
    BY <1>1, <1>2, Members DEF Core, BoundInv
  <2> QED
    BY <1>1, <1>2, <2>1, <2>2, <2>3 DEF BoundInv
<1>9. WatcherHasActive'
  BY <1>1, <1>3 DEF Core, WatcherHasActive
<1> QED
  BY <1>4, <1>1, <1>6, <1>7, <1>8, <1>9, OneToken, SamePhase DEF Core

\* One watcher, and nothing else.
LEMMA WatcherAlone ==
  ASSUME TypeOK, Core, NEW o \in Requests, Watching(o)
  PROVE  /\ side[o] \in Sides /\ ~Idle(side[o]) /\ o <= last
         /\ \A t \in Sides : ~need[t] /\ req[t] = 0
         /\ dpc # "sent" /\ lpc # "cancelling"
         /\ \A r \in Requests : Watching(r) => r = o
<1>1. side[o] \in Sides /\ ~NoWatcher(side[o]) /\ o <= last
  BY DEF TypeOK, WireOK, NoWatcher, Core, BoundInv
<1>2. ~need[side[o]] /\ ~Sending(side[o]) /\ req[side[o]] = 0
  BY <1>1 DEF Core, TokenInv, Token
<1>3. \A t \in Sides \ {side[o]} : Idle(t)
  BY <1>1, Turn DEF Core, Idle
<1>4. \A t \in Sides : ~need[t] /\ req[t] = 0 /\ ~Sending(t)
  BY <1>2, <1>3 DEF Idle
<1>5. dpc # "sent"
  BY <1>4 DEF Sending, Core, BoundInv, TypeOK, WireOK
<1>6. lpc # "cancelling"
  BY <1>4 DEF Core, BoundInv, TypeOK, WireOK
<1>7. ASSUME NEW r \in Requests, Watching(r) PROVE r = o
  <2>1. side[r] = side[o]
    BY <1>3, <1>7 DEF Idle, NoWatcher, TypeOK, WireOK
  <2> QED
    BY <2>1, <1>7 DEF Core, WatcherHasActive
<1> QED
  BY <1>1, <1>4, <1>5, <1>6, <1>7 DEF Idle

\* One request id, and nothing else.
LEMMA RequestAlone ==
  ASSUME TypeOK, Core, NEW s \in Sides, req[s] # 0
  PROVE  /\ ~Idle(s)
         /\ \A t \in Sides : ~need[t]
         /\ \A t \in Sides \ {s} : req[t] = 0
         /\ dpc # "sent"
         /\ \A r \in Requests : ~Watching(r)
<1>1. ~need[s] /\ ~Sending(s) /\ NoWatcher(s)
  BY DEF Core, TokenInv, Token
<1>2. \A t \in Sides \ {s} : Idle(t)
  BY Turn DEF Core, Idle
<1>3. \A t \in Sides : ~need[t] /\ ~Sending(t) /\ NoWatcher(t)
  BY <1>1, <1>2 DEF Idle
<1>4. dpc # "sent"
  BY <1>3 DEF Sending, Core, BoundInv, TypeOK, WireOK
<1>5. \A r \in Requests : ~Watching(r)
  BY <1>3 DEF NoWatcher, TypeOK, WireOK
<1> QED
  BY <1>2, <1>3, <1>4, <1>5 DEF Idle

\* One request that is being sent, and nothing else.
LEMMA SenderAlone ==
  ASSUME TypeOK, Core, dpc = "sent"
  PROVE  /\ dreq \in Requests /\ side[dreq] \in Sides /\ ~Idle(side[dreq])
         /\ \A t \in Sides : ~need[t] /\ req[t] = 0
         /\ lpc # "cancelling"
         /\ \A r \in Requests : ~Watching(r)
<1>1. dreq \in Requests /\ side[dreq] \in Sides /\ Sending(side[dreq])
  BY DEF Sending, Core, BoundInv, TypeOK, WireOK
<1>2. ~need[side[dreq]] /\ req[side[dreq]] = 0 /\ NoWatcher(side[dreq])
  BY <1>1 DEF Core, TokenInv, Token
<1>3. \A t \in Sides \ {side[dreq]} : Idle(t)
  BY <1>1, Turn DEF Core, Idle
<1>4. \A t \in Sides : ~need[t] /\ req[t] = 0 /\ NoWatcher(t)
  BY <1>2, <1>3 DEF Idle
<1>5. lpc # "cancelling"
  BY <1>4 DEF Core, BoundInv, TypeOK, WireOK
<1>6. \A r \in Requests : ~Watching(r)
  BY <1>4 DEF NoWatcher, TypeOK, WireOK
<1> QED
  BY <1>1, <1>4, <1>5, <1>6 DEF Idle

\* Wherever a step leaves one side idle and its own with one token at most.
LEMMA StillOne ==
  ASSUME PhaseInv, NEW s \in Sides, ~Idle(s), completed' = completed,
         Token(s)', \A t \in Sides \ {s} : Idle(t)'
  PROVE  TokenInv' /\ PhaseInv'
  BY OneToken, SamePhase

LEMMA NobodyWatches ==
  ASSUME \A r \in Requests : ~Watching(r)'
  PROVE  WatcherHasActive' /\ \A t \in Sides : NoWatcher(t)'
  BY DEF WatcherHasActive, NoWatcher

\* The done flags hand the token to the other side, or end the session.
LEMMA DoneFlagsKeep ==
  ASSUME TypeOK, Core, NEW s \in Sides, NEW o \in Ids, SetDoneFlags(s, o), ~Idle(s),
         UNCHANGED <<side, last>>, dpc' # "sent", lpc' # "cancelling",
         \A r \in Requests : ~Watching(r)', \A t \in Sides : ~need[t],
         \A r \in Requests : status'[r] # "unsent" => r <= last
  PROVE  Core'
<1>1. /\ need \in [Sides -> BOOLEAN] /\ prev \in [Sides -> Ids] /\ req \in [Sides -> Ids]
      /\ last \in Nat
  BY Members DEF TypeOK, SessionOK, WireOK
<1>2. /\ completed' = [completed EXCEPT ![s] = @ + 1]
      /\ prev' = [prev EXCEPT ![s] = 0]
  BY DEF SetDoneFlags
<1>3. \A t \in Sides \ {s} : Idle(t)
  BY Turn DEF Core
<1>4. \A t \in Sides : req'[t] = 0
  BY <1>1, <1>3 DEF SetDoneFlags, Idle, Sides
<1>5. ~need'["buy"] /\ (s = "sell" => ~need'["sell"])
  BY <1>1 DEF SetDoneFlags, Sides
<1>6. WatcherHasActive' /\ \A t \in Sides : NoWatcher(t)' /\ ~Sending(t)'
  BY NobodyWatches DEF Sending
<1>7. TokenInv'
  BY <1>4, <1>6 DEF TokenInv, Token
<1>8. Idle(s)' /\ (s = "sell" => Idle("buy")')
  BY <1>4, <1>5, <1>6 DEF Idle, Sides
<1>9. PhaseInv'
  BY <1>2, <1>8, NextPhase DEF Core
<1>10. BoundInv'
  <2>1. \A t \in Sides : prev'[t] <= last' /\ (prev'[t] # 0 => side'[prev'[t]] = t)
    BY <1>1, <1>2 DEF Core, BoundInv
  <2> QED
    BY <1>1, <2>1 DEF BoundInv
<1> QED
  BY <1>6, <1>7, <1>9, <1>10 DEF Core

LEMMA DeciderSendFailsKeeps ==
  ASSUME TypeOK, Core, NEW s \in Sides, DeciderSendFails(s) PROVE Core'
<1>1. /\ need' = [need EXCEPT ![s] = FALSE] /\ need[s]
      /\ dpc = "idle" /\ dpc' = "stopped"
      /\ UNCHANGED <<active, prev, req, completed, lpc, lord, wpc, side, last, status>>
      /\ need \in [Sides -> BOOLEAN]
  BY DEF DeciderSendFails, listener, watchers, wire, TypeOK, SessionOK
<1>2. ~Idle(s) /\ Token(s)
  BY <1>1 DEF Idle, Core, TokenInv
<1>3. \A t \in Sides \ {s} : Idle(t)
  BY <1>2, Turn DEF Core
<1>4. \A t \in Sides \ {s} : Idle(t)'
  BY <1>1, <1>3 DEF Idle, Sending, NoWatcher, Watching
<1>5. Token(s)'
  BY <1>1, <1>2 DEF Token, Sending, NoWatcher, Watching
<1>6. BoundInv' /\ WatcherHasActive'
  BY <1>1 DEF Core, BoundInv, WatcherHasActive, Watching
<1> QED
  BY <1>1, <1>2, <1>4, <1>5, <1>6, StillOne DEF Core

LEMMA DeciderStoreKeeps ==
  ASSUME TypeOK, Core, DeciderStore PROVE Core'
<1> DEFINE s == side[dreq]
<1>1. /\ req' = [req EXCEPT ![s] = dreq]
      /\ dpc = "sent" /\ dpc' = "idle"
      /\ UNCHANGED <<need, active, prev, completed, lpc, lord, wpc, side, last, status>>
      /\ req \in [Sides -> Ids]
  BY DEF DeciderStore, listener, watchers, wire, TypeOK, SessionOK
<1>2. /\ s \in Sides /\ ~Idle(s) /\ lpc # "cancelling"
      /\ \A t \in Sides : ~need[t] /\ req[t] = 0
      /\ \A r \in Requests : ~Watching(r)
  BY <1>1, SenderAlone
<1> HIDE DEF s
<1>3. \A r \in Requests : ~Watching(r)'
  BY <1>1, <1>2 DEF Watching
<1>4. \A t \in Sides : NoWatcher(t)' /\ ~Sending(t)' /\ ~need'[t]
  BY <1>1, <1>2, <1>3, NobodyWatches DEF Sending
<1>5. \A t \in Sides \ {s} : req'[t] = 0
  BY <1>1, <1>2
<1>6. BoundInv'
  BY <1>1, <1>2, <1>3 DEF Core, BoundInv
<1> QED
  BY <1>1, <1>2, <1>3, <1>4, <1>5, <1>6, StillOne, NobodyWatches DEF Core, Token, Idle

LEMMA WatchAlterKeeps ==
  ASSUME TypeOK, Core, NEW o \in Requests, WatchAlter(o) PROVE Core'
<1> DEFINE s == side[o]
<1>1. /\ wpc' = [wpc EXCEPT ![o] = "altered"] /\ Watching(o)
      /\ UNCHANGED <<need, active, prev, req, completed, dpc, dreq, lpc, lord>>
      /\ wpc \in [Requests -> WatchStates]
  BY DEF WatchAlter, Watching, session, decider, listener, TypeOK, WatchersOK
<1>2. /\ s \in Sides /\ ~Idle(s) /\ o <= last
      /\ \A t \in Sides : ~need[t] /\ req[t] = 0
      /\ dpc # "sent" /\ lpc # "cancelling"
      /\ \A r \in Requests : Watching(r) => r = o
  BY <1>1, WatcherAlone
<1>3. /\ last' = last + 1 /\ last \in Nat
      /\ \A r \in Requests : r <= last => side'[r] = side[r]
      /\ \A r \in Requests : status'[r] # "unsent" => r <= last + 1
  <2>1. (IF s = "buy" THEN active["buy"] ELSE o) \in Ids
    BY Members DEF TypeOK, SessionOK
  <2> QED
    BY <1>2, <2>1, SendingOrder DEF WatchAlter, Core
<1> HIDE DEF s
<1>4. \A r \in Requests : Watching(r)' => r = o
  BY <1>1, <1>2 DEF Watching
<1>5. side'[o] = s
  BY <1>2, <1>3 DEF s
<1>6. \A t \in Sides : ~Sending(t)' /\ ~need'[t] /\ req'[t] = 0
  BY <1>1, <1>2 DEF Sending
<1>7. \A t \in Sides \ {s} : NoWatcher(t)'
  BY <1>4, <1>5 DEF NoWatcher
<1>8. WatcherHasActive'
  BY <1>1, <1>4, <1>5 DEF Core, WatcherHasActive, s
<1>9. BoundInv'
  <2>1. \A t \in Sides : prev'[t] <= last' /\ (prev'[t] # 0 => side'[prev'[t]] = t)
    BY <1>1, <1>3, Members DEF Core, BoundInv, TypeOK, SessionOK
  <2>2. \A r \in Requests : status'[r] # "unsent" \/ Watching(r)' => r <= last'
    BY <1>2, <1>3, <1>4, Members
  <2> QED
    BY <1>1, <1>2, <2>1, <2>2 DEF BoundInv
<1> QED
  BY <1>1, <1>2, <1>6, <1>7, <1>8, <1>9, StillOne DEF Core, Token, Idle

\* A watcher that ends leaves nobody watching.
LEMMA WatcherEnds ==
  ASSUME TypeOK, Core, NEW o \in Requests, Watching(o),
         wpc' = [wpc EXCEPT ![o] = "stopped"]
  PROVE  \A r \in Requests : ~Watching(r)'
<1>1. \A r \in Requests : Watching(r) => r = o
  BY WatcherAlone
<1>2. wpc \in [Requests -> WatchStates]
  BY DEF TypeOK, WatchersOK
<1> QED
  BY <1>1, <1>2 DEF Watching

LEMMA WatchStoreKeeps ==
  ASSUME TypeOK, Core, NEW o \in Requests, WatchStore(o) PROVE Core'
<1> DEFINE s == side[o]
<1>1. /\ prev' = [prev EXCEPT ![s] = o] /\ req' = [req EXCEPT ![s] = wreq[o]]
      /\ wpc' = [wpc EXCEPT ![o] = "stopped"] /\ Watching(o)
      /\ UNCHANGED <<need, active, completed, dpc, dreq, lpc, lord, last, side, status>>
      /\ prev \in [Sides -> Ids] /\ req \in [Sides -> Ids]
  BY DEF WatchStore, Watching, decider, listener, wire, TypeOK, SessionOK
<1>2. /\ s \in Sides /\ ~Idle(s) /\ o <= last
      /\ \A t \in Sides : ~need[t] /\ req[t] = 0
      /\ dpc # "sent" /\ lpc # "cancelling"
  BY <1>1, WatcherAlone
<1>3. \A r \in Requests : ~Watching(r)'
  BY <1>1, WatcherEnds
<1>4. side'[o] = s
  BY <1>1
<1> HIDE DEF s
<1>5. \A t \in Sides : NoWatcher(t)' /\ ~Sending(t)' /\ ~need'[t]
  BY <1>1, <1>2, <1>3, NobodyWatches DEF Sending
<1>6. \A t \in Sides \ {s} : req'[t] = 0
  BY <1>1, <1>2
<1>7. BoundInv'
  BY <1>1, <1>2, <1>3, <1>4 DEF Core, BoundInv
<1> QED
  BY <1>1, <1>2, <1>3, <1>5, <1>6, <1>7, StillOne, NobodyWatches DEF Core, Token, Idle

\* The order is gone, and another one may be created.
LEMMA ReopenKeeps ==
  ASSUME TypeOK, Core, NEW o \in Requests, Watching(o), Reopen(side[o]),
         wpc' = [wpc EXCEPT ![o] = "stopped"],
         prev' \in {prev, [prev EXCEPT ![side[o]] = o]},
         UNCHANGED <<dpc, dreq, lpc, lord, last, side, status>>
  PROVE  Core'
<1> DEFINE s == side[o]
<1>1. /\ need' = [need EXCEPT ![s] = TRUE]
      /\ UNCHANGED <<req, completed>>
      /\ need \in [Sides -> BOOLEAN] /\ prev \in [Sides -> Ids]
  BY DEF Reopen, TypeOK, SessionOK
<1>2. /\ s \in Sides /\ ~Idle(s) /\ o <= last
      /\ \A t \in Sides : ~need[t] /\ req[t] = 0
      /\ dpc # "sent" /\ lpc # "cancelling"
  BY <1>1, WatcherAlone
<1>3. \A r \in Requests : ~Watching(r)'
  BY <1>1, WatcherEnds
<1>4. side'[o] = s /\ prev' \in {prev, [prev EXCEPT ![s] = o]}
  OBVIOUS
<1> HIDE DEF s
<1>5. \A t \in Sides : NoWatcher(t)' /\ ~Sending(t)' /\ req'[t] = 0
  BY <1>1, <1>2, <1>3, NobodyWatches DEF Sending
<1>6. \A t \in Sides \ {s} : ~need'[t]
  BY <1>1, <1>2
<1>7. BoundInv'
  BY <1>1, <1>2, <1>3, <1>4 DEF Core, BoundInv
<1> QED
  BY <1>1, <1>2, <1>3, <1>5, <1>6, <1>7, StillOne, NobodyWatches DEF Core, Token, Idle

LEMMA WatchCancelledKeeps ==
  ASSUME TypeOK, Core, NEW o \in Requests, WatchCancelled(o) PROVE Core'
  BY ReopenKeeps DEF WatchCancelled, Watching, decider, listener, wire

LEMMA WatchGoneKeeps ==
  ASSUME TypeOK, Core, NEW o \in Requests, WatchGone(o) PROVE Core'
<1>1. prev' \in {prev, [prev EXCEPT ![side[o]] = o]}
  BY DEF WatchGone
<1>2. Watching(o)
  BY DEF WatchGone, Watching
<1> QED
  BY <1>1, <1>2, ReopenKeeps DEF WatchGone, decider, listener, wire

LEMMA WatchDoneKeeps ==
  ASSUME TypeOK, Core, NEW o \in Requests, WatchDone(o) PROVE Core'
<1>1. /\ SetDoneFlags(side[o], o)
      /\ wpc' = [wpc EXCEPT ![o] = "stopped"] /\ Watching(o)
      /\ UNCHANGED <<dpc, lpc, last, side, status>>
  BY DEF WatchDone, Watching, decider, listener, wire
<1>2. /\ side[o] \in Sides /\ ~Idle(side[o])
      /\ \A t \in Sides : ~need[t]
      /\ dpc # "sent" /\ lpc # "cancelling"
  BY <1>1, WatcherAlone
<1>3. \A r \in Requests : ~Watching(r)'
  BY <1>1, WatcherEnds
<1>4. o \in Ids /\ \A r \in Requests : status'[r] # "unsent" => r <= last
  BY <1>1, Members DEF Core, BoundInv
<1> QED
  BY <1>1, <1>2, <1>3, <1>4, DoneFlagsKeep

\* The listener's actions start from a request id r that its side holds.
LEMMA Holder ==
  ASSUME TypeOK, Core, NEW r \in Requests, NEW a, Takes(r, a)
  PROVE  /\ side[r] \in Sides /\ req[side[r]] = r /\ r # 0
         /\ lpc = "idle"
         /\ UNCHANGED <<last, side>>
         /\ status[r] = a
         /\ a # "unsent" => /\ r <= last
                            /\ \A q \in Requests : status'[q] # "unsent" => q <= last
  BY Members DEF Takes, TypeOK, WireOK, Core, BoundInv

LEMMA ListenerAdoptKeeps ==
  ASSUME TypeOK, Core, NEW r \in Requests, ListenerAdopt(r) PROVE Core'
<1> DEFINE s == side[r]
<1>1. /\ active' = [active EXCEPT ![s] = r] /\ req' = [req EXCEPT ![s] = 0]
      /\ wpc' = [wpc EXCEPT ![r] = "watch"]
      /\ UNCHANGED <<need, prev, completed, dpc, dreq, lpc, lord>>
      /\ active \in [Sides -> Ids] /\ req \in [Sides -> Ids]
      /\ wpc \in [Requests -> WatchStates]
  BY DEF ListenerAdopt, decider, listener, TypeOK, SessionOK, WatchersOK
<1>2. /\ s \in Sides /\ req[s] # 0 /\ lpc = "idle" /\ UNCHANGED <<last, side>>
      /\ r <= last /\ \A q \in Requests : status'[q] # "unsent" => q <= last
  BY Holder DEF ListenerAdopt
<1>3. /\ ~Idle(s) /\ dpc # "sent"
      /\ \A t \in Sides : ~need[t]
      /\ \A t \in Sides \ {s} : req[t] = 0
      /\ \A q \in Requests : ~Watching(q)
  BY <1>2, RequestAlone
<1>4. side'[r] = s
  BY <1>2
<1> HIDE DEF s
<1>5. \A q \in Requests : Watching(q)' => q = r
  BY <1>1, <1>3 DEF Watching
<1>6. \A t \in Sides : ~Sending(t)' /\ ~need'[t] /\ req'[t] = 0
  BY <1>1, <1>2, <1>3 DEF Sending
<1>7. \A t \in Sides \ {s} : NoWatcher(t)'
  BY <1>4, <1>5 DEF NoWatcher
<1>8. WatcherHasActive'
  BY <1>1, <1>2, <1>4, <1>5 DEF WatcherHasActive
<1>9. BoundInv'
  BY <1>1, <1>2, <1>3, <1>5 DEF Core, BoundInv
<1> QED
  BY <1>1, <1>2, <1>3, <1>6, <1>7, <1>8, <1>9, StillOne DEF Core, Token, Idle

\* The listener counts an order as executed.
LEMMA ListenerDoneKeeps ==
  ASSUME TypeOK, Core, NEW s \in Sides, NEW o \in Ids, SetDoneFlags(s, o), req[s] # 0,
         lpc' = "idle", UNCHANGED <<dpc, wpc, last, side>>,
         \A q \in Requests : status'[q] # "unsent" => q <= last
  PROVE  Core'
<1>1. /\ ~Idle(s) /\ dpc # "sent"
      /\ \A t \in Sides : ~need[t]
      /\ \A q \in Requests : ~Watching(q)
  BY RequestAlone
<1>2. \A q \in Requests : ~Watching(q)'
  BY <1>1 DEF Watching
<1> QED
  BY <1>1, <1>2, DoneFlagsKeep

LEMMA ListenerTooSmallKeeps ==
  ASSUME TypeOK, Core, NEW r \in Requests, ListenerTooSmall(r) PROVE Core'
<1> DEFINE s == side[r]
           o == prev[s]
<1>1. /\ s \in Sides /\ req[s] # 0 /\ lpc = "idle" /\ UNCHANGED <<last, side>>
      /\ \A q \in Requests : status'[q] # "unsent" => q <= last
      /\ UNCHANGED <<dpc, dreq, wpc>>
  BY Holder DEF ListenerTooSmall, decider, watchers
<1>2. o \in Requests /\ o \in Ids /\ o # 0 /\ o <= last /\ side[o] = s
  BY <1>1, Members DEF ListenerTooSmall, Stored, Core, BoundInv
<1>3. CASE stored[o] = "active"
  <2>1. /\ UNCHANGED <<need, active, prev, req, completed>>
        /\ lord' = o
    BY <1>3 DEF ListenerTooSmall, session
  <2>2. dpc # "sent" /\ \A q \in Requests : ~Watching(q)
    BY <1>1, RequestAlone
  <2>3. side'[o] = s /\ req'[s] # 0
    BY <1>1, <1>2, <2>1
  <2> HIDE DEF s, o
  <2>4. \A q \in Requests : ~Watching(q)'
    BY <1>1, <2>2 DEF Watching
  <2>5. BoundInv'
    BY <1>1, <1>2, <2>1, <2>2, <2>3, <2>4 DEF Core, BoundInv
  <2>6. \A t \in Sides : (Sending(t)' <=> Sending(t)) /\ (NoWatcher(t)' <=> NoWatcher(t))
    BY <1>1 DEF Sending, NoWatcher, Watching
  <2>7. TokenInv' /\ \A t \in Sides : Idle(t)' <=> Idle(t)
    BY <2>1, <2>6 DEF Core, TokenInv, Token, Idle
  <2>8. PhaseInv'
    BY <2>1, <2>7 DEF Core, PhaseInv, Sides
  <2> QED
    BY <2>4, <2>5, <2>7, <2>8, NobodyWatches DEF Core
<1>4. CASE stored[o] # "active"
  <2>1. SetDoneFlags(s, o) /\ lpc' = "idle"
    BY <1>1, <1>4 DEF ListenerTooSmall, listener
  <2> QED
    BY <1>1, <1>2, <2>1, ListenerDoneKeeps
<1> QED
  BY <1>3, <1>4

LEMMA ListenerDoneCodeKeeps ==
  ASSUME TypeOK, Core, NEW r \in Requests, ListenerDoneCode(r) PROVE Core'
<1> DEFINE s == side[r]
           o == prev[s]
<1>1. /\ s \in Sides /\ req[s] # 0 /\ lpc' = "idle" /\ UNCHANGED <<last, side>>
      /\ \A q \in Requests : status'[q] # "unsent" => q <= last
      /\ UNCHANGED <<dpc, dreq, wpc>>
  BY Holder DEF ListenerDoneCode, decider, watchers, listener
<1>2. CASE SetDoneFlags(s, o)
  <2>1. o \in Ids
    BY <1>1 DEF TypeOK, SessionOK
  <2> QED
    BY <1>1, <1>2, <2>1, ListenerDoneKeeps
<1>3. CASE /\ req' = [req EXCEPT ![s] = 0]
           /\ need' = [need EXCEPT ![s] = TRUE]
           /\ UNCHANGED <<active, prev, orders, completed, isDone>>
  <2>1. /\ ~Idle(s) /\ dpc # "sent"
        /\ \A t \in Sides : ~need[t]
        /\ \A t \in Sides \ {s} : req[t] = 0
        /\ \A q \in Requests : ~Watching(q)
    BY <1>1, RequestAlone
  <2>2. need \in [Sides -> BOOLEAN] /\ req \in [Sides -> Ids]
    BY DEF TypeOK, SessionOK
  <2> HIDE DEF s
  <2>3. \A q \in Requests : ~Watching(q)'
    BY <1>1, <2>1 DEF Watching
  <2>4. \A t \in Sides : NoWatcher(t)' /\ ~Sending(t)' /\ req'[t] = 0
    BY <1>1, <1>3, <2>1, <2>2, <2>3, NobodyWatches DEF Sending
  <2>5. \A t \in Sides \ {s} : ~need'[t]
    BY <1>3, <2>1, <2>2
  <2>6. BoundInv'
    BY <1>1, <1>3, <2>1, <2>3 DEF Core, BoundInv
  <2> QED
    BY <1>1, <1>3, <2>1, <2>3, <2>4, <2>5, <2>6, StillOne, NobodyWatches DEF Core, Token, Idle
<1> QED
  BY <1>2, <1>3 DEF ListenerDoneCode

LEMMA ListenerCancelledKeeps ==
  ASSUME TypeOK, Core, ListenerCancelled, side[lord] # "buy" PROVE Core'
<1>1. /\ lpc = "cancelling" /\ lpc' = "idle"
      /\ UNCHANGED <<dpc, dreq, wpc, last, side, status>>
  BY DEF ListenerCancelled, decider, watchers, wire
<1>2. side[lord] = "sell" /\ req["sell"] # 0 /\ lord \in Ids
  BY <1>1, Members DEF Core, BoundInv, TypeOK, WireOK
<1>3. SetDoneFlags("sell", lord)
  BY DEF ListenerCancelled
<1>4. \A q \in Requests : status'[q] # "unsent" => q <= last
  BY <1>1 DEF Core, BoundInv
<1> QED
  BY <1>1, <1>2, <1>3, <1>4, ListenerDoneKeeps DEF Sides

-----------------------------------------------------------------------------
(* The invariant, and the theorems.                                         *)

LEMMA InitIInv == Init => IInv
<1> SUFFICES ASSUME Init PROVE IInv
  OBVIOUS
<1>1. TypeOK
  BY Members DEF Init, TypeOK, SessionOK, DeciderOK, ListenerOK, WatchersOK, WireOK,
     CallsOK, LedgerOK, WatchStates, CancelStates, GetStates, OrderStates, Statuses
<1>2. \A r \in Requests : ~Watching(r)
  BY DEF Init, Watching
<1>3. BoundInv /\ TokenInv /\ WatcherHasActive
  BY <1>2, Members DEF Init, BoundInv, TokenInv, Token, Sending, NoWatcher, WatcherHasActive
<1>4. PhaseInv
  <2>1. completed["buy"] = 0 /\ completed["sell"] = 0
    BY DEF Init, Sides
  <2>2. ~need["sell"] /\ req["sell"] = 0 /\ dpc = "idle"
    BY DEF Init, Sides
  <2> QED
    BY <1>2, <2>1, <2>2 DEF PhaseInv, Idle, Sending, NoWatcher
<1> QED
  BY <1>1, <1>3, <1>4 DEF IInv, Core

LEMMA StepIInv == IInv /\ [Next]_vars => IInv'
<1> SUFFICES ASSUME TypeOK, Core, [Next]_vars PROVE IInv'
  BY DEF IInv
<1>1. TypeOK'
  BY TypeStep
<1>2. Core'
  <2>1. CASE Quiet
    BY <2>1, QuietKeeps
  <2>2. CASE Loud
    BY <2>2, DeciderSendKeeps, DeciderSendFailsKeeps, DeciderStoreKeeps,
       ListenerCancelledKeeps, ListenerAdoptKeeps, ListenerTooSmallKeeps,
       ListenerDoneCodeKeeps, WatchAlterKeeps, WatchStoreKeeps, WatchCancelledKeeps,
       WatchDoneKeeps, WatchGoneKeeps DEF Loud
  <2> QED
    BY <2>1, <2>2, QuietOrLoud
<1> QED
  BY <1>1, <1>2 DEF IInv

LEMMA Invariance == Spec => []IInv
  BY InitIInv, StepIInv, PTL DEF Spec

\* Every variable of the session, its goroutines and the exchange keeps its
\* type, whatever the number of requests.
THEOREM TypeCorrect == Spec => []TypeOK
<1>1. IInv => TypeOK
  BY DEF IInv
<1> QED
  BY <1>1, Invariance, PTL

\* What was bought is booked once, what was sold is booked once and later:
\* watcher and listener never both count an order as executed.
THEOREM ProfitIsBookedOnce == Spec => []BookedOnce
<1>1. IInv => BookedOnce
  BY DEF IInv, Core, PhaseInv, BookedOnce
<1> QED
  BY <1>1, Invariance, PTL

\* A watched order is the active one of its side, so that moveBuyOrder alters
\* the order it watches.
THEOREM WatchedIsActive == Spec => []WatcherHasActive
<1>1. IInv => WatcherHasActive
  BY DEF IInv, Core
<1> QED
  BY <1>1, Invariance, PTL

-----------------------------------------------------------------------------
(* The session and the market.  The token says where an order of a side may *)
(* be; the invariant below says that there is none anywhere else.           *)

\* An answer says what the exchange did, and an order that replaced another one
\* is not in the market beside it.
AnswerInv ==
  \A r \in Requests :
    /\ exch[r] # "absent" => status[r] \in {"created", "used", "discarded"}
    /\ status[r] = "created" => exch[r] # "absent"
    /\ status[r] = "doneCode" => target[r] # 0
    /\ target[r] # 0 => target[r] # r
    /\ target[r] # 0 /\ (exch[r] # "absent" \/ status[r] = "doneCode") =>
         exch[target[r]] \in Final

\* What is known of an order was true of it, and final states are final.
KnownInv ==
  \A o \in Requests :
    /\ stored[o] \in Final => exch[o] = stored[o]
    /\ get[o] \in Final => exch[o] = get[o]
    /\ cancel[o] = "ok" => exch[o] = "cancelled"
    /\ get[o] # "absent"
    /\ wpc[o] # "none" \/ get[o] # "none" => exch[o] # "absent"
    /\ wpc[o] \in {"altered", "cancelling"} => Stored(o)

\* A request that is under way is on the way to the session: it is the one the
\* decider or a watcher has sent, or the session knows its number.
WayInv ==
  /\ \A s \in Sides : req[s] # 0 => /\ side[req[s]] = s /\ status[req[s]] # "unsent"
                                    /\ target[req[s]] \in {0, prev[s]}
  /\ dpc = "sent" => target[dreq] = 0 /\ status[dreq] # "unsent"
  /\ \A o \in Requests : wpc[o] = "altered" =>
       /\ wreq[o] # 0 /\ status[wreq[o]] # "unsent"
       /\ side[wreq[o]] = side[o] /\ target[wreq[o]] = o
  /\ \A r \in Requests : Pending(r) => \/ r = req[side[r]]
                                       \/ dpc = "sent" /\ r = dreq
                                       \/ \E o \in Requests : wpc[o] = "altered" /\ r = wreq[o]

\* While the listener cancels the previous order, its replacement is refused.
LordInv ==
  lpc = "cancelling" => /\ lord = prev[side[lord]]
                        /\ exch[req[side[lord]]] = "absent"
                        /\ status[req[side[lord]]] = "used"

\* Sell requests follow the executed buy order, and the session ends with the sale.
EndInv ==
  /\ \A r \in 1..last : side[r] = "sell" => completed["buy"] = 1
  /\ isDone => completed["sell"] = 1
  /\ dpc = "stopped" => isDone \/ failed

\* Somebody has the token until the session is done or fails; this is so in its
\* first life only.
HolderInv ==
  \/ isDone \/ failed \/ dpc = "sent"
  \/ \E s \in Sides : need[s] \/ req[s] # 0
  \/ \E o \in Requests : Watching(o)

\* Where the token is, there are the orders.
LiveAt(s) ==
  /\ need[s] => LiveOrders(s) = {}
  /\ Sending(s) => LiveOrders(s) \subseteq {dreq}
  /\ req[s] # 0 => LiveOrders(s) \subseteq {req[s], target[req[s]]}
  /\ \A o \in Requests : side[o] = s /\ Watching(o) =>
       LiveOrders(s) \subseteq IF wpc[o] = "altered" THEN {o, wreq[o]} ELSE {o}
  /\ completed[s] = 1 /\ ~backwards => LiveOrders(s) = {}
  /\ \A p, q \in LiveOrders(s) : p = q

LiveInv == \A s \in Sides : LiveAt(s)

\* Orders whose volumes are summed are in the storage, and so is a previous one.
StoredAt(s) ==
  /\ prev[s] # 0 => Stored(prev[s])
  /\ need[s] \/ Sending(s) \/ req[s] # 0 => \A p \in orders[s] : Stored(p)
  /\ \A o \in Requests : side[o] = s /\ Watching(o) => \A p \in orders[s] \ {o} : Stored(p)

StoredInv ==
  /\ completed["buy"] = 0 => prev["sell"] = 0 /\ orders["sell"] = {}
  /\ completed["buy"] = 1 => prev["buy"] = 0
  /\ \A s \in Sides : StoredAt(s)
  /\ \A r \in Requests :
       target[r] # 0 /\ ~backwards => stored[target[r]] \in {"active"} \cup Final

MarketInv == AnswerInv /\ KnownInv /\ WayInv /\ LordInv /\ EndInv /\ LiveInv /\ StoredInv

(* Which steps change what.                                                *)

LEMMA ExchSteps ==
  ASSUME [Next]_vars
  PROVE  exch' = exch \/ \E r \in Requests : \/ ExchangeCreates(r) \/ ExchangeMoves(r)
                                             \/ ExchangeCancels(r)
  BY DEF Next, vars, ledger, DeciderSend, DeciderSendFails, DeciderStore, DeciderStop,
     ListenerSubscribed, ListenerDiscard, ListenerAdopt, ListenerTooSmall,
     ListenerDoneCode, ListenerFails, ListenerCancelled, ListenerCancelFails,
     ListenerStop, WatchAlter, WatchStore, WatchCancel, WatchCancelled,
     WatchCancelDone, WatchDone, WatchGone, WatchGet, WatchGot, WatchFails, WatchStop,
     ExchangeRefuses, ExchangeGets, Accounting, Interrupted

LEMMA StoredSteps ==
  ASSUME [Next]_vars
  PROVE  \/ UNCHANGED <<stored, backwards>>
         \/ \E o \in Requests : WatchGot(o) \/ Accounting(o)
  BY DEF Next, vars, ledger, DeciderSend, DeciderSendFails, DeciderStore, DeciderStop,
     ListenerSubscribed, ListenerDiscard, ListenerAdopt, ListenerTooSmall,
     ListenerDoneCode, ListenerFails, ListenerCancelled, ListenerCancelFails,
     ListenerStop, WatchAlter, WatchStore, WatchCancel, WatchCancelled,
     WatchCancelDone, WatchDone, WatchGone, WatchGet, WatchFails, WatchStop,
     ExchangeCreates, ExchangeMoves, ExchangeCancels,
     ExchangeRefuses, ExchangeGets, Interrupted

LEMMA CallSteps ==
  ASSUME [Next]_vars
  PROVE  /\ \/ UNCHANGED get
            \/ \E o \in Requests : WatchGet(o) \/ WatchGot(o) \/ ExchangeGets(o)
         /\ \/ UNCHANGED cancel
            \/ ListenerCancelled \/ ListenerCancelFails
            \/ \E o \in Requests : \/ ListenerTooSmall(o) \/ WatchCancel(o) \/ WatchCancelled(o)
                                   \/ WatchCancelDone(o) \/ ExchangeCancels(o)
  BY DEF Next, vars, calls, DeciderSend, DeciderSendFails, DeciderStore, DeciderStop,
     ListenerSubscribed, ListenerDiscard, ListenerAdopt, ListenerTooSmall,
     ListenerDoneCode, ListenerFails, ListenerCancelled, ListenerCancelFails,
     ListenerStop, WatchAlter, WatchStore, WatchCancel, WatchCancelled,
     WatchCancelDone, WatchDone, WatchGone, WatchGet, WatchGot, WatchFails, WatchStop,
     ExchangeCreates, ExchangeMoves, ExchangeCancels,
     ExchangeRefuses, ExchangeGets, Accounting, Interrupted

LEMMA WatcherSteps ==
  ASSUME [Next]_vars
  PROVE  \/ UNCHANGED <<wpc, wreq>>
         \/ \E o \in Requests : 
              \/ ListenerAdopt(o) \/ WatchAlter(o) \/ WatchStore(o) \/ WatchCancel(o)
              \/ WatchCancelled(o) \/ WatchCancelDone(o) \/ WatchDone(o) \/ WatchGone(o)
              \/ WatchGet(o) \/ WatchGot(o) \/ WatchFails(o) \/ WatchStop(o)
  BY DEF Next, vars, watchers, DeciderSend, DeciderSendFails, DeciderStore, DeciderStop,
     ListenerSubscribed, ListenerDiscard, ListenerTooSmall,
     ListenerDoneCode, ListenerFails, ListenerCancelled, ListenerCancelFails,
     ListenerStop, ExchangeCreates, ExchangeMoves, ExchangeCancels,
     ExchangeRefuses, ExchangeGets, Accounting, Interrupted

LEMMA WireSteps ==
  ASSUME [Next]_vars
  PROVE  /\ \/ UNCHANGED <<last, side, target>>
            \/ \E s \in Sides : DeciderSend(s)
            \/ \E r \in Requests : WatchAlter(r)
         /\ \/ UNCHANGED status
            \/ \E s \in Sides : DeciderSend(s)
            \/ \E r \in Requests : 
                 \/ ListenerDiscard(r) \/ ListenerAdopt(r) \/ ListenerTooSmall(r)
                 \/ ListenerDoneCode(r) \/ ListenerFails(r) \/ WatchAlter(r)
                 \/ ExchangeCreates(r) \/ ExchangeRefuses(r)
  BY DEF Next, vars, wire, Takes, DeciderSend, DeciderSendFails, DeciderStore, DeciderStop,
     ListenerSubscribed, ListenerDiscard, ListenerAdopt, ListenerTooSmall,
     ListenerDoneCode, ListenerFails, ListenerCancelled, ListenerCancelFails,
     ListenerStop, WatchStore, WatchCancel, WatchCancelled,
     WatchCancelDone, WatchDone, WatchGone, WatchGet, WatchGot, WatchFails, WatchStop,
     ExchangeCreates, ExchangeMoves, ExchangeCancels,
     ExchangeRefuses, ExchangeGets, Accounting, Interrupted

(* An order's life at the exchange.                                        *)

LEMMA OrderStays ==
  ASSUME TypeOK, AnswerInv, [Next]_vars, NEW o \in Requests
  PROVE  /\ exch[o] \in Final => exch'[o] = exch[o]
         /\ exch[o] # "absent" => exch'[o] # "absent"
         /\ exch[o] = "absent" /\ exch'[o] # "absent" => ExchangeCreates(o)
         /\ exch'[o] \in Live => exch[o] \in Live \/ ExchangeCreates(o)
<1>0. /\ exch \in [Requests -> OrderStates] /\ Live = {"placing", "active"}
      /\ Final = {"done", "cancelled"} /\ OrderStates = {"absent"} \cup Live \cup Final
  BY DEF TypeOK, LedgerOK, Live, Final, OrderStates
<1>1. CASE exch' = exch
  BY <1>1
<1>2. CASE \E r \in Requests : ExchangeCreates(r)
  <2>1. PICK r \in Requests : ExchangeCreates(r)
    BY <1>2
  <2>2. exch[r] = "absent"
    BY <2>1 DEF ExchangeCreates, AnswerInv
  <2>3. PICK st \in Live :
          exch' = [q \in Requests |-> IF q = r THEN st ELSE IF q = target[r] THEN "cancelled"
                                      ELSE exch[q]]
    BY <2>1 DEF ExchangeCreates
  <2>4. target[r] # 0 => exch[target[r]] \in Live
    BY <2>1 DEF ExchangeCreates
  <2>5. CASE o = r
    BY <1>0, <2>1, <2>2, <2>3, <2>5
  <2>6. CASE o # r /\ o = target[r]
    BY <1>0, <2>3, <2>4, <2>6, Members
  <2>7. CASE o # r /\ o # target[r]
    BY <2>3, <2>7
  <2> QED
    BY <2>5, <2>6, <2>7
<1>3. CASE \E r \in Requests : ExchangeMoves(r)
  BY <1>0, <1>3 DEF ExchangeMoves
<1>4. CASE \E r \in Requests : ExchangeCancels(r)
  BY <1>0, <1>4 DEF ExchangeCancels
<1> QED
  BY <1>1, <1>2, <1>3, <1>4, ExchSteps

(* Answers.                                                                *)

\* A request that is sent is new to the exchange.
LEMMA NewRequest ==
  ASSUME TypeOK, Core, AnswerInv, NEW s \in Sides, NEW a \in Ids, SendOrder(s, a)
  PROVE  /\ last + 1 \in Requests /\ last \in Nat /\ last' = last + 1
         /\ status[last + 1] = "unsent" /\ exch[last + 1] = "absent"
         /\ side'[last + 1] = s /\ target'[last + 1] = a /\ status'[last + 1] = "sent"
         /\ \A r \in Requests \ {last + 1} :
              side'[r] = side[r] /\ target'[r] = target[r] /\ status'[r] = status[r]
<1>1. last + 1 \in Requests /\ last \in Nat
  BY SendingOrder DEF Core
<1>2. status[last + 1] = "unsent"
  BY <1>1 DEF Core, BoundInv
<1>3. exch[last + 1] = "absent"
  BY <1>1, <1>2 DEF AnswerInv
<1> QED
  BY <1>1, <1>2, <1>3 DEF SendOrder, TypeOK, WireOK

LEMMA SendAnswers ==
  ASSUME TypeOK, Core, AnswerInv, NEW s \in Sides, NEW a \in Ids, SendOrder(s, a),
         a <= last, exch' = exch
  PROVE  AnswerInv'
<1>1. /\ last + 1 \in Requests /\ last \in Nat
      /\ exch[last + 1] = "absent"
      /\ target'[last + 1] = a /\ status'[last + 1] = "sent"
      /\ \A r \in Requests \ {last + 1} : target'[r] = target[r] /\ status'[r] = status[r]
  BY NewRequest
<1>2. a # last + 1
  BY <1>1, Members
<1>3. \A r \in Requests : r = last + 1 \/ r \in Requests \ {last + 1}
  OBVIOUS
<1> QED
  BY <1>1, <1>2, <1>3 DEF AnswerInv

\* The listener takes an answer up, or drops it.
LEMMA UsedSteps ==
  ASSUME NEW r \in Requests,
         \/ ListenerDiscard(r) \/ ListenerAdopt(r) \/ ListenerTooSmall(r)
         \/ ListenerDoneCode(r) \/ ListenerFails(r)
  PROVE  /\ status[r] \in Answers /\ UNCHANGED <<exch, target, side>>
         /\ \E st \in {"used", "discarded"} : status' = [status EXCEPT ![r] = st]
  BY DEF ListenerDiscard, ListenerAdopt, ListenerTooSmall, ListenerDoneCode, ListenerFails,
     Takes, Answers, ledger, calls

LEMMA AnswerStep ==
  ASSUME TypeOK, Core, AnswerInv, [Next]_vars PROVE AnswerInv'
<1>0. /\ status \in [Requests -> Statuses] /\ target \in [Requests -> Ids]
      /\ \A r \in Requests : target[r] # 0 => target[r] \in Requests
      /\ exch \in [Requests -> OrderStates]
  BY Members DEF TypeOK, WireOK, LedgerOK
<1>1. CASE UNCHANGED <<status, target>>
  <2>1. \A r \in Requests : ~ExchangeCreates(r)
    BY <1>0, <1>1 DEF ExchangeCreates
  <2>2. \A r \in Requests : /\ exch'[r] # "absent" <=> exch[r] # "absent"
                            /\ exch[r] \in Final => exch'[r] \in Final
    BY <2>1, OrderStays
  <2> QED
    BY <1>0, <1>1, <2>2 DEF AnswerInv
<1>2. CASE \E r \in Requests : \/ ListenerDiscard(r) \/ ListenerAdopt(r) \/ ListenerTooSmall(r)
                               \/ ListenerDoneCode(r) \/ ListenerFails(r)
  <2>1. PICK r \in Requests : \/ ListenerDiscard(r) \/ ListenerAdopt(r) \/ ListenerTooSmall(r)
                              \/ ListenerDoneCode(r) \/ ListenerFails(r)
    BY <1>2
  <2>2. UNCHANGED <<exch, target>>
    BY <2>1, UsedSteps
  <2>3. PICK st \in {"used", "discarded"} : status' = [status EXCEPT ![r] = st]
    BY <2>1, UsedSteps
  <2> QED
    BY <1>0, <2>2, <2>3 DEF AnswerInv
<1>3. CASE \E s \in Sides : DeciderSend(s)
  <2>1. PICK s \in Sides : DeciderSend(s)
    BY <1>3
  <2>2. SendOrder(s, 0) /\ exch' = exch /\ 0 <= last
    BY <2>1, Members DEF DeciderSend, ledger, TypeOK, WireOK
  <2> QED
    BY <2>2, SendAnswers, Members
<1>4. CASE \E o \in Requests : WatchAlter(o)
  <2>1. PICK o \in Requests : WatchAlter(o)
    BY <1>4
  <2>2. Watching(o)
    BY <2>1 DEF WatchAlter, Watching
  <2>3. o <= last /\ side[o] \in Sides
    BY <2>2, WatcherAlone
  <2>4. side[o] = "buy" => active["buy"] = o
    BY <2>2 DEF Core, WatcherHasActive
  <2>5. SendOrder(side[o], o) /\ exch' = exch
    BY <2>1, <2>4 DEF WatchAlter, ledger
  <2> QED
    BY <2>3, <2>5, SendAnswers, Members
<1>5. CASE \E r \in Requests : ExchangeCreates(r)
  <2>1. PICK r \in Requests : ExchangeCreates(r)
    BY <1>5
  <2>2. /\ status[r] = "sent" /\ status' = [status EXCEPT ![r] = "created"]
        /\ UNCHANGED target
        /\ target[r] # 0 => exch[target[r]] \in Live
    BY <2>1 DEF ExchangeCreates
  <2>3. PICK st \in Live :
          exch' = [q \in Requests |-> IF q = r THEN st ELSE IF q = target[r] THEN "cancelled"
                                      ELSE exch[q]]
    BY <2>1 DEF ExchangeCreates
  <2>4. exch[r] = "absent" /\ st # "absent" /\ "cancelled" \in Final
    BY <2>2 DEF AnswerInv, Live, Final
  <2>5. ASSUME NEW q \in Requests
        PROVE  /\ exch'[q] # "absent" => status'[q] \in {"created", "used", "discarded"}
               /\ status'[q] = "created" => exch'[q] # "absent"
               /\ status'[q] = "doneCode" => target'[q] # 0
               /\ target'[q] # 0 => target'[q] # q
               /\ target'[q] # 0 /\ (exch'[q] # "absent" \/ status'[q] = "doneCode") =>
                    exch'[target'[q]] \in Final
    <3>1. exch[q] \in Final => exch'[q] \in Final
      BY <2>1, OrderStays
    <3>2. CASE q = r
      BY <1>0, <2>2, <2>3, <2>4, <3>2 DEF AnswerInv
    <3>3. CASE q # r
      <4>1. status'[q] = status[q] /\ target'[q] = target[q]
        BY <1>0, <2>2, <3>3
      <4>2. exch'[q] # "absent" => exch[q] # "absent" \/ q = target[r]
        BY <2>3, <3>3
      <4>3. q = target[r] => exch[q] # "absent"
        BY <1>0, <2>2, Members DEF Live
      <4>4. exch[q] # "absent" => exch'[q] # "absent"
        BY <2>1, OrderStays
      <4>5. target[q] # 0 /\ exch[target[q]] \in Final => exch'[target[q]] \in Final
        BY <1>0, <2>1, OrderStays
      <4> QED
        BY <4>1, <4>2, <4>3, <4>4, <4>5 DEF AnswerInv
    <3> QED
      BY <3>2, <3>3
  <2> QED
    BY <2>5 DEF AnswerInv
<1>6. CASE \E r \in Requests : ExchangeRefuses(r)
  <2>1. PICK r \in Requests : ExchangeRefuses(r)
    BY <1>6
  <2>2. status[r] = "sent" /\ UNCHANGED <<target, exch>>
    BY <2>1 DEF ExchangeRefuses, ledger
  <2>3. PICK a \in {"tooSmall", "doneCode", "error"} :
          /\ a = "doneCode" => target[r] # 0 /\ exch[target[r]] \in Final
          /\ status' = [status EXCEPT ![r] = a]
    BY <2>1 DEF ExchangeRefuses
  <2> QED
    BY <1>0, <2>2, <2>3 DEF AnswerInv
<1> QED
  BY <1>1, <1>2, <1>3, <1>4, <1>5, <1>6, WireSteps

(* What is known of orders.                                                *)

LEMMA Ranks ==
  /\ \A st \in OrderStates : Rank(st) \in 0..3 /\ (Rank(st) = 0 <=> st = "absent")
  /\ \A st \in OrderStates : Rank(st) >= 2 <=> st \in {"active"} \cup Final
  BY DEF Rank, OrderStates, Final

\* An order's stored state.
LEMMA StoredStays ==
  ASSUME TypeOK, KnownInv, [Next]_vars, NEW o \in Requests
  PROVE  /\ Stored(o) => Stored(o)'
         /\ backwards => backwards'
         /\ stored'[o] # stored[o] => /\ stored'[o] \in Final => exch[o] = stored'[o]
                                      /\ exch' = exch /\ stored'[o] # "absent"
         /\ ~backwards' /\ stored[o] \in {"active"} \cup Final =>
              stored'[o] \in {"active"} \cup Final
<1>0. /\ stored \in [Requests -> OrderStates] /\ backwards \in BOOLEAN
      /\ reported \in [Requests -> OrderStates]
  BY DEF TypeOK, LedgerOK
<1>1. CASE UNCHANGED <<stored, backwards>>
  BY <1>1 DEF Stored
<1>2. ASSUME NEW p \in Requests, NEW st \in OrderStates, Upsert(p, st), st # "absent",
             st \in Final => exch[p] = st, exch' = exch
      PROVE  /\ Stored(o) => Stored(o)'
             /\ backwards => backwards'
             /\ stored'[o] # stored[o] => /\ stored'[o] \in Final => exch[o] = stored'[o]
                                          /\ exch' = exch /\ stored'[o] # "absent"
             /\ ~backwards' /\ stored[o] \in {"active"} \cup Final =>
                  stored'[o] \in {"active"} \cup Final
  <2>1. CASE o = p
    <3>1. stored'[o] = st /\ backwards' = (backwards \/ Rank(st) < Rank(stored[o]))
      BY <1>0, <1>2, <2>1 DEF Upsert
    <3>2. ~backwards' => ~(Rank(st) < Rank(stored[o]))
      BY <3>1, Zenon
    <3>3. ~backwards' /\ Rank(stored[o]) >= 2 => Rank(st) >= 2
      <4>1. Rank(st) \in 0..3 /\ Rank(stored[o]) \in 0..3
        BY <1>0, Ranks
      <4> QED
        BY <3>2, <4>1
    <3> QED
      BY <1>0, <1>2, <2>1, <3>1, <3>3, Ranks DEF Stored
  <2>2. CASE o # p
    BY <1>0, <1>2, <2>2 DEF Upsert, Stored
  <2> QED
    BY <2>1, <2>2
<1>3. CASE \E p \in Requests : WatchGot(p)
  <2>1. PICK p \in Requests : WatchGot(p)
    BY <1>3
  <2>2. get[p] \in OrderStates /\ get[p] # "absent" /\ (get[p] \in Final => exch[p] = get[p])
    BY <2>1 DEF WatchGot, KnownInv
  <2> QED
    BY <1>2, <2>1, <2>2 DEF WatchGot
<1>4. CASE \E p \in Requests : Accounting(p)
  <2>1. PICK p \in Requests : Accounting(p)
    BY <1>4
  <2>2. PICK st \in OrderStates : /\ Rank(reported[p]) < Rank(st)
                                  /\ st \in Final => st = exch[p]
                                  /\ Upsert(p, st) /\ exch' = exch
    BY <2>1 DEF Accounting
  <2>3. st # "absent"
    BY <1>0, <2>2, Ranks
  <2> QED
    BY <1>2, <2>2, <2>3
<1> QED
  BY <1>1, <1>3, <1>4, StoredSteps

LEMMA KnownStep ==
  ASSUME TypeOK, Core, AnswerInv, KnownInv, [Next]_vars PROVE KnownInv'
<1>0. /\ exch \in [Requests -> OrderStates] /\ stored \in [Requests -> OrderStates]
      /\ cancel \in [Requests -> CancelStates] /\ get \in [Requests -> GetStates]
      /\ wpc \in [Requests -> WatchStates]
  BY DEF TypeOK, LedgerOK, CallsOK, WatchersOK
<1> SUFFICES ASSUME NEW o \in Requests
             PROVE  /\ stored'[o] \in Final => exch'[o] = stored'[o]
                    /\ get'[o] \in Final => exch'[o] = get'[o]
                    /\ cancel'[o] = "ok" => exch'[o] = "cancelled"
                    /\ get'[o] # "absent"
                    /\ wpc'[o] # "none" \/ get'[o] # "none" => exch'[o] # "absent"
                    /\ wpc'[o] \in {"altered", "cancelling"} => Stored(o)'
  BY DEF KnownInv
<1>1. /\ exch[o] \in Final => exch'[o] = exch[o]
      /\ exch[o] # "absent" => exch'[o] # "absent"
  BY OrderStays
<1>2. stored'[o] \in Final => exch'[o] = stored'[o]
  BY <1>1, StoredStays DEF KnownInv
<1>3. /\ get'[o] \in Final => exch'[o] = get'[o]
      /\ get'[o] # "absent"
      /\ get'[o] # "none" => exch'[o] # "absent"
  <2>1. CASE get'[o] = get[o]
    BY <1>1, <2>1 DEF KnownInv
  <2>2. CASE \E p \in Requests : WatchGet(p)
    BY <1>0, <1>1, <2>2 DEF WatchGet, KnownInv, Final
  <2>3. CASE \E p \in Requests : WatchGot(p)
    BY <1>0, <1>1, <2>3 DEF WatchGot, KnownInv, Final
  <2>4. CASE \E p \in Requests : ExchangeGets(p)
    BY <1>0, <1>1, <2>4 DEF ExchangeGets, ledger, KnownInv, Final
  <2> QED
    BY <2>1, <2>2, <2>3, <2>4, CallSteps
<1>4. cancel'[o] = "ok" => exch'[o] = "cancelled"
  <2>1. CASE cancel'[o] = cancel[o]
    BY <1>1, <2>1 DEF KnownInv, Final
  <2>2. CASE ListenerCancelled \/ ListenerCancelFails
    BY <1>0, <1>1, <2>2 DEF ListenerCancelled, ListenerCancelFails, KnownInv, Final
  <2>3. CASE \E p \in Requests : ListenerTooSmall(p)
    <3>1. PICK p \in Requests : ListenerTooSmall(p)
      BY <2>3
    <3>2. cancel' \in {cancel, [cancel EXCEPT ![prev[side[p]]] = "sent"]}
      BY <3>1 DEF ListenerTooSmall
    <3> QED
      BY <1>0, <1>1, <3>2 DEF KnownInv, Final
  <2>4. CASE \E p \in Requests : WatchCancel(p) \/ WatchCancelled(p) \/ WatchCancelDone(p)
    BY <1>0, <1>1, <2>4 DEF WatchCancel, WatchCancelled, WatchCancelDone, KnownInv, Final
  <2>5. CASE \E p \in Requests : ExchangeCancels(p)
    <3>1. PICK p \in Requests : ExchangeCancels(p)
      BY <2>5
    <3>2. CASE p = o
      BY <1>0, <3>1, <3>2 DEF ExchangeCancels
    <3>3. CASE p # o
      BY <1>0, <1>1, <3>1, <3>3 DEF ExchangeCancels, KnownInv, Final
    <3> QED
      BY <3>2, <3>3
  <2> QED
    BY <2>1, <2>2, <2>3, <2>4, <2>5, CallSteps
<1>5. wpc'[o] # "none" => exch'[o] # "absent"
  <2>1. CASE \E p \in Requests : ListenerAdopt(p)
    <3>1. PICK p \in Requests : ListenerAdopt(p)
      BY <2>1
    <3>2. status[p] = "created" /\ wpc' = [wpc EXCEPT ![p] = "watch"]
      BY <3>1 DEF ListenerAdopt, Takes
    <3>3. exch[p] # "absent"
      BY <3>2 DEF AnswerInv
    <3> QED
      BY <1>0, <1>1, <3>2, <3>3 DEF KnownInv
  <2>2. CASE wpc[o] # "none" \/ wpc'[o] = wpc[o]
    BY <1>1, <2>2 DEF KnownInv
  <2>3. (\A p \in Requests : ~ListenerAdopt(p)) => wpc[o] # "none" \/ wpc'[o] = wpc[o]
    BY <1>0, WatcherSteps DEF WatchAlter, WatchStore, WatchCancel, WatchCancelled,
       WatchCancelDone, WatchDone, WatchGone, WatchGet, WatchGot, WatchFails, WatchStop
  <2> QED
    BY <2>1, <2>2, <2>3
<1>6. wpc'[o] \in {"altered", "cancelling"} => Stored(o)'
  <2>1. Stored(o) => Stored(o)'
    BY StoredStays
  <2>2. \/ wpc'[o] \notin {"altered", "cancelling"} \/ wpc'[o] = wpc[o]
        \/ stored[o] = "active"
    BY <1>0, WatcherSteps DEF ListenerAdopt, WatchAlter, WatchStore, WatchCancel,
       WatchCancelled, WatchCancelDone, WatchDone, WatchGone, WatchGet, WatchGot,
       WatchFails, WatchStop
  <2> QED
    BY <2>1, <2>2 DEF KnownInv, Stored
<1> QED
  BY <1>2, <1>3, <1>4, <1>5, <1>6

(* Who acts, and what is under way then.                                   *)

\* One flag, and nothing else.
LEMMA NeedAlone ==
  ASSUME TypeOK, Core, NEW s \in Sides, need[s]
  PROVE  /\ ~Idle(s) /\ Token(s)
         /\ \A t \in Sides : req[t] = 0
         /\ \A t \in Sides \ {s} : ~need[t]
         /\ dpc # "sent" /\ lpc # "cancelling"
         /\ \A o \in Requests : ~Watching(o)
<1>1. ~Idle(s) /\ Token(s)
  BY DEF Idle, Core, TokenInv
<1>2. \A t \in Sides \ {s} : Idle(t)
  BY <1>1, Turn DEF Core
<1>3. \A t \in Sides : ~Sending(t) /\ req[t] = 0 /\ NoWatcher(t)
  BY <1>1, <1>2 DEF Token, Idle
<1>4. dpc # "sent" /\ lpc # "cancelling"
  BY <1>3 DEF Sending, Core, BoundInv, TypeOK, WireOK
<1>5. \A o \in Requests : ~Watching(o)
  BY <1>3 DEF NoWatcher, TypeOK, WireOK
<1> QED
  BY <1>1, <1>2, <1>3, <1>4, <1>5 DEF Idle

\* A request that is under way is the only one, and there is no flag up.
LEMMA OneOnTheWay ==
  ASSUME TypeOK, Core, WayInv, NEW r \in Requests, Pending(r)
  PROVE  /\ side[r] \in Sides /\ ~Idle(side[r])
         /\ \A s \in Sides : ~need[s]
         /\ \A s \in Sides : req[s] # 0 => r = req[s] /\ s = side[r]
         /\ dpc = "sent" => r = dreq
         /\ \A o \in Requests : Watching(o) => /\ wpc[o] = "altered" /\ r = wreq[o]
                                               /\ side[o] = side[r]
<1>0. side[r] \in Sides
  BY DEF TypeOK, WireOK
<1>1. CASE r = req[side[r]]
  <2>1. req[side[r]] # 0
    BY <1>1, Members
  <2> QED
    BY <1>0, <1>1, <2>1, RequestAlone
<1>2. CASE dpc = "sent" /\ r = dreq
  BY <1>0, <1>2, SenderAlone
<1>3. CASE \E o \in Requests : wpc[o] = "altered" /\ r = wreq[o]
  <2>1. PICK o \in Requests : wpc[o] = "altered" /\ r = wreq[o]
    BY <1>3
  <2>2. Watching(o) /\ side[r] = side[o]
    BY <2>1 DEF Watching, WayInv
  <2> QED
    BY <1>0, <2>1, <2>2, WatcherAlone
<1> QED
  BY <1>1, <1>2, <1>3 DEF WayInv

\* The listener has used the answer to r: nothing is under way any more.
LEMMA Taken ==
  ASSUME TypeOK, Core, WayInv, NEW r \in Requests,
         ListenerAdopt(r) \/ ListenerTooSmall(r) \/ ListenerDoneCode(r)
  PROVE  /\ side[r] \in Sides /\ req[side[r]] = r /\ r # 0 /\ ~Idle(side[r])
         /\ lpc = "idle"
         /\ \A s \in Sides : ~need[s]
         /\ \A s \in Sides \ {side[r]} : req[s] = 0
         /\ dpc # "sent"
         /\ \A o \in Requests : ~Watching(o)
         /\ status' = [status EXCEPT ![r] = "used"]
         /\ \A q \in Requests : ~Pending(q)'
         /\ UNCHANGED <<exch, stored, backwards, last, side, target, dpc, dreq, failed>>
<1>1. PICK a \in {"created", "tooSmall", "doneCode"} : Takes(r, a)
  BY DEF ListenerAdopt, ListenerTooSmall, ListenerDoneCode
<1>2. /\ side[r] \in Sides /\ req[side[r]] = r /\ r # 0 /\ lpc = "idle" /\ status[r] = a
  BY <1>1, Holder
<1>3. /\ ~Idle(side[r]) /\ dpc # "sent"
      /\ \A s \in Sides : ~need[s]
      /\ \A s \in Sides \ {side[r]} : req[s] = 0
      /\ \A o \in Requests : ~Watching(o)
  BY <1>2, RequestAlone
<1>4. status' = [status EXCEPT ![r] = "used"] /\ UNCHANGED <<last, side, target>>
  BY <1>1 DEF Takes
<1>5. \A q \in Requests : ~Pending(q)'
  <2>1. \A q \in Requests : Pending(q) => q = r
    BY <1>2, OneOnTheWay
  <2> QED
    BY <1>4, <2>1 DEF Pending, Answers, TypeOK, WireOK
<1>6. UNCHANGED <<exch, stored, backwards, dpc, dreq, failed>>
  BY DEF ListenerAdopt, ListenerTooSmall, ListenerDoneCode, ledger, decider
<1> QED
  BY <1>2, <1>3, <1>4, <1>5, <1>6

\* The watcher of o ends, and has sent nothing.
LEMMA Unwatched ==
  ASSUME TypeOK, Core, WayInv, NEW o \in Requests,
         WatchCancelled(o) \/ WatchDone(o) \/ WatchGone(o)
  PROVE  /\ side[o] \in Sides /\ ~Idle(side[o]) /\ Watching(o) /\ wpc[o] # "altered"
         /\ \A s \in Sides : ~need[s] /\ req[s] = 0
         /\ dpc # "sent" /\ lpc # "cancelling"
         /\ \A q \in Requests : ~Watching(q)'
         /\ \A q \in Requests : ~Pending(q)'
         /\ UNCHANGED <<exch, stored, backwards, last, side, target, status, dpc, dreq,
                        lpc, failed>>
<1>1. /\ Watching(o) /\ wpc[o] # "altered"
      /\ wpc' = [wpc EXCEPT ![o] = "stopped"]
      /\ UNCHANGED <<exch, stored, backwards, last, side, target, status, dpc, dreq, lpc, failed>>
  BY DEF WatchCancelled, WatchDone, WatchGone, Watching, ledger, wire, decider, listener
<1>2. /\ side[o] \in Sides /\ ~Idle(side[o])
      /\ \A s \in Sides : ~need[s] /\ req[s] = 0
      /\ dpc # "sent" /\ lpc # "cancelling"
  BY <1>1, WatcherAlone
<1>3. \A q \in Requests : ~Watching(q)'
  BY <1>1, WatcherEnds
<1>4. \A q \in Requests : ~Pending(q)
  BY <1>1, OneOnTheWay
<1>5. \A q \in Requests : ~Pending(q)'
  BY <1>1, <1>4 DEF Pending
<1> QED
  BY <1>1, <1>2, <1>3, <1>5

LEMMA DoneFlagsAsk ==
  ASSUME TypeOK, Core, NEW s \in Sides, NEW o \in Ids, ~Idle(s), SetDoneFlags(s, o)
  PROVE  /\ \A t \in Sides : req'[t] = 0
         /\ prev'[s] = 0 /\ \A t \in Sides \ {s} : prev'[t] = prev[t]
         /\ completed[s] = 0 /\ completed'[s] = 1
         /\ \A t \in Sides \ {s} : completed'[t] = completed[t]
         /\ orders' = orders
         /\ IF s = "buy" THEN isDone' = isDone /\ need'["sell"] ELSE isDone' /\ need' = need
<1>1. /\ prev \in [Sides -> Ids] /\ req \in [Sides -> Ids]
      /\ need \in [Sides -> BOOLEAN] /\ completed \in [Sides -> Nat]
  BY DEF TypeOK, SessionOK
<1>2. \A t \in Sides \ {s} : Idle(t)
  BY Turn DEF Core
<1>3. \A t \in Sides : req'[t] = 0
  BY <1>1, <1>2 DEF SetDoneFlags, Idle, Sides
<1>4. completed[s] = 0
  BY Turn DEF Core
<1> QED
  BY <1>1, <1>3, <1>4, Members DEF SetDoneFlags

\* The listener has cancelled the order that a refused sell order was to replace.
LEMMA PreviousCancelled ==
  ASSUME TypeOK, Core, WayInv, LordInv, ListenerCancelled, side[lord] # "buy"
  PROVE  /\ side[lord] = "sell" /\ lord \in Requests /\ cancel[lord] = "ok"
         /\ req["sell"] # 0 /\ ~Idle("sell") /\ lord = prev["sell"]
         /\ exch[req["sell"]] = "absent"
         /\ \A s \in Sides : ~need[s]
         /\ \A s \in Sides \ {"sell"} : req[s] = 0
         /\ dpc # "sent"
         /\ \A o \in Requests : ~Watching(o)
         /\ \A q \in Requests : ~Pending(q)'
         /\ SetDoneFlags("sell", lord)
         /\ UNCHANGED <<exch, stored, backwards, last, side, target, status, dpc, dreq,
                        wpc, failed>>
<1>1. /\ lpc = "cancelling" /\ cancel[lord] = "ok"
      /\ SetDoneFlags("sell", lord)
      /\ UNCHANGED <<exch, stored, backwards, last, side, target, status, dpc, dreq, wpc, failed>>
  BY DEF ListenerCancelled, ledger, wire, decider, watchers
<1>2. side[lord] = "sell" /\ req["sell"] # 0 /\ lord \in Requests
  BY <1>1 DEF Core, BoundInv, TypeOK, WireOK, Sides
<1>3. /\ ~Idle("sell") /\ dpc # "sent"
      /\ \A s \in Sides : ~need[s]
      /\ \A s \in Sides \ {"sell"} : req[s] = 0
      /\ \A o \in Requests : ~Watching(o)
  BY <1>2, RequestAlone, Members
<1>4. lord = prev["sell"] /\ exch[req["sell"]] = "absent" /\ status[req["sell"]] = "used"
  BY <1>1, <1>2 DEF LordInv
<1>5. \A q \in Requests : ~Pending(q)
  BY <1>2, <1>4, OneOnTheWay, Members DEF Pending, Answers
<1>6. \A q \in Requests : ~Pending(q)'
  BY <1>1, <1>5 DEF Pending
<1> QED
  BY <1>1, <1>2, <1>3, <1>4, <1>6

(* Requests on their way.                                                  *)

\* The active order of its side is the one its watcher alters.
LEMMA AlteringOrder ==
  ASSUME TypeOK, Core, AnswerInv, WayInv, NEW o \in Requests, WatchAlter(o)
  PROVE  /\ side[o] \in Sides /\ ~Idle(side[o]) /\ Watching(o) /\ o <= last
         /\ o # last + 1
         /\ \A s \in Sides : ~need[s] /\ req[s] = 0
         /\ dpc # "sent" /\ lpc # "cancelling"
         /\ \A q \in Requests : Watching(q) => q = o
         /\ \A q \in Requests : ~Pending(q)
         /\ SendOrder(side[o], o)
         /\ stored[o] = "active" /\ wpc[o] = "watch"
         /\ wpc' = [wpc EXCEPT ![o] = "altered"]
         /\ wreq' = [wreq EXCEPT ![o] = last + 1]
         /\ UNCHANGED <<session, decider, listener, failed, ledger>>
<1>1. Watching(o) /\ wpc[o] = "watch"
  BY DEF WatchAlter, Watching
<1>2. /\ side[o] \in Sides /\ ~Idle(side[o]) /\ o <= last
      /\ \A s \in Sides : ~need[s] /\ req[s] = 0
      /\ dpc # "sent" /\ lpc # "cancelling"
      /\ \A q \in Requests : Watching(q) => q = o
  BY <1>1, WatcherAlone
<1>3. \A q \in Requests : ~Pending(q)
  BY <1>1, OneOnTheWay
<1>4. side[o] = "buy" => active["buy"] = o
  BY <1>1 DEF Core, WatcherHasActive
<1>5. SendOrder(side[o], o)
  BY <1>4 DEF WatchAlter
<1>6. o # last + 1
  BY <1>2, Members DEF TypeOK, WireOK
<1> QED
  BY <1>1, <1>2, <1>3, <1>5, <1>6 DEF WatchAlter

\* Nobody sends, and nothing is under way.
LEMMA NothingOnTheWay ==
  ASSUME WayInv, dpc' # "sent", UNCHANGED <<side, target>>,
         \A s \in Sides : req'[s] # 0 => req'[s] = req[s] /\ prev'[s] = prev[s],
         \A s \in Sides : req'[s] # 0 => status'[req'[s]] # "unsent",
         \A o \in Requests : wpc'[o] # "altered" /\ ~Pending(o)'
  PROVE  WayInv'
<1>1. \A s \in Sides : req'[s] # 0 => /\ side'[req'[s]] = s /\ status'[req'[s]] # "unsent"
                                      /\ target'[req'[s]] \in {0, prev'[s]}
  BY DEF WayInv
<1> QED
  BY <1>1 DEF WayInv

LEMMA WayStep ==
  ASSUME TypeOK, Core, AnswerInv, WayInv, LordInv, [Next]_vars PROVE WayInv'
<1>0. /\ req \in [Sides -> Ids] /\ prev \in [Sides -> Ids]
      /\ wpc \in [Requests -> WatchStates] /\ wreq \in [Requests -> Ids]
      /\ status \in [Requests -> Statuses] /\ side \in [Requests -> Sides]
  BY DEF TypeOK, SessionOK, WatchersOK, WireOK
<1>1. CASE Quiet
  <2>1. \A s \in Sides : req[s] # 0 => req[s] \in Requests
    BY <1>0, Members
  <2>2. dpc = "sent" => dreq \in Requests
    BY DEF Core, BoundInv
  <2>3. \A o \in Requests : wreq[o] # 0 => wreq[o] \in Requests
    BY <1>0, Members
  <2>4. \A s \in Sides : req'[s] # 0 => /\ side'[req'[s]] = s /\ status'[req'[s]] # "unsent"
                                        /\ target'[req'[s]] \in {0, prev'[s]}
    BY <1>1, <2>1 DEF Quiet, WayInv
  <2>5. dpc' = "sent" => target'[dreq'] = 0 /\ status'[dreq'] # "unsent"
    BY <1>1, <2>2 DEF Quiet, WayInv
  <2>6. \A o \in Requests : wpc'[o] = "altered" =>
          /\ wreq'[o] # 0 /\ status'[wreq'[o]] # "unsent"
          /\ side'[wreq'[o]] = side'[o] /\ target'[wreq'[o]] = o
    BY <1>1, <2>3 DEF Quiet, WayInv
  <2>7. \A r \in Requests : Pending(r)' =>
          \/ r = req'[side'[r]]
          \/ dpc' = "sent" /\ r = dreq'
          \/ \E o \in Requests : wpc'[o] = "altered" /\ r = wreq'[o]
    BY <1>1 DEF Quiet, WayInv
  <2> QED
    BY <2>4, <2>5, <2>6, <2>7 DEF WayInv
<1>2. ASSUME NEW s \in Sides, DeciderSend(s) PROVE WayInv'
  <2>1. /\ need[s] /\ SendOrder(s, 0) /\ dpc' = "sent" /\ dreq' = last + 1
        /\ UNCHANGED <<req, prev, wpc, wreq>>
    BY <1>2 DEF DeciderSend, watchers
  <2>2. /\ \A t \in Sides : req[t] = 0
        /\ \A o \in Requests : wpc[o] # "altered"
    BY <2>1, NeedAlone DEF Watching
  <2>3. \A q \in Requests : ~Pending(q)
    BY <2>1, OneOnTheWay
  <2>4. /\ target'[last + 1] = 0 /\ status'[last + 1] = "sent"
        /\ \A r \in Requests \ {last + 1} : status'[r] = status[r]
    BY <2>1, NewRequest, Members
  <2>5. \A r \in Requests : Pending(r)' => r = last + 1
    BY <2>3, <2>4 DEF Pending
  <2> QED
    BY <2>1, <2>2, <2>4, <2>5 DEF WayInv
<1>3. ASSUME NEW s \in Sides, DeciderSendFails(s) PROVE WayInv'
  <2>1. need[s] /\ dpc' # "sent" /\ UNCHANGED <<req, prev, wpc, side, target, status>>
    BY <1>3 DEF DeciderSendFails, watchers, wire
  <2>2. /\ \A t \in Sides : req[t] = 0
        /\ \A o \in Requests : wpc[o] # "altered"
    BY <2>1, NeedAlone DEF Watching
  <2>3. \A q \in Requests : ~Pending(q)
    BY <2>1, OneOnTheWay
  <2> QED
    BY <2>1, <2>2, <2>3, NothingOnTheWay DEF Pending
<1>4. CASE DeciderStore
  <2>1. /\ dpc = "sent" /\ req' = [req EXCEPT ![side[dreq]] = dreq] /\ dpc' = "idle"
        /\ UNCHANGED <<prev, wpc, wreq, side, target, status>>
    BY <1>4 DEF DeciderStore, watchers, wire
  <2>2. /\ dreq \in Requests /\ side[dreq] \in Sides
        /\ \A t \in Sides : ~need[t] /\ req[t] = 0
        /\ \A o \in Requests : ~Watching(o)
    BY <2>1, SenderAlone
  <2>3. \A q \in Requests : Pending(q) => q = dreq
    BY <2>1, OneOnTheWay
  <2>4. target[dreq] = 0 /\ status[dreq] # "unsent"
    BY <2>1 DEF WayInv
  <2>5. \A t \in Sides : req'[t] # 0 => t = side[dreq] /\ req'[t] = dreq
    BY <1>0, <2>1, <2>2
  <2>6. req'[side[dreq]] = dreq
    BY <1>0, <2>1, <2>2
  <2>7. \A o \in Requests : wpc[o] # "altered"
    BY <2>2 DEF Watching
  <2> QED
    BY <2>1, <2>3, <2>4, <2>5, <2>6, <2>7 DEF WayInv, Pending
<1>5. ASSUME NEW r \in Requests,
             ListenerAdopt(r) \/ ListenerTooSmall(r) \/ ListenerDoneCode(r)
      PROVE  WayInv'
  <2>1. /\ side[r] \in Sides /\ req[side[r]] = r /\ r # 0 /\ ~Idle(side[r])
        /\ \A s \in Sides \ {side[r]} : req[s] = 0
        /\ dpc # "sent"
        /\ \A o \in Requests : ~Watching(o)
        /\ status' = [status EXCEPT ![r] = "used"]
        /\ \A q \in Requests : ~Pending(q)'
        /\ UNCHANGED <<side, target, dpc>>
    BY <1>5, Taken
  <2>2. \A s \in Sides : req'[s] = 0 \/ (req'[s] = req[s] /\ prev'[s] = prev[s])
    <3>1. CASE ListenerAdopt(r)
      BY <1>0, <2>1, <3>1 DEF ListenerAdopt
    <3>2. CASE UNCHANGED session
      BY <3>2 DEF session
    <3>3. CASE SetDoneFlags(side[r], prev[side[r]])
      <4>1. prev[side[r]] \in Ids
        BY <1>0, <2>1
      <4>2. \A s \in Sides : req'[s] = 0
        BY <2>1, <3>3, <4>1, DoneFlagsAsk
      <4> QED
        BY <4>2
    <3>4. CASE req' = [req EXCEPT ![side[r]] = 0] /\ UNCHANGED prev
      BY <1>0, <2>1, <3>4
    <3> QED
      BY <1>5, <3>1, <3>2, <3>3, <3>4 DEF ListenerTooSmall, ListenerDoneCode
  <2>3. \A s \in Sides : req[s] # 0 => req[s] = r
    BY <2>1
  <2>4. \A s \in Sides : req'[s] # 0 => status'[req'[s]] # "unsent"
    BY <1>0, <2>1, <2>2, <2>3
  <2>5. \A o \in Requests : wpc'[o] # "altered"
    <3>1. \A o \in Requests : wpc[o] # "altered"
      BY <2>1 DEF Watching
    <3>2. wpc' = wpc \/ wpc' = [wpc EXCEPT ![r] = "watch"]
      BY <1>5 DEF ListenerAdopt, ListenerTooSmall, ListenerDoneCode, watchers
    <3> QED
      BY <1>0, <3>1, <3>2
  <2> QED
    BY <2>1, <2>2, <2>4, <2>5, NothingOnTheWay
<1>6. CASE ListenerCancelled /\ side[lord] # "buy"
  <2>1. /\ lord \in Requests /\ ~Idle("sell") /\ SetDoneFlags("sell", lord)
        /\ dpc' # "sent" /\ UNCHANGED <<side, target, wpc>>
        /\ \A q \in Requests : ~Pending(q)' /\ ~Watching(q)
    BY <1>6, PreviousCancelled
  <2>2. \A s \in Sides : req'[s] = 0
    BY <2>1, DoneFlagsAsk, Members
  <2> QED
    BY <2>1, <2>2, NothingOnTheWay DEF Watching
<1>7. ASSUME NEW o \in Requests, WatchAlter(o) PROVE WayInv'
  <2>1. /\ side[o] \in Sides
        /\ o # last + 1
        /\ \A s \in Sides : req'[s] = 0
        /\ dpc' # "sent"
        /\ \A q \in Requests : wpc[q] = "altered" => q = o
        /\ \A q \in Requests : ~Pending(q)
        /\ SendOrder(side[o], o)
        /\ wpc' = [wpc EXCEPT ![o] = "altered"]
        /\ wreq' = [wreq EXCEPT ![o] = last + 1]
    BY <1>7, AlteringOrder DEF session, decider, Watching
  <2>2. /\ last + 1 \in Requests /\ side'[last + 1] = side[o] /\ target'[last + 1] = o
        /\ status'[last + 1] = "sent"
        /\ \A r \in Requests \ {last + 1} : side'[r] = side[r] /\ status'[r] = status[r]
    BY <2>1, NewRequest, Members
  <2>3. \A r \in Requests : Pending(r)' => r = last + 1
    BY <2>1, <2>2 DEF Pending
  <2>4. \A q \in Requests : wpc'[q] = "altered" => q = o /\ wreq'[q] = last + 1
    BY <1>0, <2>1
  <2>5. wpc'[o] = "altered" /\ wreq'[o] = last + 1 /\ side'[o] = side[o]
    BY <1>0, <2>1, <2>2
  <2>6. last + 1 # 0
    BY <2>2, Members
  <2> QED
    BY <2>1, <2>2, <2>3, <2>4, <2>5, <2>6 DEF WayInv
<1>8. ASSUME NEW o \in Requests, WatchStore(o) PROVE WayInv'
  <2>1. /\ wpc[o] = "altered" /\ Watching(o)
        /\ prev' = [prev EXCEPT ![side[o]] = o]
        /\ req' = [req EXCEPT ![side[o]] = wreq[o]]
        /\ wpc' = [wpc EXCEPT ![o] = "stopped"]
        /\ UNCHANGED <<dpc, dreq, side, target, status>>
    BY <1>8 DEF WatchStore, Watching, decider, wire
  <2>2. /\ side[o] \in Sides
        /\ \A s \in Sides : ~need[s] /\ req[s] = 0
        /\ dpc # "sent"
    BY <2>1, WatcherAlone
  <2>3. \A q \in Requests : wpc'[q] # "altered"
    BY <2>1, WatcherEnds DEF Watching
  <2>4. /\ wreq[o] # 0 /\ status[wreq[o]] # "unsent"
        /\ side[wreq[o]] = side[o] /\ target[wreq[o]] = o
    BY <2>1 DEF WayInv
  <2>5. \A q \in Requests : Pending(q) => q = wreq[o]
    BY <2>1, OneOnTheWay
  <2>6. \A t \in Sides : req'[t] # 0 => t = side[o] /\ req'[t] = wreq[o] /\ prev'[t] = o
    BY <1>0, <2>1, <2>2
  <2>7. req'[side[o]] = wreq[o]
    BY <1>0, <2>1, <2>2
  <2> QED
    BY <2>1, <2>2, <2>3, <2>4, <2>5, <2>6, <2>7 DEF WayInv, Pending
<1>9. ASSUME NEW o \in Requests, WatchCancelled(o) \/ WatchDone(o) \/ WatchGone(o)
      PROVE  WayInv'
  <2>1. /\ side[o] \in Sides /\ ~Idle(side[o])
        /\ \A s \in Sides : req[s] = 0
        /\ dpc # "sent"
        /\ \A q \in Requests : ~Watching(q)'
        /\ \A q \in Requests : ~Pending(q)'
        /\ UNCHANGED <<side, target, dpc>>
    BY <1>9, Unwatched
  <2>2. \A s \in Sides : req'[s] = 0
    BY <1>9, <2>1, DoneFlagsAsk, Members DEF WatchCancelled, WatchDone, WatchGone, Reopen
  <2> QED
    BY <2>1, <2>2, NothingOnTheWay DEF Watching
<1> QED
  BY <1>1, <1>2, <1>3, <1>4, <1>5, <1>6, <1>7, <1>8, <1>9, QuietOrLoud DEF Loud

(* While the listener cancels, and at the end.                             *)

LEMMA LordStep ==
  ASSUME TypeOK, Core, AnswerInv, WayInv, LordInv, [Next]_vars PROVE LordInv'
<1>1. CASE Quiet
  <2> SUFFICES ASSUME lpc' = "cancelling" PROVE LordInv'
    BY DEF LordInv
  <2> DEFINE q == req[side[lord]]
  <2>1. lpc = "cancelling" /\ lord' = lord /\ UNCHANGED <<prev, side, req>>
    BY <1>1 DEF Quiet
  <2>2. q # 0 /\ side[lord] \in Sides
    BY <2>1 DEF Core, BoundInv, TypeOK, WireOK
  <2>3. q \in Requests
    BY <2>2, Members DEF TypeOK, SessionOK
  <2>4. lord = prev[side[lord]] /\ exch[q] = "absent" /\ status[q] = "used"
    BY <2>1 DEF LordInv
  <2> HIDE DEF q
  <2>5. status'[q] = "used"
    BY <1>1, <2>3, <2>4 DEF Quiet
  <2>6. exch'[q] = "absent"
    BY <2>3, <2>4, OrderStays DEF ExchangeCreates
  <2> QED
    BY <2>1, <2>4, <2>5, <2>6 DEF LordInv, q
<1>2. ASSUME NEW r \in Requests, ListenerTooSmall(r) PROVE LordInv'
  <2>1. /\ side[r] \in Sides /\ req[side[r]] = r /\ lpc = "idle"
        /\ status' = [status EXCEPT ![r] = "used"] /\ UNCHANGED <<side, exch>>
    BY <1>2, Taken
  <2>2. CASE stored[prev[side[r]]] = "active"
    <3>1. lord' = prev[side[r]] /\ UNCHANGED <<prev, req>> /\ prev[side[r]] # 0
      BY <1>2, <2>2, Members DEF ListenerTooSmall, Stored, session
    <3>2. side[lord'] = side[r]
      BY <2>1, <3>1 DEF Core, BoundInv
    <3>3. exch[r] = "absent"
      BY <1>2 DEF ListenerTooSmall, Takes, AnswerInv
    <3>4. status'[r] = "used"
      BY <2>1 DEF TypeOK, WireOK
    <3> QED
      BY <2>1, <3>1, <3>2, <3>3, <3>4 DEF LordInv
  <2>3. CASE stored[prev[side[r]]] # "active"
    BY <1>2, <2>1, <2>3 DEF ListenerTooSmall, listener, LordInv
  <2> QED
    BY <2>2, <2>3
<1>3. CASE \E r \in Requests : ListenerAdopt(r) \/ ListenerDoneCode(r)
  BY <1>3, Taken DEF ListenerAdopt, ListenerDoneCode, listener, LordInv
<1>4. CASE ListenerCancelled
  BY <1>4 DEF ListenerCancelled, LordInv
<1>5. CASE \E s \in Sides : DeciderSend(s) \/ DeciderSendFails(s)
  BY <1>5, NeedAlone DEF DeciderSend, DeciderSendFails, listener, LordInv
<1>6. CASE DeciderStore
  BY <1>6, SenderAlone DEF DeciderStore, listener, LordInv
<1>7. CASE \E o \in Requests : WatchAlter(o) \/ WatchStore(o)
  BY <1>7, WatcherAlone DEF WatchAlter, WatchStore, Watching, listener, LordInv
<1>8. CASE \E o \in Requests : WatchCancelled(o) \/ WatchDone(o) \/ WatchGone(o)
  BY <1>8, Unwatched DEF LordInv
<1> QED
  BY <1>1, <1>2, <1>3, <1>4, <1>5, <1>6, <1>7, <1>8, QuietOrLoud DEF Loud

\* Only the done flags complete a side.
LEMMA DoneSteps ==
  ASSUME TypeOK, Core, WayInv, LordInv, [Next]_vars
  PROVE  \/ UNCHANGED <<completed, isDone>>
         \/ \E s \in Sides, o \in Ids : ~Idle(s) /\ SetDoneFlags(s, o)
<1>0. /\ \A s \in Sides : prev[s] \in Ids
      /\ \A o \in Requests : o \in Ids
  BY Members DEF TypeOK, SessionOK
<1>1. CASE Quiet
  BY <1>1 DEF Quiet
<1>2. CASE \E r \in Requests : ListenerTooSmall(r) \/ ListenerDoneCode(r)
  BY <1>0, <1>2, Taken DEF ListenerTooSmall, ListenerDoneCode, session
<1>3. CASE ListenerCancelled /\ side[lord] # "buy"
  BY <1>0, <1>3, PreviousCancelled, Members
<1>4. CASE \E o \in Requests : WatchDone(o)
  BY <1>0, <1>4, Unwatched DEF WatchDone
<1>5. CASE \/ \E s \in Sides : DeciderSend(s) \/ DeciderSendFails(s)
           \/ DeciderStore
           \/ \E r \in Requests : \/ ListenerAdopt(r) \/ WatchAlter(r) \/ WatchStore(r)
                                  \/ WatchCancelled(r) \/ WatchGone(r)
  BY <1>5 DEF DeciderSend, DeciderSendFails, DeciderStore, ListenerAdopt, WatchAlter,
     WatchStore, WatchCancelled, WatchGone, Reopen, session
<1> QED
  BY <1>1, <1>2, <1>3, <1>4, <1>5, QuietOrLoud DEF Loud

LEMMA CompletedStays ==
  ASSUME TypeOK, Core, WayInv, LordInv, [Next]_vars
  PROVE  /\ \A s \in Sides : completed[s] = 1 => completed'[s] = 1
         /\ isDone => isDone'
<1>1. ASSUME NEW s \in Sides, NEW o \in Ids, ~Idle(s), SetDoneFlags(s, o)
      PROVE  (\A t \in Sides : completed[t] = 1 => completed'[t] = 1) /\ (isDone => isDone')
  BY <1>1, DoneFlagsAsk
<1> QED
  BY <1>1, DoneSteps

LEMMA FailedStays ==
  ASSUME [Next]_vars PROVE failed => failed'
BY DEF Next, vars, DeciderSend, DeciderSendFails, DeciderStore, DeciderStop,
      ListenerSubscribed, ListenerDiscard, ListenerAdopt, ListenerTooSmall,
      ListenerDoneCode, ListenerFails, ListenerCancelled, ListenerCancelFails,
      ListenerStop, WatchAlter, WatchStore, WatchCancel, WatchCancelled,
      WatchCancelDone, WatchDone, WatchGone, WatchGet, WatchGot, WatchFails, WatchStop,
      ExchangeCreates, ExchangeRefuses, ExchangeMoves, ExchangeCancels, ExchangeGets,
      Accounting, Interrupted

\* Somebody has the token after a step that hands it on.
LEMMA HandedOn ==
  ASSUME TypeOK, Core, AnswerInv, WayInv, LordInv, Loud
  PROVE  \/ isDone' \/ failed' \/ dpc' = "sent"
         \/ \E s \in Sides : need'[s] \/ req'[s] # 0
         \/ \E o \in Requests : Watching(o)'
<1>0. /\ req \in [Sides -> Ids] /\ need \in [Sides -> BOOLEAN] /\ wpc \in [Requests -> WatchStates]
      /\ \A s \in Sides : prev[s] \in Ids
      /\ \A o \in Requests : o \in Ids /\ side[o] \in Sides
  BY Members DEF TypeOK, SessionOK, WatchersOK, WireOK
<1>1. ASSUME NEW s \in Sides, NEW o \in Ids, ~Idle(s), SetDoneFlags(s, o)
      PROVE  isDone' \/ \E t \in Sides : need'[t]
  BY <1>1, DoneFlagsAsk, Members
<1>2. CASE \E s \in Sides : DeciderSend(s) \/ DeciderSendFails(s)
  BY <1>2 DEF DeciderSend, DeciderSendFails
<1>3. CASE DeciderStore
  <2>1. dreq \in Requests /\ side[dreq] \in Sides /\ req' = [req EXCEPT ![side[dreq]] = dreq]
    BY <1>3, SenderAlone DEF DeciderStore
  <2> QED
    BY <1>0, <2>1, Members
<1>4. CASE ListenerCancelled /\ side[lord] # "buy"
  BY <1>0, <1>1, <1>4, PreviousCancelled, Members
<1>5. CASE \E r \in Requests : ListenerAdopt(r)
  BY <1>0, <1>5 DEF ListenerAdopt, Watching
<1>6. CASE \E r \in Requests : ListenerTooSmall(r)
  BY <1>0, <1>1, <1>6, Taken DEF ListenerTooSmall, session
<1>7. CASE \E r \in Requests : ListenerDoneCode(r)
  BY <1>0, <1>1, <1>7, Taken DEF ListenerDoneCode
<1>8. CASE \E o \in Requests : WatchAlter(o)
  BY <1>0, <1>8 DEF WatchAlter, Watching
<1>9. CASE \E o \in Requests : WatchStore(o)
  BY <1>0, <1>9 DEF WatchStore, WayInv
<1>10. CASE \E o \in Requests : WatchCancelled(o) \/ WatchGone(o)
  BY <1>0, <1>10 DEF WatchCancelled, WatchGone, Reopen
<1>11. CASE \E o \in Requests : WatchDone(o)
  BY <1>0, <1>1, <1>11, Unwatched DEF WatchDone
<1> QED
  BY <1>2, <1>3, <1>4, <1>5, <1>6, <1>7, <1>8, <1>9, <1>10, <1>11 DEF Loud

LEMMA EndStep ==
  ASSUME TypeOK, Core, AnswerInv, WayInv, LordInv, EndInv, [Next]_vars PROVE EndInv'
<1>1. \A r \in 1..last' : side'[r] = "sell" => completed'["buy"] = 1
  <2>1. completed["buy"] = 1 => completed'["buy"] = 1
    BY CompletedStays, Members
  <2>2. CASE UNCHANGED <<last, side>>
    BY <2>1, <2>2 DEF EndInv
  <2>3. ASSUME NEW s \in Sides, NEW a \in Ids, SendOrder(s, a), ~Idle(s)
        PROVE  \A r \in 1..last' : side'[r] = "sell" => completed'["buy"] = 1
    <3>1. s = "sell" => completed["buy"] = 1
      BY <2>3, Turn DEF Core
    <3>2. /\ last \in Nat /\ last' = last + 1 /\ last + 1 \in Requests /\ side'[last + 1] = s
          /\ \A r \in Requests \ {last + 1} : side'[r] = side[r]
      BY <2>3, NewRequest
    <3>3. \A r \in 1..last' : r = last + 1 \/ (r \in 1..last /\ r \in Requests \ {last + 1})
      BY <3>2, MaxRequestsAssumption DEF Requests
    <3> QED
      BY <2>1, <3>1, <3>2, <3>3 DEF EndInv
  <2>4. CASE \E s \in Sides : DeciderSend(s)
    BY <2>3, <2>4, NeedAlone, Members DEF DeciderSend
  <2>5. CASE \E o \in Requests : WatchAlter(o)
    BY <2>3, <2>5, AlteringOrder, Members
  <2> QED
    BY <2>2, <2>4, <2>5, WireSteps
<1>2. isDone' => completed'["sell"] = 1
  <2>1. ASSUME NEW s \in Sides, NEW o \in Ids, ~Idle(s), SetDoneFlags(s, o)
        PROVE  isDone' => completed'["sell"] = 1
    BY <2>1, DoneFlagsAsk DEF EndInv, Sides
  <2> QED
    BY <2>1, DoneSteps DEF EndInv
<1>3. dpc' = "stopped" => isDone' \/ failed'
  <2>1. (isDone => isDone') /\ (failed => failed')
    BY CompletedStays, FailedStays
  <2>2. CASE Quiet
    BY <2>1, <2>2 DEF Quiet, EndInv
  <2>3. CASE Loud
    <3>1. dpc' = "stopped" => dpc = "stopped" \/ failed'
      BY <2>3 DEF Loud, DeciderSend, DeciderSendFails, DeciderStore, ListenerCancelled,
         ListenerAdopt, ListenerTooSmall, ListenerDoneCode, WatchAlter, WatchStore,
         WatchCancelled, WatchDone, WatchGone, decider
    <3> QED
      BY <2>1, <3>1 DEF EndInv
  <2> QED
    BY <2>2, <2>3, QuietOrLoud
<1> QED
  BY <1>1, <1>2, <1>3 DEF EndInv

LEMMA HolderStep ==
  ASSUME TypeOK, Core, AnswerInv, WayInv, LordInv, EndInv, HolderInv, [Next]_vars
  PROVE  HolderInv'
<1>1. CASE Quiet
  <2>1. CASE \E o \in Requests : Watching(o)
    BY <1>1, <2>1 DEF Quiet, EndInv, HolderInv
  <2>2. CASE ~ \E o \in Requests : Watching(o)
    BY <1>1, <2>2 DEF Quiet, HolderInv
  <2> QED
    BY <2>1, <2>2
<1> QED
  BY <1>1, HandedOn, QuietOrLoud DEF HolderInv

(* Where the orders are.                                                   *)

\* A side without the token.
LEMMA IdleLive ==
  ASSUME NEW s \in Sides, Idle(s)',
         completed'[s] = 1 /\ ~backwards' => LiveOrders(s)' = {},
         \A p, q \in LiveOrders(s)' : p = q
  PROVE  LiveAt(s)'
  BY DEF Idle, NoWatcher, LiveAt

\* A side with nothing in the market.
LEMMA EmptyLive ==
  ASSUME NEW s \in Sides, LiveOrders(s)' = {}
  PROVE  LiveAt(s)'
  BY DEF LiveAt

\* A step that hands the token on does not touch the market.
LEMMA SameLive ==
  ASSUME TypeOK, Core, AnswerInv, WayInv, LordInv, Loud
  PROVE  /\ UNCHANGED <<exch, stored, backwards>>
         /\ \A s \in Sides : LiveOrders(s)' = LiveOrders(s)
<1>1. UNCHANGED <<exch, stored, backwards>>
  BY DEF Loud, DeciderSend, DeciderSendFails, DeciderStore, ListenerCancelled,
     ListenerAdopt, ListenerTooSmall, ListenerDoneCode, WatchAlter, WatchStore,
     WatchCancelled, WatchDone, WatchGone, ledger
<1>2. ASSUME NEW s \in Sides, NEW a \in Ids, SendOrder(s, a)
      PROVE  \A o \in Requests : exch[o] \in Live => side'[o] = side[o]
  BY <1>2, NewRequest DEF Live
<1>3. \A o \in Requests : exch[o] \in Live => side'[o] = side[o]
  <2>1. CASE \E s \in Sides : DeciderSend(s)
    BY <1>2, <2>1, Members DEF DeciderSend
  <2>2. CASE \E o \in Requests : WatchAlter(o)
    BY <1>2, <2>2, AlteringOrder, Members
  <2>3. CASE UNCHANGED side
    BY <2>3
  <2> QED
    BY <2>1, <2>2, <2>3 DEF Loud, DeciderSendFails, DeciderStore, ListenerCancelled,
       ListenerAdopt, ListenerTooSmall, ListenerDoneCode, Takes, WatchStore,
       WatchCancelled, WatchDone, WatchGone, wire
<1> QED
  BY <1>1, <1>3 DEF LiveOrders

\* Before selling begins there is no sell order.
LEMMA NothingToSell ==
  ASSUME TypeOK, Core, AnswerInv, EndInv, completed["buy"] = 0
  PROVE  LiveOrders("sell") = {}
<1> SUFFICES ASSUME NEW o \in LiveOrders("sell") PROVE FALSE
  OBVIOUS
<1>1. o \in Requests /\ side[o] = "sell" /\ status[o] # "unsent"
  BY DEF LiveOrders, Live, AnswerInv
<1>2. o \in 1..last
  BY <1>1 DEF Core, BoundInv, Requests, TypeOK, WireOK, Ids
<1> QED
  BY <1>1, <1>2 DEF EndInv

\* The done flags are set for an order that is not live any more.
LEMMA DoneFlagsLive ==
  ASSUME TypeOK, Core, Core', AnswerInv, EndInv, LiveInv,
         NEW s \in Sides, NEW o \in Ids, ~Idle(s), SetDoneFlags(s, o),
         dpc' # "sent", \A q \in Requests : ~Watching(q)',
         UNCHANGED <<backwards>>, \A t \in Sides : LiveOrders(t)' = LiveOrders(t),
         ~backwards => LiveOrders(s) = {}
  PROVE  LiveInv'
<1>1. /\ completed[s] = 0 /\ completed'[s] = 1
      /\ \A t \in Sides \ {s} : completed'[t] = completed[t]
      /\ \A t \in Sides : req'[t] = 0
      /\ s = "buy" \/ need' = need
  BY DoneFlagsAsk
<1>2. \A t \in Sides : ~Sending(t)' /\ NoWatcher(t)'
  BY DEF Sending, NoWatcher
<1>3. \A t \in Sides : \A p, q \in LiveOrders(t)' : p = q
  BY DEF LiveInv, LiveAt
<1>4. LiveAt(s)'
  <2>1. Idle(s)'
    BY <1>1 DEF Core, PhaseInv, Sides
  <2> QED
    BY <1>1, <1>3, <2>1, IdleLive
<1>5. ASSUME s = "buy" PROVE LiveAt("sell")'
  BY <1>1, <1>5, NothingToSell, EmptyLive, Members
<1>6. ASSUME s = "sell" PROVE LiveAt("buy")'
  <2>1. Idle("buy") /\ completed["buy"] = 1
    BY <1>6, Turn, Members DEF Core
  <2>2. Idle("buy")'
    BY <1>1, <1>2, <1>6, <2>1, Members DEF Idle
  <2>3. completed'["buy"] = completed["buy"]
    BY <1>1, <1>6, Members
  <2>4. ~backwards => LiveOrders("buy") = {}
    BY <2>1, Members DEF LiveInv, LiveAt
  <2> QED
    BY <1>3, <2>2, <2>4, IdleLive, Members
<1> QED
  BY <1>4, <1>5, <1>6, Members DEF LiveInv

\* Wherever a step leaves the other side as it was.
LEMMA SideLive ==
  ASSUME TypeOK, Core, Core', LiveInv, NEW s \in Sides, ~Idle(s),
         completed' = completed, backwards' = backwards,
         \A t \in Sides : LiveOrders(t)' = LiveOrders(t),
         \A t \in Sides \ {s} : Idle(t)',
         LiveAt(s)'
  PROVE  LiveInv'
<1>1. ASSUME NEW t \in Sides \ {s} PROVE LiveAt(t)'
  <2>1. LiveAt(t)
    BY DEF LiveInv
  <2>2. completed'[t] = 1 /\ ~backwards' => LiveOrders(t)' = {}
    BY <2>1 DEF LiveAt
  <2>3. \A p, q \in LiveOrders(t)' : p = q
    BY <2>1 DEF LiveAt
  <2> QED
    BY <2>2, <2>3, IdleLive
<1> QED
  BY <1>1 DEF LiveInv

\* The other side after a step that leaves this one busy.
LEMMA OtherIdle ==
  ASSUME Core', NEW s \in Sides, ~Idle(s)' PROVE \A t \in Sides \ {s} : Idle(t)'
  BY DEF Core, PhaseInv, Sides

\* Requests that are under way bring no order beside the one they replace.
LEMMA RoomForOne ==
  ASSUME TypeOK, Core, WayInv, LiveInv, NEW r \in Requests, Pending(r)
  PROVE  LiveOrders(side[r]) \subseteq {r, target[r]}
<1>0. side[r] \in Sides
  BY DEF TypeOK, WireOK
<1>1. CASE r = req[side[r]]
  BY <1>0, <1>1, Members DEF LiveInv, LiveAt
<1>2. CASE dpc = "sent" /\ r = dreq
  BY <1>0, <1>2 DEF LiveInv, LiveAt, Sending
<1>3. CASE \E o \in Requests : wpc[o] = "altered" /\ r = wreq[o]
  BY <1>0, <1>3 DEF LiveInv, LiveAt, WayInv, Watching
<1> QED
  BY <1>1, <1>2, <1>3 DEF WayInv

\* The market without a new order.
LEMMA QuietLive ==
  ASSUME TypeOK, Core, AnswerInv, KnownInv, LiveInv, [Next]_vars, Quiet,
         NEW s \in Sides, \A r \in Requests : ~ (ExchangeCreates(r) /\ side[r] = s)
  PROVE  LiveAt(s)'
<1>1. LiveOrders(s)' \subseteq LiveOrders(s)
  BY OrderStays DEF LiveOrders, Quiet
<1>2. LiveAt(s) /\ (backwards => backwards')
  <2>1. CASE Requests = {}
    <3>1. ~ (\E r \in Requests : WatchGot(r) \/ Accounting(r))
      BY <2>1
    <3> QED
      BY <3>1, StoredSteps DEF LiveInv
  <2>2. CASE \E r \in Requests : TRUE
    BY <2>2, StoredStays DEF LiveInv
  <2> QED
    BY <2>1, <2>2
<1>3. UNCHANGED <<need, req, completed, side, dreq, target, wreq>>
  BY DEF Quiet
<1>4. need'[s] => LiveOrders(s)' = {}
  BY <1>1, <1>2, <1>3 DEF LiveAt
<1>5. Sending(s)' => LiveOrders(s)' \subseteq {dreq'}
  <2>1. Sending(s)' => Sending(s)
    BY DEF Quiet, Sending
  <2> QED
    BY <1>1, <1>2, <1>3, <2>1 DEF LiveAt
<1>6. req'[s] # 0 => LiveOrders(s)' \subseteq {req'[s], target'[req'[s]]}
  BY <1>1, <1>2, <1>3 DEF LiveAt
<1>7. \A o \in Requests : side'[o] = s /\ Watching(o)' =>
        LiveOrders(s)' \subseteq IF wpc'[o] = "altered" THEN {o, wreq'[o]} ELSE {o}
  <2>1. \A o \in Requests : (Watching(o)' => Watching(o))
                            /\ (wpc'[o] = "altered" <=> wpc[o] = "altered")
    BY DEF Quiet
  <2> QED
    BY <1>1, <1>2, <1>3, <2>1 DEF LiveAt
<1>8. completed'[s] = 1 /\ ~backwards' => LiveOrders(s)' = {}
  BY <1>1, <1>2, <1>3 DEF LiveAt
<1>9. \A p, q \in LiveOrders(s)' : p = q
  BY <1>1, <1>2 DEF LiveAt
<1> QED
  BY <1>4, <1>5, <1>6, <1>7, <1>8, <1>9 DEF LiveAt

\* A new order, alone on its side.
LEMMA CreateLive ==
  ASSUME TypeOK, Core, Core', AnswerInv, WayInv, LiveInv, NEW r \in Requests, ExchangeCreates(r)
  PROVE  LiveAt(side[r])'
<1>0. PICK s \in Sides : s = side[r]
  BY DEF TypeOK, WireOK
<1>1. /\ status[r] = "sent"
      /\ UNCHANGED <<need, active, prev, req, orders, completed, isDone, dpc, dreq,
                     wpc, wreq, side, target, backwards>>
  BY DEF ExchangeCreates, session, decider, watchers
<1>2. Pending(r)
  BY <1>1 DEF Pending
<1>3. /\ s \in Sides /\ ~Idle(s)
      /\ ~need[s]
      /\ req[s] # 0 => r = req[s]
      /\ dpc = "sent" => r = dreq
      /\ \A o \in Requests : Watching(o) => wpc[o] = "altered" /\ r = wreq[o]
  BY <1>0, <1>2, OneOnTheWay
<1>4. PICK st \in Live :
        exch' = [q \in Requests |-> IF q = r THEN st ELSE IF q = target[r] THEN "cancelled"
                                    ELSE exch[q]]
  BY DEF ExchangeCreates
<1>5. LiveOrders(s)' \subseteq {r}
  <2>1. LiveOrders(s) \subseteq {r, target[r]}
    BY <1>0, <1>2, RoomForOne
  <2>2. ASSUME NEW q \in Requests, side'[q] = s, exch'[q] \in Live PROVE q = r
    <3>1. CASE q # r /\ q = target[r]
      BY <1>4, <2>2, <3>1 DEF Live
    <3>2. CASE q # r /\ q # target[r]
      BY <1>1, <1>4, <2>1, <2>2, <3>2 DEF LiveOrders
    <3> QED
      BY <3>1, <3>2
  <2>3. LiveOrders(s)' = {q \in Requests : side'[q] = s /\ exch'[q] \in Live}
    BY <1>1 DEF LiveOrders
  <2> QED
    BY <2>2, <2>3
<1>6. completed[s] = 0
  BY <1>3, Turn DEF Core
<1>7. \A o \in Requests : Watching(o)' <=> Watching(o)
  BY <1>1 DEF Watching
<1>8. LiveAt(s)'
  <2>1. ~need'[s] /\ completed'[s] # 1
    BY <1>1, <1>3, <1>6
  <2>2. Sending(s)' => LiveOrders(s)' \subseteq {dreq'}
    BY <1>1, <1>3, <1>5 DEF Sending
  <2>3. req'[s] # 0 => LiveOrders(s)' \subseteq {req'[s], target'[req'[s]]}
    BY <1>1, <1>3, <1>5
  <2>4. \A o \in Requests : Watching(o)' => wpc'[o] = "altered" /\ wreq'[o] = r
    BY <1>1, <1>3, <1>7
  <2>5. \A p, q \in LiveOrders(s)' : p = q
    BY <1>5
  <2> QED
    BY <1>5, <2>1, <2>2, <2>3, <2>4, <2>5 DEF LiveAt
<1> QED
  BY <1>0, <1>1, <1>8

LEMMA LoudLive ==
  ASSUME TypeOK, TypeOK', Core, Core', AnswerInv, KnownInv, WayInv, LordInv, EndInv, LiveInv,
         StoredInv, Loud
  PROVE  LiveInv'
<1>0. /\ req \in [Sides -> Ids] /\ need \in [Sides -> BOOLEAN] /\ wpc \in [Requests -> WatchStates]
      /\ wreq \in [Requests -> Ids]
      /\ \A s \in Sides : prev[s] \in Ids /\ LiveAt(s) /\ \A p, q \in LiveOrders(s) : p = q
      /\ \A o \in Requests : o \in Ids /\ side[o] \in Sides
  BY Members DEF TypeOK, SessionOK, WatchersOK, WireOK, LiveInv, LiveAt
<1>a. /\ UNCHANGED <<exch, stored, backwards>>
      /\ \A s \in Sides : LiveOrders(s)' = LiveOrders(s)
  BY SameLive
<1>b. \A s \in Sides : \A o \in LiveOrders(s) : exch[o] \in Live /\ exch[o] # "absent"
                                                /\ exch[o] \notin Final
  BY DEF LiveOrders, Live, Final
\* The listener's previous order and the refused one are both out of the market.
<1>c. ASSUME NEW r \in Requests, req[side[r]] = r, exch[r] \notin Live,
             target[r] # 0 => exch[target[r]] \notin Live
      PROVE  LiveOrders(side[r]) = {}
  <2>1. r # 0 /\ LiveAt(side[r])
    BY <1>0, Members
  <2>2. LiveOrders(side[r]) \subseteq {r, target[r]}
    BY <1>c, <2>1 DEF LiveAt
  <2>3. 0 \notin Requests
    BY Members
  <2> QED
    BY <1>c, <2>2, <2>3 DEF LiveOrders
<1>1. ASSUME NEW s \in Sides, DeciderSend(s) PROVE LiveInv'
  <2>1. need[s] /\ dpc' = "sent" /\ dreq' = last + 1 /\ UNCHANGED completed /\ SendOrder(s, 0)
    BY <1>1 DEF DeciderSend
  <2>2. LiveOrders(s) = {} /\ ~Idle(s)
    BY <1>0, <2>1, NeedAlone DEF LiveAt
  <2>3. LiveAt(s)'
    BY <1>a, <2>2, EmptyLive
  <2>4. ~Idle(s)'
    BY <2>1, NewRequest, Members DEF Idle, Sending
  <2> QED
    BY <1>a, <2>1, <2>2, <2>3, <2>4, OtherIdle, SideLive
<1>2. ASSUME NEW s \in Sides, DeciderSendFails(s) PROVE LiveInv'
  <2>1. /\ need[s] /\ need' = [need EXCEPT ![s] = FALSE]
        /\ dpc' # "sent" /\ UNCHANGED <<completed, req, wpc, side>>
    BY <1>2 DEF DeciderSendFails, watchers, wire
  <2>2. LiveOrders(s) = {} /\ ~Idle(s) /\ \A t \in Sides \ {s} : ~need[t]
    BY <1>0, <2>1, NeedAlone DEF LiveAt
  <2>3. LiveAt(s)'
    BY <1>a, <2>2, EmptyLive
  <2>4. \A t \in Sides \ {s} : Idle(t)'
    <3>1. \A t \in Sides \ {s} : Idle(t)
      BY <2>2, Turn DEF Core
    <3> QED
      BY <2>1, <3>1 DEF Idle, Sending, NoWatcher, Watching
  <2> QED
    BY <1>a, <2>1, <2>2, <2>3, <2>4, SideLive
<1>3. CASE DeciderStore
  <2>0. PICK s \in Sides : s = side[dreq]
    BY <1>0, <1>3, SenderAlone DEF DeciderStore
  <2>1. /\ dpc = "sent" /\ req' = [req EXCEPT ![s] = dreq]
        /\ UNCHANGED <<completed, target, side>>
    BY <2>0, <1>3 DEF DeciderStore, wire
  <2>2. dreq \in Requests /\ dreq # 0 /\ s \in Sides /\ ~Idle(s)
    BY <2>0, <2>1, SenderAlone, Members
  <2>3. req'[s] = dreq /\ ~Idle(s)'
    BY <2>0, <1>0, <2>1, <2>2 DEF Idle
  <2>4. LiveOrders(s)' \subseteq {dreq}
    BY <2>0, <1>0, <1>a, <2>1, <2>2 DEF LiveAt, Sending
  <2>5. LiveAt(s)'
    <3>1. ~need'[s] /\ ~Sending(s)' /\ NoWatcher(s)'
      BY <2>0, <2>2, <2>3 DEF Core, TokenInv, Token
    <3>2. completed'[s] # 1
      BY <2>0, <2>1, <2>2, Turn DEF Core
    <3> QED
      BY <2>0, <2>3, <2>4, <3>1, <3>2 DEF LiveAt, NoWatcher
  <2> QED
    BY <2>0, <1>a, <2>1, <2>2, <2>3, <2>5, OtherIdle, SideLive
<1>4. CASE ListenerCancelled /\ side[lord] # "buy"
  <2> DEFINE r == req["sell"]
  <2>1. /\ lord \in Requests /\ cancel[lord] = "ok" /\ lord = prev["sell"]
        /\ r # 0 /\ exch[r] = "absent" /\ ~Idle("sell")
        /\ SetDoneFlags("sell", lord) /\ dpc' # "sent" /\ UNCHANGED wpc
        /\ \A o \in Requests : ~Watching(o)
    BY <1>4, PreviousCancelled
  <2>2. r \in Requests /\ side[r] = "sell" /\ target[r] \in {0, lord}
    BY <1>0, <2>1, Members DEF WayInv
  <2>3. exch[lord] = "cancelled"
    BY <2>1 DEF KnownInv
  <2>4. LiveOrders("sell") = {}
    BY <1>c, <2>1, <2>2, <2>3 DEF Live
  <2>5. \A o \in Requests : ~Watching(o)'
    BY <2>1 DEF Watching
  <2> QED
    BY <1>0, <1>a, <2>1, <2>4, <2>5, DoneFlagsLive, Members
<1>5. ASSUME NEW r \in Requests, ListenerAdopt(r) PROVE LiveInv'
  <2>0. PICK s \in Sides : s = side[r]
    BY <1>0
  <2>1. /\ s \in Sides /\ req[s] = r /\ r # 0 /\ ~Idle(s)
        /\ \A o \in Requests : ~Watching(o)
        /\ UNCHANGED <<side, target>>
    BY <2>0, <1>5, Taken
  <2>2. /\ status[r] = "created" /\ wpc' = [wpc EXCEPT ![r] = "watch"]
        /\ UNCHANGED completed
    BY <2>0, <1>5 DEF ListenerAdopt, Takes
  <2>3. target[r] # 0 => exch[target[r]] \in Final
    BY <2>0, <2>2 DEF AnswerInv
  <2>4. LiveOrders(s) \subseteq {r}
    <3>1. LiveOrders(s) \subseteq {r, target[r]}
      BY <2>0, <1>0, <2>1 DEF LiveAt
    <3>2. target[r] \notin LiveOrders(s)
      BY <2>3, Members DEF LiveOrders, Live, Final
    <3> QED
      BY <3>1, <3>2
  <2>5. wpc'[r] = "watch" /\ \A o \in Requests : Watching(o)' => o = r
    BY <2>0, <1>0, <2>1, <2>2 DEF Watching
  <2>6. ~NoWatcher(s)'
    BY <2>0, <2>1, <2>5 DEF NoWatcher, Watching
  <2>7. LiveAt(s)'
    <3>1. ~need'[s] /\ ~Sending(s)' /\ req'[s] = 0
      BY <2>0, <2>1, <2>6 DEF Core, TokenInv, Token
    <3>2. completed'[s] # 1
      BY <2>0, <2>1, <2>2, Turn DEF Core
    <3> QED
      BY <2>0, <1>a, <2>1, <2>4, <2>5, <3>1, <3>2 DEF LiveAt
  <2>8. ~Idle(s)'
    BY <2>0, <2>6 DEF Idle
  <2> QED
    BY <2>0, <1>a, <2>1, <2>2, <2>7, <2>8, OtherIdle, SideLive
<1>6. ASSUME NEW r \in Requests, ListenerTooSmall(r) PROVE LiveInv'
  <2>0. PICK s \in Sides : s = side[r]
    BY <1>0
  <2>1. /\ s \in Sides /\ req[s] = r /\ r # 0 /\ ~Idle(s)
        /\ dpc' # "sent"
        /\ \A o \in Requests : ~Watching(o)
        /\ UNCHANGED <<side, target, dpc, dreq>>
    BY <2>0, <1>6, Taken
  <2>2. UNCHANGED <<wpc, wreq>> /\ status[r] = "tooSmall"
    BY <2>0, <1>6 DEF ListenerTooSmall, watchers, Takes
  <2>3. exch[r] = "absent" /\ target[r] \in {0, prev[s]}
    BY <2>0, <2>1, <2>2 DEF AnswerInv, WayInv
  <2>4. CASE stored[prev[s]] = "active"
    <3>1. UNCHANGED <<need, req, completed>>
      BY <2>0, <1>6, <2>4 DEF ListenerTooSmall, session
    <3>2. ASSUME NEW t \in Sides PROVE LiveAt(t)'
      <4>1. LiveAt(t)
        BY <2>0, <1>0
      <4> QED
        BY <2>0, <1>a, <2>1, <2>2, <3>1, <4>1 DEF LiveAt, Sending, Watching
    <3> QED
      BY <2>0, <3>2 DEF LiveInv
  <2>5. CASE stored[prev[s]] # "active"
    <3>1. SetDoneFlags(s, prev[s])
      BY <2>0, <1>6, <2>5 DEF ListenerTooSmall
    <3>2. ~backwards /\ target[r] # 0 => exch[target[r]] \in Final
      <4>1. target[r] # 0 => target[r] \in Requests
        BY Members DEF TypeOK, WireOK
      <4>2. ~backwards /\ target[r] # 0 => stored[target[r]] \in Final
        BY <2>0, <2>3, <2>5 DEF StoredInv
      <4> QED
        BY <2>0, <4>1, <4>2 DEF KnownInv
    <3>3. ~backwards => LiveOrders(s) = {}
      BY <2>0, <1>c, <2>1, <2>3, <3>2 DEF Live, Final
    <3>4. \A o \in Requests : ~Watching(o)'
      BY <2>0, <2>1, <2>2 DEF Watching
    <3>5. prev[s] \in Ids
      BY <2>0, <1>0, <2>1
    <3> QED
      BY <2>0, <1>a, <2>1, <3>1, <3>3, <3>4, <3>5, DoneFlagsLive
  <2> QED
    BY <2>0, <2>4, <2>5
<1>7. ASSUME NEW r \in Requests, ListenerDoneCode(r) PROVE LiveInv'
  <2>0. PICK s \in Sides : s = side[r]
    BY <1>0
  <2>1. /\ s \in Sides /\ req[s] = r /\ r # 0 /\ ~Idle(s)
        /\ dpc' # "sent"
        /\ \A o \in Requests : ~Watching(o)
        /\ \A t \in Sides : ~need[t]
    BY <2>0, <1>7, Taken
  <2>2. UNCHANGED <<wpc, wreq>> /\ status[r] = "doneCode"
    BY <2>0, <1>7 DEF ListenerDoneCode, watchers, Takes
  <2>3. exch[r] = "absent" /\ exch[target[r]] \in Final
    BY <2>0, <2>2 DEF AnswerInv
  <2>4. LiveOrders(s) = {}
    BY <2>0, <1>c, <2>1, <2>3 DEF Live, Final
  <2>5. \A o \in Requests : ~Watching(o)'
    BY <2>0, <2>1, <2>2 DEF Watching
  <2>6. prev[s] \in Ids
    BY <2>0, <1>0, <2>1
  <2>7. CASE SetDoneFlags(s, prev[s])
    <3> QED
      BY <2>0, <1>a, <2>1, <2>4, <2>5, <2>6, <2>7, DoneFlagsLive
  <2>8. CASE need' = [need EXCEPT ![s] = TRUE] /\ UNCHANGED completed
    <3>1. LiveAt(s)'
      BY <2>0, <1>a, <2>1, <2>4, EmptyLive
    <3>2. ~Idle(s)'
      BY <2>0, <1>0, <2>1, <2>8 DEF Idle
    <3> QED
      BY <2>0, <1>a, <2>1, <2>8, <3>1, <3>2, OtherIdle, SideLive
  <2> QED
    BY <2>0, <1>7, <2>7, <2>8 DEF ListenerDoneCode
<1>8. ASSUME NEW o \in Requests, WatchAlter(o) PROVE LiveInv'
  <2>0. PICK s \in Sides : s = side[o]
    BY <1>0
  <2>1. /\ s \in Sides /\ ~Idle(s) /\ Watching(o) /\ wpc[o] = "watch"
        /\ \A q \in Requests : Watching(q) => q = o
        /\ SendOrder(s, o) /\ o \in Ids
        /\ wpc' = [wpc EXCEPT ![o] = "altered"]
        /\ wreq' = [wreq EXCEPT ![o] = last + 1]
        /\ UNCHANGED completed /\ o # last + 1
    BY <2>0, <1>0, <1>8, AlteringOrder DEF session
  <2>2. side'[o] = s
    BY <2>0, <2>1, NewRequest
  <2>3. LiveOrders(s) \subseteq {o}
    BY <2>0, <1>0, <2>1 DEF LiveAt
  <2>4. wpc'[o] = "altered" /\ \A q \in Requests : Watching(q)' => q = o
    BY <2>0, <1>0, <2>1 DEF Watching
  <2>5. ~NoWatcher(s)'
    BY <2>0, <2>2, <2>4 DEF NoWatcher, Watching
  <2>6. LiveAt(s)'
    <3>1. ~need'[s] /\ ~Sending(s)' /\ req'[s] = 0
      BY <2>0, <2>1, <2>5 DEF Core, TokenInv, Token
    <3>2. completed'[s] # 1
      BY <2>0, <2>1, Turn DEF Core
    <3> QED
      BY <2>0, <1>a, <2>1, <2>3, <2>4, <3>1, <3>2 DEF LiveAt
  <2>7. ~Idle(s)'
    BY <2>0, <2>5 DEF Idle
  <2> QED
    BY <2>0, <1>a, <2>1, <2>6, <2>7, OtherIdle, SideLive
<1>9. ASSUME NEW o \in Requests, WatchStore(o) PROVE LiveInv'
  <2>0. PICK s \in Sides : s = side[o]
    BY <1>0
  <2>1. /\ wpc[o] = "altered" /\ Watching(o)
        /\ req' = [req EXCEPT ![s] = wreq[o]]
        /\ UNCHANGED <<completed, side, target>>
    BY <2>0, <1>9 DEF WatchStore, Watching, wire
  <2>2. s \in Sides /\ ~Idle(s) /\ wreq[o] # 0 /\ target[wreq[o]] = o
    BY <2>0, <2>1, WatcherAlone DEF WayInv
  <2>3. LiveOrders(s) \subseteq {o, wreq[o]}
    BY <2>0, <1>0, <2>1 DEF LiveAt
  <2>4. req'[s] = wreq[o] /\ ~Idle(s)'
    BY <2>0, <1>0, <2>1, <2>2 DEF Idle
  <2>5. LiveAt(s)'
    <3>1. ~need'[s] /\ ~Sending(s)' /\ NoWatcher(s)'
      BY <2>0, <2>2, <2>4 DEF Core, TokenInv, Token
    <3>2. completed'[s] # 1
      BY <2>0, <2>1, <2>2, Turn DEF Core
    <3>3. \A p, q \in LiveOrders(s)' : p = q
      BY <2>0, <1>0, <1>a, <2>2
    <3> QED
      BY <2>0, <1>a, <2>1, <2>2, <2>3, <2>4, <3>1, <3>2, <3>3 DEF LiveAt, NoWatcher
  <2> QED
    BY <2>0, <1>a, <2>1, <2>2, <2>4, <2>5, OtherIdle, SideLive
<1>10. ASSUME NEW o \in Requests, WatchCancelled(o) \/ WatchDone(o) \/ WatchGone(o)
       PROVE  LiveInv'
  <2>0. PICK s \in Sides : s = side[o]
    BY <1>0
  <2>1. /\ s \in Sides /\ ~Idle(s) /\ Watching(o) /\ wpc[o] # "altered"
        /\ dpc' # "sent"
        /\ \A t \in Sides : ~need[t]
        /\ \A q \in Requests : ~Watching(q)'
    BY <2>0, <1>10, Unwatched
  <2>2. exch[o] \in Final
    BY <2>0, <1>10 DEF WatchCancelled, WatchDone, WatchGone, KnownInv, Final
  <2>3. LiveOrders(s) = {}
    BY <2>0, <1>0, <1>b, <2>1, <2>2 DEF LiveAt
  <2>4. CASE WatchDone(o)
    <3>1. SetDoneFlags(s, o) /\ o \in Ids
      BY <2>0, <1>0, <2>4 DEF WatchDone
    <3> QED
      BY <2>0, <1>a, <2>1, <2>3, <3>1, DoneFlagsLive
  <2>5. CASE Reopen(s)
    <3>1. need'[s] /\ UNCHANGED completed
      BY <2>0, <1>0, <2>1, <2>5 DEF Reopen
    <3>2. LiveAt(s)'
      BY <2>0, <1>a, <2>1, <2>3, EmptyLive
    <3>3. ~Idle(s)'
      BY <2>0, <3>1 DEF Idle
    <3> QED
      BY <2>0, <1>a, <2>1, <3>1, <3>2, <3>3, OtherIdle, SideLive
  <2> QED
    BY <2>0, <1>10, <2>4, <2>5 DEF WatchCancelled, WatchGone
<1> QED
  BY <1>1, <1>2, <1>3, <1>4, <1>5, <1>6, <1>7, <1>8, <1>9, <1>10 DEF Loud

LEMMA LiveStep ==
  ASSUME TypeOK, TypeOK', Core, Core', MarketInv, [Next]_vars PROVE LiveInv'
<1>1. CASE Quiet
  <2>1. ASSUME NEW s \in Sides PROVE LiveAt(s)'
    <3>1. CASE \E r \in Requests : ExchangeCreates(r) /\ side[r] = s
      <4>1. PICK r \in Requests : ExchangeCreates(r) /\ side[r] = s
        BY <3>1
      <4>2. side' = side
        BY <1>1 DEF Quiet
      <4>3. LiveAt(side[r])'
        BY <4>1, CreateLive DEF MarketInv
      <4> QED
        BY <4>1, <4>2, <4>3
    <3>2. CASE \A r \in Requests : ~ (ExchangeCreates(r) /\ side[r] = s)
      BY <1>1, <3>2, QuietLive DEF MarketInv
    <3> QED
      BY <3>1, <3>2
  <2> QED
    BY <2>1 DEF LiveInv
<1> QED
  BY <1>1, LoudLive, QuietOrLoud DEF MarketInv

(* What is summed is stored.                                               *)

\* Nothing a quiet step does concerns the storage's ids.
LEMMA QuietStored ==
  ASSUME TypeOK, Core, KnownInv, StoredInv, [Next]_vars, Quiet PROVE StoredInv'
<1>0. /\ UNCHANGED <<need, active, prev, req, orders, completed, side, dreq, target>>
      /\ dpc' = "sent" <=> dpc = "sent"
      /\ \A o \in Requests : Watching(o)' => Watching(o)
  BY DEF Quiet
<1>1. \A o \in Requests : Stored(o) => Stored(o)'
  BY StoredStays
<1>2. /\ \A s \in Sides : orders[s] \subseteq Requests
      /\ \A s \in Sides : prev[s] # 0 => prev[s] \in Requests
      /\ \A r \in Requests : target[r] # 0 => target[r] \in Requests
  BY Members DEF TypeOK, SessionOK, WireOK
<1>3. ASSUME NEW s \in Sides PROVE StoredAt(s)'
  <2>1. StoredAt(s) /\ (Sending(s)' <=> Sending(s))
    BY <1>0 DEF StoredInv, Sending
  <2>2. \A p \in orders[s] : Stored(p) => Stored(p)'
    BY <1>1, <1>2
  <2>3. prev'[s] # 0 => Stored(prev[s])'
    <3>1. \A o \in Requests : stored[o] # "absent" => stored'[o] # "absent"
      BY <1>1 DEF Stored
    <3>2. prev'[s] # 0 => prev[s] \in Requests /\ stored[prev[s]] # "absent"
      BY <1>0, <1>2, <2>1 DEF StoredAt, Stored
    <3> QED
      BY <1>0, <3>1, <3>2 DEF Stored
  <2>4. need'[s] \/ Sending(s)' \/ req'[s] # 0 => \A p \in orders'[s] : Stored(p)'
    BY <1>0, <2>1, <2>2 DEF StoredAt
  <2>5. \A o \in Requests : side'[o] = s /\ Watching(o)' =>
          \A p \in orders'[s] \ {o} : Stored(p)'
    BY <1>0, <2>1, <2>2 DEF StoredAt
  <2> QED
    BY <2>3, <2>4, <2>5 DEF StoredAt
<1>4. \A r \in Requests :
        target'[r] # 0 /\ ~backwards' => stored'[target'[r]] \in {"active"} \cup Final
  BY <1>0, <1>2, StoredStays DEF StoredInv
<1> QED
  BY <1>0, <1>3, <1>4 DEF StoredInv

\* A side all of whose orders are stored.
LEMMA AllStored ==
  ASSUME TypeOK, NEW s \in Sides, stored' = stored, orders'[s] = orders[s],
         \A p \in orders[s] : Stored(p),
         prev'[s] = prev[s] \/ Stored(prev'[s]), prev[s] # 0 => Stored(prev[s])
  PROVE  StoredAt(s)'
<1>1. \A p \in orders'[s] : Stored(p)'
  BY DEF Stored
<1>2. prev'[s] # 0 => Stored(prev[s])'
  BY DEF Stored
<1> QED
  BY <1>1, <1>2 DEF StoredAt

\* A step of side s, which leaves the other side's orders alone.
LEMMA ActorStored ==
  ASSUME Core, Core', StoredInv, NEW s \in Sides, ~Idle(s),
         completed' = completed, stored' = stored,
         \A t \in Sides \ {s} : Idle(t)',
         \A t \in Sides \ {s} : prev'[t] = prev[t] /\ orders'[t] = orders[t],
         StoredAt(s)',
         \A r \in Requests :
           target'[r] # 0 /\ ~backwards' => stored'[target'[r]] \in {"active"} \cup Final
  PROVE  StoredInv'
<1>1. completed[s] = 0 /\ (s = "sell" => completed["buy"] = 1)
  BY Turn DEF Core
<1>2. ASSUME NEW t \in Sides \ {s} PROVE StoredAt(t)'
  <2>1. prev'[t] # 0 => Stored(prev[t])'
    BY DEF StoredInv, StoredAt, Stored
  <2> QED
    BY <2>1 DEF StoredAt, Idle, NoWatcher
<1>3. completed'["buy"] = 0 => prev'["sell"] = 0 /\ orders'["sell"] = {}
  BY <1>1, Members DEF StoredInv
<1>4. completed'["buy"] = 1 => prev'["buy"] = 0
  BY <1>1, Members DEF StoredInv
<1> QED
  BY <1>2, <1>3, <1>4 DEF StoredInv

LEMMA DoneFlagsStored ==
  ASSUME TypeOK, Core, Core', StoredInv, NEW s \in Sides, NEW o \in Ids,
         ~Idle(s), SetDoneFlags(s, o),
         dpc' # "sent", \A q \in Requests : ~Watching(q)',
         UNCHANGED <<stored, backwards, target>>
  PROVE  StoredInv'
<1>1. /\ completed[s] = 0 /\ completed'[s] = 1
      /\ \A t \in Sides \ {s} : completed'[t] = completed[t]
      /\ prev'[s] = 0 /\ \A t \in Sides \ {s} : prev'[t] = prev[t]
      /\ orders' = orders
      /\ \A t \in Sides : req'[t] = 0
      /\ s = "buy" \/ need' = need
  BY DoneFlagsAsk
<1>2. \A t \in Sides : ~Sending(t)'
  BY DEF Sending
<1>3. StoredAt(s)'
  <2>1. Idle(s)'
    BY <1>1 DEF Core, PhaseInv, Sides
  <2> QED
    BY <1>1, <2>1 DEF StoredAt, Idle
<1>4. ASSUME s = "buy" PROVE StoredAt("sell")' /\ prev'["buy"] = 0
  <2>1. prev["sell"] = 0 /\ orders["sell"] = {}
    BY <1>1, <1>4 DEF StoredInv
  <2>2. prev'["sell"] = 0 /\ orders'["sell"] = {}
    BY <1>1, <1>4, <2>1, Members
  <2> QED
    BY <1>1, <1>4, <2>2 DEF StoredAt
<1>5. ASSUME s = "sell" PROVE StoredAt("buy")' /\ completed["buy"] = 1 /\ prev'["buy"] = 0
  <2>1. Idle("buy") /\ completed["buy"] = 1
    BY <1>5, Turn, Members DEF Core
  <2>2. ~need'["buy"] /\ prev["buy"] = 0 /\ prev'["buy"] = 0
    BY <1>1, <1>5, <2>1, Members DEF Idle, StoredInv
  <2> QED
    BY <1>1, <1>2, <2>1, <2>2, Members DEF StoredAt
<1>6. \A t \in Sides : StoredAt(t)'
  BY <1>3, <1>4, <1>5, Members
<1>7. completed'["buy"] = 1 /\ prev'["buy"] = 0
  BY <1>1, <1>4, <1>5, Members
<1> QED
  BY <1>6, <1>7 DEF StoredInv

LEMMA LoudStored ==
  ASSUME TypeOK, TypeOK', Core, Core', AnswerInv, KnownInv, WayInv, LordInv, StoredInv, Loud
  PROVE  StoredInv'
<1>0. /\ req \in [Sides -> Ids] /\ need \in [Sides -> BOOLEAN] /\ prev \in [Sides -> Ids]
      /\ wpc \in [Requests -> WatchStates] /\ orders \in [Sides -> SUBSET Requests]
      /\ \A s \in Sides : StoredAt(s) /\ (prev[s] # 0 => Stored(prev[s]))
      /\ \A o \in Requests : o \in Ids /\ side[o] \in Sides
  BY Members DEF TypeOK, SessionOK, WatchersOK, WireOK, StoredInv, StoredAt
<1>a. UNCHANGED <<stored, backwards>>
  BY SameLive
<1>b. UNCHANGED target => \A r \in Requests :
        target'[r] # 0 /\ ~backwards' => stored'[target'[r]] \in {"active"} \cup Final
  BY <1>a DEF StoredInv
<1>1. ASSUME NEW s \in Sides, DeciderSend(s) PROVE StoredInv'
  <2>1. /\ need[s] /\ dpc' = "sent" /\ dreq' = last + 1 /\ SendOrder(s, 0)
        /\ UNCHANGED <<completed, prev, orders>>
    BY <1>1 DEF DeciderSend
  <2>2. ~Idle(s) /\ \A p \in orders[s] : Stored(p)
    BY <1>0, <2>1, NeedAlone DEF StoredAt
  <2>3. StoredAt(s)'
    BY <1>0, <1>a, <2>1, <2>2, AllStored
  <2>4. ~Idle(s)'
    BY <2>1, NewRequest, Members DEF Idle, Sending
  <2>5. \A r \in Requests : target'[r] = target[r] \/ target'[r] = 0
    BY <2>1, NewRequest, Members
  <2>6. \A r \in Requests :
          target'[r] # 0 /\ ~backwards' => stored'[target'[r]] \in {"active"} \cup Final
    BY <1>a, <2>5 DEF StoredInv
  <2> QED
    BY <1>a, <2>1, <2>2, <2>3, <2>4, <2>6, OtherIdle, ActorStored
<1>2. ASSUME NEW s \in Sides, DeciderSendFails(s) PROVE StoredInv'
  <2>1. /\ need[s] /\ need' = [need EXCEPT ![s] = FALSE]
        /\ dpc' # "sent" /\ UNCHANGED <<completed, req, prev, orders, wpc, side, target>>
    BY <1>2 DEF DeciderSendFails, watchers, wire
  <2>2. ~Idle(s) /\ \A p \in orders[s] : Stored(p)
    BY <1>0, <2>1, NeedAlone DEF StoredAt
  <2>3. StoredAt(s)'
    BY <1>0, <1>a, <2>1, <2>2, AllStored
  <2>4. \A t \in Sides \ {s} : Idle(t)'
    <3>1. \A t \in Sides \ {s} : Idle(t)
      BY <2>2, Turn DEF Core
    <3> QED
      BY <2>1, <3>1 DEF Idle, Sending, NoWatcher, Watching
  <2> QED
    BY <1>a, <1>b, <2>1, <2>2, <2>3, <2>4, ActorStored
<1>3. CASE DeciderStore
  <2>0. PICK s \in Sides : s = side[dreq]
    BY <1>0, <1>3, SenderAlone DEF DeciderStore
  <2>1. /\ dpc = "sent" /\ req' = [req EXCEPT ![s] = dreq]
        /\ UNCHANGED <<completed, prev, orders, target, side>>
    BY <2>0, <1>3 DEF DeciderStore, wire
  <2>2. dreq \in Requests /\ dreq # 0 /\ ~Idle(s)
    BY <2>0, <2>1, SenderAlone, Members
  <2>3. ~Idle(s)'
    BY <1>0, <2>1, <2>2 DEF Idle
  <2>4. \A p \in orders[s] : Stored(p)
    BY <2>0, <1>0, <2>1 DEF StoredAt, Sending
  <2>5. StoredAt(s)'
    BY <1>0, <1>a, <2>1, <2>4, AllStored
  <2> QED
    BY <1>a, <1>b, <2>1, <2>2, <2>3, <2>5, OtherIdle, ActorStored
<1>4. CASE ListenerCancelled /\ side[lord] # "buy"
  <2>1. /\ lord \in Ids /\ ~Idle("sell")
        /\ SetDoneFlags("sell", lord) /\ dpc' # "sent" /\ UNCHANGED <<wpc, target>>
        /\ \A o \in Requests : ~Watching(o)
    BY <1>0, <1>4, PreviousCancelled
  <2>2. \A o \in Requests : ~Watching(o)'
    BY <2>1 DEF Watching
  <2> QED
    BY <1>a, <2>1, <2>2, DoneFlagsStored, Members
<1>5. ASSUME NEW r \in Requests, ListenerAdopt(r) PROVE StoredInv'
  <2>0. PICK s \in Sides : s = side[r]
    BY <1>0
  <2>1. /\ req[s] = r /\ r # 0 /\ ~Idle(s)
        /\ \A o \in Requests : ~Watching(o)
        /\ UNCHANGED <<side, target>>
    BY <2>0, <1>5, Taken
  <2>2. /\ orders' = [orders EXCEPT ![s] = @ \cup {r}]
        /\ wpc' = [wpc EXCEPT ![r] = "watch"]
        /\ UNCHANGED <<completed, prev>>
    BY <2>0, <1>5 DEF ListenerAdopt
  <2>3. Watching(r)' /\ \A o \in Requests : Watching(o)' => o = r
    BY <1>0, <2>1, <2>2 DEF Watching
  <2>4. ~NoWatcher(s)'
    BY <2>0, <2>1, <2>3 DEF NoWatcher
  <2>5. StoredAt(s)'
    <3>1. ~need'[s] /\ ~Sending(s)' /\ req'[s] = 0
      BY <2>4 DEF Core, TokenInv, Token
    <3>2. \A p \in orders[s] : Stored(p)
      BY <1>0, <2>1 DEF StoredAt
    <3>3. orders'[s] = orders[s] \cup {r} /\ prev'[s] = prev[s]
      BY <1>0, <2>2
    <3>4. \A p \in orders[s] : Stored(p)'
      BY <1>a, <3>2 DEF Stored
    <3>5. prev'[s] # 0 => Stored(prev[s])'
      BY <1>0, <1>a, <3>3 DEF Stored
    <3> QED
      BY <2>3, <3>1, <3>3, <3>4, <3>5 DEF StoredAt
  <2>6. ~Idle(s)' /\ \A t \in Sides \ {s} : orders'[t] = orders[t]
    BY <1>0, <2>2, <2>4 DEF Idle
  <2> QED
    BY <1>a, <1>b, <2>1, <2>2, <2>5, <2>6, OtherIdle, ActorStored
<1>6. ASSUME NEW r \in Requests, ListenerTooSmall(r) \/ ListenerDoneCode(r) PROVE StoredInv'
  <2>0. PICK s \in Sides : s = side[r]
    BY <1>0
  <2>1. /\ req[s] = r /\ r # 0 /\ ~Idle(s)
        /\ dpc' # "sent"
        /\ \A o \in Requests : ~Watching(o)
        /\ UNCHANGED <<side, target, dpc, dreq, last>>
        /\ prev[s] \in Ids
    BY <2>0, <1>0, <1>6, Taken
  <2>2. \A o \in Requests : (Watching(o)' <=> Watching(o)) /\ ~Watching(o)'
    BY <1>6, <2>1 DEF ListenerTooSmall, ListenerDoneCode, watchers, Watching
  <2>3. CASE UNCHANGED session
    <3>1. UNCHANGED <<need, prev, req, orders, completed>>
      BY <2>3 DEF session
    <3>2. \A p \in orders[s] : Stored(p)
      BY <1>0, <2>1 DEF StoredAt
    <3>3. StoredAt(s)'
      BY <1>0, <1>a, <3>1, <3>2, AllStored
    <3>4. ~Idle(s)'
      BY <2>1, <3>1 DEF Idle
    <3> QED
      BY <1>a, <1>b, <2>1, <3>1, <3>3, <3>4, OtherIdle, ActorStored
  <2>4. CASE SetDoneFlags(s, prev[s])
    BY <1>a, <2>1, <2>2, <2>4, DoneFlagsStored
  <2>5. CASE need' = [need EXCEPT ![s] = TRUE] /\ UNCHANGED <<prev, orders, completed>>
    <3>1. \A p \in orders[s] : Stored(p)
      BY <1>0, <2>1 DEF StoredAt
    <3>2. StoredAt(s)'
      BY <1>0, <1>a, <2>5, <3>1, AllStored
    <3>3. ~Idle(s)'
      BY <1>0, <2>5 DEF Idle
    <3> QED
      BY <1>a, <1>b, <2>1, <2>5, <3>2, <3>3, OtherIdle, ActorStored
  <2> QED
    BY <2>0, <1>6, <2>3, <2>4, <2>5 DEF ListenerTooSmall, ListenerDoneCode
<1>7. ASSUME NEW o \in Requests, WatchAlter(o) PROVE StoredInv'
  <2>0. PICK s \in Sides : s = side[o]
    BY <1>0
  <2>1. /\ ~Idle(s) /\ Watching(o) /\ stored[o] = "active" /\ o \in Ids
        /\ \A q \in Requests : Watching(q) => q = o
        /\ SendOrder(s, o) /\ o # last + 1
        /\ wpc' = [wpc EXCEPT ![o] = "altered"]
        /\ UNCHANGED <<need, req, prev, orders, completed, dpc>>
    BY <2>0, <1>0, <1>7, AlteringOrder DEF session, decider
  <2>2. Watching(o)' /\ \A q \in Requests : Watching(q)' => q = o
    BY <1>0, <2>1 DEF Watching
  <2>3. side'[o] = s
    BY <2>0, <2>1, NewRequest
  <2>4. ~NoWatcher(s)'
    BY <2>2, <2>3 DEF NoWatcher
  <2>5. StoredAt(s)'
    <3>1. ~need'[s] /\ ~Sending(s)' /\ req'[s] = 0
      BY <2>4 DEF Core, TokenInv, Token
    <3>2. \A p \in orders[s] \ {o} : Stored(p)
      BY <2>0, <1>0, <2>1 DEF StoredAt
    <3>3. \A p \in orders'[s] \ {o} : Stored(p)'
      BY <1>a, <2>1, <3>2 DEF Stored
    <3>4. prev'[s] # 0 => Stored(prev[s])'
      BY <1>0, <1>a, <2>1 DEF Stored
    <3> QED
      BY <2>2, <3>1, <3>3, <3>4 DEF StoredAt
  <2>6. \A r \in Requests : target'[r] = target[r] \/ target'[r] = o
    BY <2>1, NewRequest
  <2>7. \A r \in Requests :
          target'[r] # 0 /\ ~backwards' => stored'[target'[r]] \in {"active"} \cup Final
    BY <1>a, <2>1, <2>6 DEF StoredInv
  <2>8. ~Idle(s)'
    BY <2>4 DEF Idle
  <2> QED
    BY <1>a, <2>1, <2>5, <2>7, <2>8, OtherIdle, ActorStored
<1>8. ASSUME NEW o \in Requests, WatchStore(o) \/ WatchCancelled(o) \/ WatchGone(o)
      PROVE  StoredInv'
  <2>0. PICK s \in Sides : s = side[o]
    BY <1>0
  <2>1. /\ Watching(o) /\ ~Idle(s)
        /\ prev' \in {prev, [prev EXCEPT ![s] = o]}
        /\ UNCHANGED <<completed, orders, target>>
    BY <2>0, <1>8, WatcherAlone DEF WatchStore, WatchCancelled, WatchGone, Watching, Reopen, wire
  <2>2. Stored(o)
    BY <1>8 DEF WatchStore, WatchCancelled, WatchGone, KnownInv, Stored
  <2>3. \A p \in orders[s] : Stored(p)
    BY <2>0, <1>0, <2>1, <2>2 DEF StoredAt
  <2>4. /\ prev'[s] = prev[s] \/ Stored(prev'[s])
        /\ \A t \in Sides \ {s} : prev'[t] = prev[t]
    BY <1>0, <2>1, <2>2
  <2>5. StoredAt(s)'
    BY <1>0, <1>a, <2>1, <2>3, <2>4, AllStored
  <2>6. ~Idle(s)'
    <3>1. CASE WatchStore(o)
      BY <2>0, <1>0, <3>1 DEF WatchStore, WayInv, Idle
    <3>2. CASE Reopen(s)
      BY <1>0, <3>2 DEF Reopen, Idle
    <3> QED
      BY <2>0, <1>8, <3>1, <3>2 DEF WatchCancelled, WatchGone
  <2> QED
    BY <1>a, <1>b, <2>1, <2>4, <2>5, <2>6, OtherIdle, ActorStored
<1>9. ASSUME NEW o \in Requests, WatchDone(o) PROVE StoredInv'
  <2>0. PICK s \in Sides : s = side[o]
    BY <1>0
  <2>1. /\ ~Idle(s) /\ o \in Ids /\ SetDoneFlags(s, o)
        /\ dpc' # "sent" /\ UNCHANGED target
        /\ \A q \in Requests : ~Watching(q)'
    BY <2>0, <1>0, <1>9, Unwatched DEF WatchDone
  <2> QED
    BY <1>a, <2>1, DoneFlagsStored
<1> QED
  BY <1>1, <1>2, <1>3, <1>4, <1>5, <1>6, <1>7, <1>8, <1>9 DEF Loud

(* The invariant of the market, and what follows.                          *)

LEMMA InitMarket == Init => MarketInv
<1> SUFFICES ASSUME Init PROVE MarketInv
  OBVIOUS
<1>1. \A r \in Requests : ~Pending(r) /\ ~Watching(r)
  BY DEF Init, Pending, Answers, Watching
<1>2. \A s \in Sides : LiveOrders(s) = {}
  BY DEF Init, LiveOrders, Live
<1>3. AnswerInv /\ KnownInv /\ LordInv
  BY DEF Init, AnswerInv, KnownInv, LordInv, Final
<1>4. WayInv
  BY <1>1 DEF Init, WayInv
<1>5. EndInv
  BY DEF Init, EndInv
<1>6. LiveInv
  BY <1>1, <1>2 DEF Init, LiveInv, LiveAt, Sending
<1>7. StoredInv
  BY <1>1, Members DEF Init, StoredInv, StoredAt
<1> QED
  BY <1>3, <1>4, <1>5, <1>6, <1>7 DEF MarketInv

LEMMA StepMarket == IInv /\ IInv' /\ MarketInv /\ [Next]_vars => MarketInv'
<1> SUFFICES ASSUME TypeOK, TypeOK', Core, Core', MarketInv, [Next]_vars
             PROVE  MarketInv'
  BY DEF IInv
<1>1. AnswerInv /\ KnownInv /\ WayInv /\ LordInv /\ EndInv /\ LiveInv /\ StoredInv
  BY DEF MarketInv
<1>2. AnswerInv' /\ KnownInv' /\ WayInv' /\ LordInv' /\ EndInv'
  BY <1>1, AnswerStep, KnownStep, WayStep, LordStep, EndStep
<1>3. LiveInv'
  BY LiveStep
<1>4. StoredInv'
  BY <1>1, QuietStored, LoudStored, QuietOrLoud
<1> QED
  BY <1>2, <1>3, <1>4 DEF MarketInv

LEMMA MarketInvariance == Spec => [](IInv /\ MarketInv /\ HolderInv)
<1>1. Init => IInv /\ MarketInv
  BY InitIInv, InitMarket
<1>2. Init => HolderInv
  <2> SUFFICES ASSUME Init PROVE HolderInv
    OBVIOUS
  <2>1. need["buy"] /\ "buy" \in Sides
    BY DEF Init, Sides
  <2> QED
    BY <2>1 DEF HolderInv
<1>3. IInv /\ MarketInv /\ HolderInv /\ [Next]_vars => IInv' /\ MarketInv' /\ HolderInv'
  <2>1. IInv /\ MarketInv /\ [Next]_vars => IInv' /\ MarketInv'
    BY StepIInv, StepMarket
  <2>2. IInv /\ MarketInv /\ HolderInv /\ [Next]_vars => HolderInv'
    BY HolderStep DEF IInv, MarketInv
  <2> QED
    BY <2>1, <2>2
<1> QED
  BY <1>1, <1>2, <1>3, PTL DEF Spec

\* A side without the token has nothing under way.
LEMMA IdleIsQuiet ==
  ASSUME TypeOK, Core, WayInv, NEW s \in Sides, Idle(s) PROVE Open(s) = {}
<1>1. \A r \in Open(s) : r \in Requests /\ Pending(r) /\ side[r] = s
  BY DEF Open, Pending
<1> QED
  BY <1>1, OneOnTheWay

LEMMA OneLive == IInv /\ MarketInv => OneLiveOrder
<1> SUFFICES ASSUME MarketInv, NEW s \in Sides PROVE Cardinality(LiveOrders(s)) <= 1
  BY DEF OneLiveOrder
<1>1. \A p, q \in LiveOrders(s) : p = q
  BY DEF MarketInv, LiveInv, LiveAt
<1>2. CASE LiveOrders(s) = {}
  BY <1>2, FS_EmptySet
<1>3. CASE LiveOrders(s) # {}
  <2>1. PICK p \in LiveOrders(s) : TRUE
    BY <1>3
  <2>2. LiveOrders(s) = {p}
    BY <1>1, <2>1
  <2>3. Cardinality({p}) = 1
    BY FS_Singleton
  <2> QED
    BY <2>2, <2>3
<1> QED
  BY <1>2, <1>3

\* Cancelling, altering and creating are the work of three goroutines, and yet
\* no side ever has two orders in the market.
THEOREM OneOrderPerSide == Spec => []OneLiveOrder
  BY OneLive, MarketInvariance, PTL

LEMMA FlagIsAlone == IInv /\ MarketInv => NeedMeansIdle
<1> SUFFICES ASSUME TypeOK, Core, MarketInv, NEW s \in Sides, need[s]
             PROVE  /\ LiveOrders(s) = {}
                    /\ Open(s) = {}
                    /\ \A o \in Requests : side[o] = s => ~Watching(o)
  BY DEF IInv, NeedMeansIdle
<1>1. LiveOrders(s) = {}
  BY DEF MarketInv, LiveInv, LiveAt
<1>2. \A r \in Requests : ~Pending(r)
  BY OneOnTheWay DEF MarketInv
<1>3. Open(s) = {}
  BY <1>2 DEF Open, Pending
<1> QED
  BY <1>1, <1>3, NeedAlone

\* The decider is told to create an order only when nothing of that side is in
\* the market, on its way there, or watched.
THEOREM FlagMeansIdle == Spec => []NeedMeansIdle
  BY FlagIsAlone, MarketInvariance, PTL

\* Once a sell order has been asked for, no buy order is in the market or on its
\* way there, if no stored state was overwritten by an earlier one.
THEOREM BuyingIsOver == Spec => []NoBuyWhileSelling
<1>1. IInv /\ MarketInv => NoBuyWhileSelling
  <2> SUFFICES ASSUME TypeOK, Core, MarketInv, ~backwards,
                      NEW r \in 1..last, side[r] = "sell"
               PROVE  LiveOrders("buy") = {} /\ Open("buy") = {}
    BY DEF IInv, NoBuyWhileSelling
  <2>1. completed["buy"] = 1
    BY DEF MarketInv, EndInv
  <2>2. Idle("buy") /\ "buy" \in Sides
    BY <2>1 DEF Core, PhaseInv, Sides
  <2> QED
    BY <2>1, <2>2, IdleIsQuiet DEF MarketInv, LiveInv, LiveAt
<1> QED
  BY <1>1, MarketInvariance, PTL

\* A finished session leaves nothing in the market, under the same condition.
THEOREM FinishedIsFlat == Spec => []DoneIsFlat
<1>1. IInv /\ MarketInv => DoneIsFlat
  <2> SUFFICES ASSUME TypeOK, Core, MarketInv, isDone, ~backwards, NEW s \in Sides
               PROVE  LiveOrders(s) = {} /\ Open(s) = {}
    BY DEF IInv, DoneIsFlat
  <2>1. completed["sell"] = 1 /\ completed["buy"] = 1
    BY DEF MarketInv, EndInv, Core, PhaseInv
  <2>2. Idle(s) /\ completed[s] = 1
    BY <2>1 DEF Core, PhaseInv, Sides
  <2> QED
    BY <2>2, IdleIsQuiet DEF MarketInv, LiveInv, LiveAt
<1> QED
  BY <1>1, MarketInvariance, PTL

\* Whatever the volumes are summed over is in the storage, and so is the previous
\* order when an expected error is looked at: neither is nil.
THEOREM NothingIsNil == Spec => []NoNilOrder
<1>1. IInv /\ MarketInv => NoNilOrder
  <2> SUFFICES ASSUME TypeOK, Core, MarketInv PROVE NoNilOrder
    BY DEF IInv
  <2>0. \A s \in Sides : StoredAt(s)
    BY DEF MarketInv, StoredInv
  <2>1. \A s \in Sides : need[s] => \A o \in orders[s] : Stored(o)
    BY <2>0 DEF StoredAt
  <2>2. \A o \in Requests : Watching(o) => \A p \in orders[side[o]] \ {o} : Stored(p)
    BY <2>0 DEF StoredAt, TypeOK, WireOK
  <2>3. ASSUME NEW r \in Requests, r = req[side[r]], hasPrev
        PROVE  Stored(prev[side[r]]) /\ \A p \in orders[side[r]] : Stored(p)
    <3>1. side[r] \in Sides /\ req[side[r]] # 0
      BY <2>3, Members DEF TypeOK, WireOK
    <3>2. \A p \in orders[side[r]] : Stored(p)
      BY <2>0, <3>1 DEF StoredAt
    <3>3. ~Idle(side[r])
      BY <3>1 DEF Idle
    <3>4. completed[side[r]] = 0 /\ (side[r] = "sell" => completed["buy"] = 1)
      BY <3>1, <3>3, Turn DEF Core
    <3>5. prev[side[r]] # 0
      BY <2>3, <3>1, <3>4, Members DEF hasPrev, MarketInv, StoredInv
    <3> QED
      BY <2>0, <3>1, <3>2, <3>5 DEF StoredAt
  <2> QED
    BY <2>1, <2>2, <2>3 DEF NoNilOrder
<1> QED
  BY <1>1, MarketInvariance, PTL

\* A session that has neither finished nor failed can be carried on by somebody,
\* or an answer was lost on it, or a buy order was cancelled when its replacement
\* was refused.
THEOREM NoOtherTrap == Spec => []OnlyTwoTraps
<1>1. IInv /\ MarketInv /\ HolderInv => OnlyTwoTraps
  <2> SUFFICES ASSUME TypeOK, Core, MarketInv, HolderInv, ~isDone, ~failed
               PROVE  CanGoOn \/ Lost \/ Trapped
    BY DEF IInv, OnlyTwoTraps
  <2>1. ASSUME NEW s \in Sides, req[s] # 0 PROVE CanGoOn \/ Lost \/ Trapped
    <3>1. req[s] \in Requests
      BY <2>1, Members DEF TypeOK, SessionOK
    <3>2. side[req[s]] = s /\ status[req[s]] # "unsent"
      BY <2>1 DEF MarketInv, WayInv
    <3>3. status[req[s]] \in {"sent", "used", "discarded"} \cup Answers
      BY <3>1, <3>2 DEF TypeOK, WireOK, Statuses
    <3>4. CASE status[req[s]] \in {"sent"} \cup Answers
      BY <2>1, <3>1, <3>2, <3>4 DEF CanGoOn, Open
    <3>5. CASE status[req[s]] = "discarded"
      BY <3>1, <3>5 DEF Lost
    <3>6. CASE status[req[s]] = "used"
      BY <2>1, <3>6 DEF Trapped, CanGoOn
    <3> QED
      BY <3>3, <3>4, <3>5, <3>6
  <2> QED
    BY <2>1 DEF HolderInv, CanGoOn
<1> QED
  BY <1>1, MarketInvariance, PTL

-----------------------------------------------------------------------------
(* A restart.  What the first life leaves in the session's record and in the *)
(* storage is enough for the second one to be sound again, if the record was *)
(* of a shape that can be resumed.                                           *)

\* What is stored and what was answered is no later than the exchange.
RankInv ==
  \A o \in Requests : /\ Rank(stored[o]) <= Rank(exch[o])
                      /\ get[o] \in OrderStates => Rank(get[o]) <= Rank(exch[o])

\* The active order exists.
ActiveAt(s) ==
  active[s] # 0 => active[s] <= last /\ side[active[s]] = s /\ exch[active[s]] # "absent"

\* The orders of a side that are not its active one are stored.
ListedAt(s) == \A p \in orders[s] : Stored(p) \/ p = active[s]

\* An order in the market is the active one, or its number is kept by whoever has
\* the token, or was left behind by him.
KeptAt(s) ==
  completed[s] = 0 => \A o \in LiveOrders(s) :
    \/ o \in {active[s], req[s]}
    \/ Sending(s) /\ o = dreq
    \/ \E w \in Requests : side[w] = s /\ wpc[w] = "altered" /\ o = wreq[w]

HeldInv ==
  /\ \A s \in Sides : ActiveAt(s) /\ ListedAt(s) /\ KeptAt(s)
  /\ completed["buy"] = 0 => active["sell"] = 0
  /\ completed["buy"] = 1 => active["buy"] # 0
  /\ completed["sell"] = 1 => isDone

(* The storage lags behind.                                                *)

LEMMA RankValues ==
  /\ Rank("absent") = 0 /\ Rank("placing") = 1 /\ Rank("active") = 2
  /\ Rank("done") = 3 /\ Rank("cancelled") = 3
  BY DEF Rank

\* An order only advances.
LEMMA RankGrows ==
  ASSUME TypeOK, AnswerInv, [Next]_vars, NEW o \in Requests
  PROVE  Rank(exch[o]) <= Rank(exch'[o])
<1>0. /\ exch \in [Requests -> OrderStates] /\ OrderStates = {"absent"} \cup Live \cup Final
      /\ Live = {"placing", "active"} /\ Final = {"done", "cancelled"}
  BY DEF TypeOK, LedgerOK, Live, Final, OrderStates
<1>1. \A st \in OrderStates : Rank(st) \in 0..3
  BY Ranks
<1>2. CASE exch'[o] = exch[o]
  BY <1>0, <1>1, <1>2
<1>3. CASE exch[o] = "absent" /\ exch'[o] \in OrderStates
  BY <1>0, <1>1, <1>3, RankValues
<1>4. CASE exch'[o] \in Final
  BY <1>0, <1>1, <1>4, RankValues
<1>5. CASE exch[o] = "placing" /\ exch'[o] = "active"
  BY <1>5, RankValues
<1>6. \/ exch'[o] = exch[o] \/ (exch[o] = "absent" /\ exch'[o] \in OrderStates)
      \/ exch'[o] \in Final \/ (exch[o] = "placing" /\ exch'[o] = "active")
  <2>1. CASE \E r \in Requests : ExchangeCreates(r)
    <3>1. PICK r \in Requests : ExchangeCreates(r)
      BY <2>1
    <3>2. exch[r] = "absent"
      BY <3>1 DEF ExchangeCreates, AnswerInv
    <3> QED
      BY <1>0, <3>1, <3>2 DEF ExchangeCreates
  <2>2. CASE \E r \in Requests : ExchangeMoves(r)
    BY <1>0, <2>2 DEF ExchangeMoves
  <2>3. CASE \E r \in Requests : ExchangeCancels(r)
    BY <1>0, <2>3 DEF ExchangeCancels
  <2> QED
    BY <2>1, <2>2, <2>3, ExchSteps
<1> QED
  BY <1>2, <1>3, <1>4, <1>5, <1>6

LEMMA RankStep ==
  ASSUME TypeOK, TypeOK', AnswerInv, RankInv, [Next]_vars PROVE RankInv'
<1> SUFFICES ASSUME NEW o \in Requests
             PROVE  /\ Rank(stored'[o]) <= Rank(exch'[o])
                    /\ get'[o] \in OrderStates => Rank(get'[o]) <= Rank(exch'[o])
  BY DEF RankInv
<1>0. /\ exch \in [Requests -> OrderStates] /\ stored \in [Requests -> OrderStates]
      /\ get \in [Requests -> GetStates]
      /\ exch'[o] \in OrderStates /\ stored'[o] \in OrderStates
  BY DEF TypeOK, LedgerOK, CallsOK
<1>1. \A st \in OrderStates : Rank(st) \in 0..3
  BY Ranks
<1>2. /\ Rank(exch[o]) <= Rank(exch'[o])
      /\ Rank(stored[o]) <= Rank(exch[o])
      /\ get[o] \in OrderStates => Rank(get[o]) <= Rank(exch[o])
  BY RankGrows DEF RankInv
<1>3. stored'[o] = stored[o] \/ Rank(stored'[o]) <= Rank(exch[o])
  <2>1. CASE \E p \in Requests : WatchGot(p)
    BY <1>0, <1>2, <2>1 DEF WatchGot, Upsert
  <2>2. CASE \E p \in Requests : Accounting(p)
    BY <1>0, <2>2 DEF Accounting, Upsert
  <2> QED
    BY <2>1, <2>2, StoredSteps
<1>4. get'[o] \in OrderStates => get'[o] = get[o] \/ get'[o] = exch[o]
  <2>1. "sent" \notin OrderStates /\ "none" \notin OrderStates
    BY DEF OrderStates
  <2> QED
    BY <1>0, <2>1, CallSteps DEF WatchGet, WatchGot, ExchangeGets
<1>5. Rank(stored'[o]) <= Rank(exch'[o])
  BY <1>0, <1>1, <1>2, <1>3
<1>6. get'[o] \in OrderStates => Rank(get'[o]) <= Rank(exch'[o])
  BY <1>0, <1>1, <1>2, <1>4
<1> QED
  BY <1>5, <1>6

(* The session's record.                                                   *)

\* Requests keep their sides.
LEMMA SideStays ==
  ASSUME TypeOK, Core, AnswerInv, WayInv, [Next]_vars
  PROVE  /\ last' \in Nat /\ last <= last'
         /\ \A r \in Requests : r <= last => side'[r] = side[r]
<1>1. last \in Nat
  BY Members DEF TypeOK, WireOK
<1>2. CASE UNCHANGED <<last, side>>
  BY <1>1, <1>2
<1>3. CASE \E s \in Sides : DeciderSend(s)
  <2>1. PICK s \in Sides : SendOrder(s, 0)
    BY <1>3 DEF DeciderSend
  <2> QED
    BY <2>1, SendingOrder, Members DEF Core
<1>4. CASE \E o \in Requests : WatchAlter(o)
  <2>1. PICK o \in Requests : o \in Ids /\ side[o] \in Sides /\ SendOrder(side[o], o)
    BY <1>4, AlteringOrder, Members
  <2> QED
    BY <2>1, SendingOrder DEF Core
<1> QED
  BY <1>2, <1>3, <1>4, WireSteps

\* What a step does to the record: the listener adopts, a watcher gives its order
\* up, or the done flags are set for an order whose side is all in the storage.
LEMMA RecordSteps ==
  ASSUME TypeOK, Core, MarketInv, [Next]_vars
  PROVE  \/ UNCHANGED <<active, orders, completed, isDone>>
         \/ \E r \in Requests : ListenerAdopt(r)
         \/ \E o \in Requests : WatchCancelled(o) \/ WatchGone(o)
         \/ \E s \in Sides, o \in Requests :
              /\ ~Idle(s) /\ SetDoneFlags(s, o) /\ side[o] = s
              /\ Stored(o) /\ \A p \in orders[s] : Stored(p)
<1>0. /\ \A s \in Sides : StoredAt(s)
      /\ \A o \in Requests : side[o] \in Sides
  BY DEF MarketInv, StoredInv, TypeOK, WireOK
<1>a. AnswerInv /\ WayInv /\ LordInv
  BY DEF MarketInv
<1>1. CASE Quiet
  BY <1>1 DEF Quiet
<1>2. ASSUME NEW r \in Requests, ListenerTooSmall(r) \/ ListenerDoneCode(r)
      PROVE  \/ UNCHANGED <<active, orders, completed, isDone>>
             \/ \E s \in Sides, o \in Requests :
                  /\ ~Idle(s) /\ SetDoneFlags(s, o) /\ side[o] = s
                  /\ Stored(o) /\ \A p \in orders[s] : Stored(p)
  <2>0. PICK s \in Sides : s = side[r]
    BY <1>0
  <2>1. req[s] # 0 /\ ~Idle(s)
    BY <2>0, <1>a, <1>2, Taken
  <2>2. \A p \in orders[s] : Stored(p)
    BY <1>0, <2>1 DEF StoredAt
  <2>3. \/ UNCHANGED <<active, orders, completed, isDone>>
        \/ SetDoneFlags(s, prev[s]) /\ Stored(prev[s])
    BY <2>0, <1>2 DEF ListenerTooSmall, ListenerDoneCode, session
  <2>4. Stored(prev[s]) => prev[s] \in Requests /\ side[prev[s]] = s
    BY Members DEF Stored, Core, BoundInv
  <2> QED
    BY <2>1, <2>2, <2>3, <2>4
<1>3. ASSUME ListenerCancelled, side[lord] # "buy"
      PROVE  \E s \in Sides, o \in Requests :
               /\ ~Idle(s) /\ SetDoneFlags(s, o) /\ side[o] = s
               /\ Stored(o) /\ \A p \in orders[s] : Stored(p)
  <2>1. /\ side[lord] = "sell" /\ lord \in Requests /\ req["sell"] # 0 /\ ~Idle("sell")
        /\ lord = prev["sell"] /\ SetDoneFlags("sell", lord)
    BY <1>3, <1>a, PreviousCancelled
  <2>2. "sell" \in Sides /\ prev["sell"] # 0
    BY <2>1, Members
  <2>3. Stored(lord) /\ \A p \in orders["sell"] : Stored(p)
    BY <1>0, <2>1, <2>2 DEF StoredAt
  <2> QED
    BY <2>1, <2>2, <2>3
<1>4. ASSUME NEW o \in Requests, WatchDone(o)
      PROVE  \E s \in Sides, q \in Requests :
               /\ ~Idle(s) /\ SetDoneFlags(s, q) /\ side[q] = s
               /\ Stored(q) /\ \A p \in orders[s] : Stored(p)
  <2>1. side[o] \in Sides /\ ~Idle(side[o]) /\ Watching(o) /\ SetDoneFlags(side[o], o)
    BY <1>4, <1>a, Unwatched DEF WatchDone
  <2>2. Stored(o)
    BY <1>4 DEF WatchDone, Stored
  <2>3. \A p \in orders[side[o]] : Stored(p)
    BY <1>0, <2>1, <2>2 DEF StoredAt
  <2> QED
    BY <2>1, <2>2, <2>3
<1>5. CASE \/ \E s \in Sides : DeciderSend(s) \/ DeciderSendFails(s)
           \/ DeciderStore
           \/ \E r \in Requests : WatchAlter(r) \/ WatchStore(r)
  BY <1>5 DEF DeciderSend, DeciderSendFails, DeciderStore, WatchAlter, WatchStore, session
<1> QED
  BY <1>1, <1>2, <1>3, <1>4, <1>5, QuietOrLoud DEF Loud

\* The done flags complete the only side that can have orders.
LEMMA DoneFlagsHold ==
  ASSUME TypeOK, Core, MarketInv, HeldInv, NEW s \in Sides, NEW o \in Ids, ~Idle(s),
         SetDoneFlags(s, o)
  PROVE  /\ completed'["buy"] = 1
         /\ s = "sell" => isDone' /\ completed'["sell"] = 1 /\ completed["buy"] = 1
                          /\ active' = [active EXCEPT !["sell"] = 0]
         /\ s = "buy" => /\ LiveOrders("sell") = {} /\ completed'["sell"] = 0
                         /\ active' = [t \in Sides |-> IF t = "buy" THEN o ELSE 0]
<1>1. /\ completed[s] = 0 /\ completed'[s] = 1
      /\ \A t \in Sides \ {s} : completed'[t] = completed[t]
      /\ s = "sell" => isDone'
  BY DoneFlagsAsk
<1>2. s = "sell" => completed["buy"] = 1
  BY Turn DEF Core
<1>3. s = "buy" => LiveOrders("sell") = {} /\ completed["sell"] = 0
  BY <1>1, NothingToSell DEF MarketInv, Core, PhaseInv
<1> QED
  BY <1>1, <1>2, <1>3, Members DEF SetDoneFlags

LEMMA RecordStep ==
  ASSUME TypeOK, TypeOK', Core, Core', MarketInv, MarketInv', RankInv, HeldInv, [Next]_vars
  PROVE  /\ \A s \in Sides : ActiveAt(s)' /\ ListedAt(s)'
         /\ completed'["buy"] = 0 => active'["sell"] = 0
         /\ completed'["buy"] = 1 => active'["buy"] # 0
         /\ completed'["sell"] = 1 => isDone'
<1>0. /\ active \in [Sides -> Ids] /\ orders \in [Sides -> SUBSET Requests]
      /\ side \in [Requests -> Sides] /\ exch \in [Requests -> OrderStates]
      /\ stored \in [Requests -> OrderStates]
      /\ AnswerInv /\ KnownInv /\ WayInv /\ LordInv
  BY DEF TypeOK, SessionOK, WireOK, LedgerOK, MarketInv
<1>1. /\ \A s \in Sides : ActiveAt(s) /\ ListedAt(s)
      /\ completed["buy"] = 0 => active["sell"] = 0
      /\ completed["buy"] = 1 => active["buy"] # 0
      /\ completed["sell"] = 1 => isDone
  BY DEF HeldInv
<1>2. \A o \in Requests : (exch[o] # "absent" => exch'[o] # "absent") /\ (Stored(o) => Stored(o)')
  BY <1>0, OrderStays, StoredStays
<1>3. /\ last \in Nat /\ last' \in Nat /\ last <= last'
      /\ \A r \in Requests : r <= last => side'[r] = side[r]
  BY <1>0, SideStays, Members DEF TypeOK, WireOK
<1>4. \A r \in Requests : exch[r] # "absent" => r <= last
  BY <1>0 DEF AnswerInv, Core, BoundInv
<1>5. ASSUME NEW s \in Sides, active'[s] = active[s] PROVE ActiveAt(s)'
  <2>1. active[s] # 0 => active[s] \in Requests /\ active[s] \in Nat
    BY <1>0, Members
  <2> QED
    BY <1>1, <1>2, <1>3, <1>5, <2>1 DEF ActiveAt
<1>6. ASSUME NEW s \in Sides, NEW o \in Requests, active'[s] = o, exch[o] # "absent", side[o] = s
      PROVE  ActiveAt(s)'
  BY <1>2, <1>3, <1>4, <1>6, Members DEF ActiveAt
<1>7. ASSUME NEW s \in Sides, orders'[s] = orders[s],
             active'[s] = active[s] \/ \A p \in orders[s] : Stored(p)
      PROVE  ListedAt(s)'
  BY <1>0, <1>1, <1>2, <1>7 DEF ListedAt
<1>8. CASE UNCHANGED <<active, orders, completed, isDone>>
  BY <1>1, <1>5, <1>7, <1>8
<1>9. ASSUME NEW r \in Requests, ListenerAdopt(r)
      PROVE  /\ \A s \in Sides : ActiveAt(s)' /\ ListedAt(s)'
             /\ completed'["buy"] = 0 => active'["sell"] = 0
             /\ completed'["buy"] = 1 => active'["buy"] # 0
             /\ completed'["sell"] = 1 => isDone'
  <2>0. PICK s \in Sides : s = side[r]
    BY <1>0
  <2>1. /\ active' = [active EXCEPT ![s] = r] /\ orders' = [orders EXCEPT ![s] = @ \cup {r}]
        /\ UNCHANGED <<completed, isDone>> /\ exch[r] # "absent"
    BY <2>0, <1>0, <1>9 DEF ListenerAdopt, Takes, AnswerInv
  <2>2. req[s] # 0 /\ ~Idle(s) /\ r # 0
    BY <2>0, <1>0, <1>9, Taken
  <2>3. s = "sell" => completed["buy"] = 1
    BY <2>2, Turn DEF Core
  <2>4. \A p \in orders[s] : Stored(p)
    BY <2>2 DEF MarketInv, StoredInv, StoredAt
  <2>5. ListedAt(s)'
    BY <1>0, <1>2, <2>1, <2>4 DEF ListedAt
  <2>6. ActiveAt(s)'
    BY <1>0, <1>6, <2>0, <2>1
  <2>7. \A t \in Sides \ {s} : ActiveAt(t)' /\ ListedAt(t)'
    BY <1>0, <1>5, <1>7, <2>1
  <2> QED
    BY <1>0, <1>1, <2>1, <2>2, <2>3, <2>5, <2>6, <2>7, Members
<1>10. ASSUME NEW o \in Requests, WatchCancelled(o) \/ WatchGone(o)
       PROVE  /\ \A s \in Sides : ActiveAt(s)' /\ ListedAt(s)'
              /\ completed'["buy"] = 0 => active'["sell"] = 0
              /\ completed'["buy"] = 1 => active'["buy"] # 0
              /\ completed'["sell"] = 1 => isDone'
  <2>0. PICK s \in Sides : s = side[o]
    BY <1>0
  <2>1. /\ active' = [active EXCEPT ![s] = 0] /\ UNCHANGED <<orders, completed, isDone>>
    BY <2>0, <1>10 DEF WatchCancelled, WatchGone, Reopen
  <2>2. Watching(o) /\ ~Idle(s)
    BY <2>0, <1>0, <1>10, Unwatched
  <2>3. completed[s] = 0
    BY <2>2, Turn DEF Core
  <2>4. Stored(o)
    BY <1>0, <1>10 DEF WatchCancelled, WatchGone, KnownInv, Stored
  <2>5. \A p \in orders[s] : Stored(p)
    BY <2>0, <2>2, <2>4 DEF MarketInv, StoredInv, StoredAt
  <2>6. ActiveAt(s)'
    BY <1>0, <2>1 DEF ActiveAt
  <2>7. ListedAt(s)'
    BY <1>7, <2>1, <2>5
  <2>8. \A t \in Sides \ {s} : ActiveAt(t)' /\ ListedAt(t)'
    BY <1>0, <1>5, <1>7, <2>1
  <2> QED
    BY <1>0, <1>1, <2>1, <2>3, <2>6, <2>7, <2>8, Members
<1>11. ASSUME NEW s \in Sides, NEW o \in Requests,
              ~Idle(s), SetDoneFlags(s, o), side[o] = s, Stored(o),
              \A p \in orders[s] : Stored(p)
       PROVE  /\ \A t \in Sides : ActiveAt(t)' /\ ListedAt(t)'
              /\ completed'["buy"] = 0 => active'["sell"] = 0
              /\ completed'["buy"] = 1 => active'["buy"] # 0
              /\ completed'["sell"] = 1 => isDone'
  <2>0. o \in Ids /\ o # 0 /\ exch[o] # "absent"
    <3>1. Rank(stored[o]) <= Rank(exch[o]) /\ stored[o] # "absent"
      BY <1>11 DEF RankInv, Stored
    <3> QED
      BY <1>0, <3>1, Ranks, Members
  <2>1. orders' = orders
    BY <1>11 DEF SetDoneFlags
  <2>2. CASE s = "buy"
    <3>1. /\ completed'["sell"] = 0 /\ completed'["buy"] = 1
          /\ active' = [t \in Sides |-> IF t = "buy" THEN o ELSE 0]
      BY <1>11, <2>0, <2>2, DoneFlagsHold
    <3>2. active["sell"] = 0
      <4>1. completed["buy"] = 0
        BY <1>11, <2>2, Turn DEF Core
      <4> QED
        BY <1>1, <4>1
    <3>3. ActiveAt("buy")' /\ ActiveAt("sell")'
      BY <1>6, <1>11, <2>0, <2>2, <3>1, Members DEF ActiveAt
    <3>4. ListedAt("buy")' /\ ListedAt("sell")'
      BY <1>7, <1>11, <2>1, <2>2, <3>1, <3>2, Members
    <3> QED
      BY <2>0, <3>1, <3>3, <3>4, Members
  <2>3. CASE s = "sell"
    <3>1. /\ isDone' /\ completed'["buy"] = 1 /\ completed["buy"] = 1
          /\ active' = [active EXCEPT !["sell"] = 0]
      BY <1>11, <2>0, <2>3, DoneFlagsHold
    <3>2. active'["buy"] = active["buy"] /\ active["buy"] # 0
      BY <1>0, <1>1, <3>1, Members
    <3>3. ActiveAt("buy")' /\ ActiveAt("sell")'
      BY <1>0, <1>5, <3>1, <3>2, Members DEF ActiveAt
    <3>4. ListedAt("buy")' /\ ListedAt("sell")'
      BY <1>7, <1>11, <2>1, <2>3, <3>2, Members
    <3> QED
      BY <3>1, <3>2, <3>3, <3>4, Members
  <2> QED
    BY <2>2, <2>3, Members
<1> QED
  BY <1>8, <1>9, <1>10, <1>11, RecordSteps

LEMMA KeptStep ==
  ASSUME TypeOK, TypeOK', Core, Core', MarketInv, MarketInv', HeldInv, [Next]_vars
  PROVE  \A s \in Sides : KeptAt(s)'
<1>0. /\ active \in [Sides -> Ids] /\ req \in [Sides -> Ids]
      /\ side \in [Requests -> Sides] /\ wpc \in [Requests -> WatchStates]
      /\ AnswerInv /\ KnownInv /\ WayInv /\ LordInv
  BY DEF TypeOK, SessionOK, WireOK, WatchersOK, MarketInv
<1>a. \A s \in Sides : KeptAt(s) /\ (completed'[s] = 0 => completed[s] = 0)
  <2>1. \A s \in Sides : completed[s] \in {0, 1}
    BY Members DEF Core, PhaseInv
  <2>2. \A s \in Sides : completed[s] = 1 => completed'[s] = 1
    BY <1>0, CompletedStays
  <2> QED
    BY <2>1, <2>2 DEF HeldInv
<1>b. \A s \in Sides : LiveOrders(s)' = {} => KeptAt(s)'
  BY DEF KeptAt
<1>c. \A s \in Sides : need'[s] => LiveOrders(s)' = {}
  BY DEF MarketInv, LiveInv, LiveAt
<1>d. Loud => \A s \in Sides : LiveOrders(s)' = LiveOrders(s)
  BY <1>0, SameLive
<1>1. CASE Quiet
  <2> SUFFICES ASSUME NEW s \in Sides, completed'[s] = 0, NEW o \in LiveOrders(s)'
               PROVE  \/ o \in {active'[s], req'[s]}
                      \/ Sending(s)' /\ o = dreq'
                      \/ \E w \in Requests : side'[w] = s /\ wpc'[w] = "altered" /\ o = wreq'[w]
    BY DEF KeptAt
  <2>1. UNCHANGED <<active, req, dreq, side, wreq>> /\ (dpc' = "sent" <=> dpc = "sent")
    BY <1>1 DEF Quiet
  <2>2. \A w \in Requests : wpc'[w] = "altered" <=> wpc[w] = "altered"
    BY <1>1 DEF Quiet
  <2>3. o \in Requests /\ side[o] = s /\ (exch[o] \in Live \/ ExchangeCreates(o))
    BY <1>0, <2>1, OrderStays DEF LiveOrders
  <2>4. CASE exch[o] \in Live
    <3>1. o \in LiveOrders(s) /\ completed[s] = 0
      BY <1>a, <2>3, <2>4 DEF LiveOrders
    <3> QED
      BY <1>a, <2>1, <2>2, <3>1 DEF KeptAt, Sending
  <2>5. CASE ExchangeCreates(o)
    <3>1. Pending(o)
      BY <2>5 DEF ExchangeCreates, Pending
    <3>2. \/ o = req[side[o]]
          \/ dpc = "sent" /\ o = dreq
          \/ \E w \in Requests : wpc[w] = "altered" /\ o = wreq[w] /\ side[wreq[w]] = side[w]
      BY <1>0, <2>3, <3>1 DEF WayInv
    <3> QED
      BY <2>1, <2>2, <2>3, <3>2 DEF Sending
  <2> QED
    BY <2>3, <2>4, <2>5
<1>2. ASSUME NEW s \in Sides, DeciderSend(s) \/ DeciderSendFails(s)
      PROVE  \A t \in Sides : KeptAt(t)'
  <2>1. need[s] /\ dpc = "idle" /\ UNCHANGED <<active, req, completed>> /\ Loud
    BY <1>2 DEF DeciderSend, DeciderSendFails, Loud
  <2>2. \A w \in Requests : wpc[w] # "altered"
    BY <2>1, NeedAlone DEF Watching
  <2> QED
    BY <1>a, <1>d, <2>1, <2>2 DEF KeptAt, Sending
<1>3. CASE DeciderStore
  <2>0. PICK s \in Sides : s = side[dreq]
    BY <1>0, <1>3, SenderAlone DEF DeciderStore
  <2>1. /\ req' = [req EXCEPT ![s] = dreq] /\ dpc = "sent"
        /\ UNCHANGED <<active, completed>> /\ Loud
    BY <2>0, <1>3 DEF DeciderStore, Loud
  <2>2. req[s] = 0 /\ \A w \in Requests : wpc[w] # "altered"
    BY <2>1, SenderAlone DEF Watching
  <2>3. \A t \in Sides \ {s} : ~Sending(t) /\ req'[t] = req[t]
    BY <2>0, <1>0, <2>1 DEF Sending
  <2>4. \A t \in Sides \ {s} : KeptAt(t)'
    BY <1>a, <1>d, <2>1, <2>2, <2>3, Members DEF KeptAt
  <2>5. req'[s] = dreq
    BY <1>0, <2>1
  <2>6. KeptAt(s)'
    <3>1. KeptAt(s) /\ LiveOrders(s)' = LiveOrders(s) /\ completed'[s] = completed[s]
          /\ active'[s] = active[s]
      BY <1>a, <1>d, <2>1
    <3>2. \A o \in LiveOrders(s) : o \in Requests /\ o # 0
      BY Members DEF LiveOrders
    <3> QED
      BY <2>2, <2>5, <3>1, <3>2 DEF KeptAt
  <2> QED
    BY <2>4, <2>6
<1>4. ASSUME NEW s \in Sides, NEW o \in Ids, ~Idle(s), SetDoneFlags(s, o), Loud
      PROVE  \A t \in Sides : KeptAt(t)'
  <2>1. completed'[s] = 1 /\ completed'["buy"] = 1
    BY <1>4, DoneFlagsAsk, DoneFlagsHold
  <2>2. s = "buy" => LiveOrders("sell") = {}
    BY <1>4, DoneFlagsHold
  <2>3. s = "buy" => KeptAt("sell")'
    BY <1>4, <1>b, <1>d, <2>2, Members
  <2> QED
    BY <2>1, <2>3, Members DEF KeptAt
<1>5. ASSUME NEW r \in Requests, ListenerAdopt(r) PROVE \A t \in Sides : KeptAt(t)'
  <2>0. PICK s \in Sides : s = side[r]
    BY <1>0
  <2>1. /\ active' = [active EXCEPT ![s] = r] /\ req' = [req EXCEPT ![s] = 0]
        /\ UNCHANGED completed /\ exch[r] # "absent" /\ Loud
    BY <2>0, <1>0, <1>5 DEF ListenerAdopt, Takes, AnswerInv, Loud
  <2>2. /\ req[s] = r /\ r # 0 /\ dpc # "sent" /\ \A o \in Requests : ~Watching(o)
    BY <2>0, <1>0, <1>5, Taken
  <2>3. LiveOrders(s) \subseteq {r, target[r]}
    BY <2>2 DEF MarketInv, LiveInv, LiveAt
  <2>4. LiveOrders(s) \subseteq {r}
    <3>1. \A o \in LiveOrders(s) : o \in Requests /\ o # 0 /\ exch[o] \in Live
      BY Members DEF LiveOrders
    <3>2. target[r] # 0 => exch[target[r]] \notin Live
      BY <1>0, <2>1 DEF AnswerInv, Live, Final
    <3> QED
      BY <2>3, <3>1, <3>2
  <2>5. KeptAt(s)'
    <3>1. LiveOrders(s)' \subseteq {active'[s]}
      BY <1>0, <1>d, <2>1, <2>4
    <3> QED
      BY <3>1 DEF KeptAt
  <2>6. \A t \in Sides \ {s} : /\ active'[t] = active[t] /\ req'[t] = req[t]
                               /\ LiveOrders(t)' = LiveOrders(t) /\ completed'[t] = completed[t]
    BY <1>0, <1>d, <2>1
  <2>7. \A t \in Sides \ {s} : KeptAt(t)'
    BY <1>a, <2>2, <2>6 DEF KeptAt, Sending, Watching
  <2> QED
    BY <2>5, <2>7
<1>6. ASSUME NEW r \in Requests, ListenerTooSmall(r) \/ ListenerDoneCode(r)
      PROVE  \A t \in Sides : KeptAt(t)'
  <2>0. PICK s \in Sides : s = side[r]
    BY <1>0
  <2>1. /\ ~Idle(s) /\ dpc # "sent" /\ \A o \in Requests : wpc[o] # "altered"
        /\ prev[s] \in Ids /\ Loud /\ \A t \in Sides \ {s} : req[t] = 0
    BY <2>0, <1>0, <1>6, Taken DEF Watching, TypeOK, SessionOK, Loud
  <2>2. CASE UNCHANGED session
    BY <1>a, <1>d, <2>1, <2>2 DEF KeptAt, Sending, session
  <2>3. CASE SetDoneFlags(s, prev[s])
    BY <1>4, <2>1, <2>3
  <2>4. CASE /\ req' = [req EXCEPT ![s] = 0] /\ need' = [need EXCEPT ![s] = TRUE]
             /\ UNCHANGED <<active, completed>>
    <3>1. need'[s]
      BY <2>4 DEF TypeOK, SessionOK
    <3>2. \A t \in Sides \ {s} : req'[t] = req[t]
      BY <1>0, <2>4
    <3>3. \A t \in Sides \ {s} : KeptAt(t)'
      BY <1>a, <1>d, <2>1, <2>4, <3>2 DEF KeptAt, Sending
    <3> QED
      BY <1>b, <1>c, <3>1, <3>3
  <2> QED
    BY <2>0, <1>6, <2>2, <2>3, <2>4 DEF ListenerTooSmall, ListenerDoneCode
<1>7. ASSUME ListenerCancelled, side[lord] # "buy" PROVE \A t \in Sides : KeptAt(t)'
  <2>1. ~Idle("sell") /\ SetDoneFlags("sell", lord) /\ lord \in Ids
    BY <1>0, <1>7, PreviousCancelled, Members
  <2> QED
    BY <1>4, <1>7, <2>1, Members DEF Loud
<1>8. ASSUME NEW o \in Requests, WatchAlter(o) PROVE \A t \in Sides : KeptAt(t)'
  <2>1. /\ dpc # "sent" /\ wpc[o] = "watch" /\ \A q \in Requests : Watching(q) => q = o
        /\ UNCHANGED <<active, req, completed>> /\ Loud
    BY <1>0, <1>8, AlteringOrder DEF session, Loud
  <2>2. \A q \in Requests : wpc[q] # "altered"
    BY <2>1 DEF Watching
  <2> QED
    BY <1>a, <1>d, <2>1, <2>2 DEF KeptAt, Sending
<1>9. ASSUME NEW o \in Requests, WatchStore(o) PROVE \A t \in Sides : KeptAt(t)'
  <2>0. PICK s \in Sides : s = side[o]
    BY <1>0
  <2>1. /\ wpc[o] = "altered" /\ req' = [req EXCEPT ![s] = wreq[o]]
        /\ UNCHANGED <<active, completed>> /\ Loud
    BY <2>0, <1>9 DEF WatchStore, Loud
  <2>2. /\ dpc # "sent" /\ \A t \in Sides : req[t] = 0
        /\ \A q \in Requests : Watching(q) => q = o
    BY <2>1, WatcherAlone DEF Watching
  <2>3. \A q \in Requests : wpc[q] = "altered" => q = o
    BY <2>2 DEF Watching
  <2>4. req'[s] = wreq[o] /\ \A t \in Sides \ {s} : req'[t] = req[t]
    BY <1>0, <2>1
  <2>5. \A t \in Sides : \A q \in LiveOrders(t) : q \in Requests /\ q # 0
    BY Members DEF LiveOrders
  <2>6. KeptAt(s)'
    BY <1>a, <1>d, <2>1, <2>2, <2>3, <2>4, <2>5 DEF KeptAt, Sending
  <2>7. \A t \in Sides \ {s} : KeptAt(t)'
    BY <2>0, <1>a, <1>d, <2>1, <2>2, <2>3, <2>4 DEF KeptAt, Sending
  <2> QED
    BY <2>6, <2>7
<1>10. ASSUME NEW o \in Requests, WatchCancelled(o) \/ WatchGone(o)
       PROVE  \A t \in Sides : KeptAt(t)'
  <2>0. PICK s \in Sides : s = side[o]
    BY <1>0
  <2>1. /\ need' = [need EXCEPT ![s] = TRUE] /\ active' = [active EXCEPT ![s] = 0]
        /\ UNCHANGED <<req, completed>> /\ Loud
    BY <2>0, <1>10 DEF WatchCancelled, WatchGone, Reopen, Loud
  <2>2. /\ Watching(o) /\ wpc[o] # "altered" /\ dpc # "sent"
    BY <1>0, <1>10, Unwatched
  <2>3. \A q \in Requests : Watching(q) => q = o
    BY <2>2, WatcherAlone
  <2>4. \A q \in Requests : wpc[q] # "altered"
    BY <2>2, <2>3 DEF Watching
  <2>5. need'[s]
    BY <2>1 DEF TypeOK, SessionOK
  <2>6. \A t \in Sides \ {s} : active'[t] = active[t]
    BY <1>0, <2>1
  <2>7. \A t \in Sides \ {s} : KeptAt(t)'
    BY <1>a, <1>d, <2>1, <2>2, <2>4, <2>6 DEF KeptAt, Sending
  <2> QED
    BY <1>b, <1>c, <2>5, <2>7
<1>11. ASSUME NEW o \in Requests, WatchDone(o) PROVE \A t \in Sides : KeptAt(t)'
  <2>1. side[o] \in Sides /\ ~Idle(side[o]) /\ SetDoneFlags(side[o], o) /\ o \in Ids
    BY <1>0, <1>11, Unwatched, Members DEF WatchDone
  <2> QED
    BY <1>4, <1>11, <2>1 DEF Loud
<1> QED
  BY <1>1, <1>2, <1>3, <1>5, <1>6, <1>7, <1>8, <1>9, <1>10, <1>11, QuietOrLoud DEF Loud

\* A session that is sound goes on being so.
Sound == Core /\ MarketInv /\ RankInv /\ HeldInv

LEMMA SoundStep ==
  ASSUME TypeOK, Sound, [Next]_vars PROVE TypeOK' /\ Sound'
<1>1. Core /\ MarketInv /\ RankInv /\ HeldInv /\ AnswerInv
  BY DEF Sound, MarketInv
<1>2. TypeOK' /\ Core' /\ MarketInv'
  BY <1>1, StepIInv, StepMarket DEF IInv
<1>3. RankInv'
  BY <1>1, <1>2, RankStep
<1>4. HeldInv'
  BY <1>1, <1>2, RecordStep, KeptStep DEF HeldInv
<1> QED
  BY <1>1, <1>2, <1>3, <1>4 DEF Sound

(* Shutting down and starting again.                                       *)

\* Orders that are asked for are stored as the exchange has them.
Refreshed == \A o \in Requests : stored'[o] \in {stored[o], exch[o]}

LEMMA RefreshedStorage ==
  ASSUME TypeOK, KnownInv, StoredInv, RankInv, Refreshed,
         UNCHANGED <<exch, target, backwards>>
  PROVE  \A o \in Requests :
           /\ Stored(o) => Stored(o)'
           /\ stored'[o] \in Final => exch'[o] = stored'[o]
           /\ Rank(stored'[o]) <= Rank(exch'[o])
           /\ target'[o] # 0 /\ ~backwards' => stored'[target'[o]] \in {"active"} \cup Final
<1>0. /\ stored \in [Requests -> OrderStates] /\ exch \in [Requests -> OrderStates]
      /\ \A r \in Requests : target[r] # 0 => target[r] \in Requests
  BY Members DEF TypeOK, LedgerOK, WireOK
<1>1. \A st \in OrderStates : /\ Rank(st) \in 0..3 /\ (Rank(st) = 0 <=> st = "absent")
                              /\ Rank(st) >= 2 <=> st \in {"active"} \cup Final
  BY Ranks
<1>2. ASSUME NEW o \in Requests
      PROVE  /\ Stored(o) => Stored(o)'
             /\ stored'[o] \in Final => exch'[o] = stored'[o]
             /\ Rank(stored'[o]) <= Rank(exch'[o])
             /\ stored[o] \in {"active"} \cup Final => stored'[o] \in {"active"} \cup Final
  <2>1. stored'[o] = stored[o] \/ stored'[o] = exch[o]
    BY DEF Refreshed
  <2>2. Rank(stored[o]) <= Rank(exch[o]) /\ (stored[o] \in Final => exch[o] = stored[o])
    BY DEF RankInv, KnownInv
  <2>3. CASE stored'[o] = stored[o]
    BY <2>2, <2>3 DEF Stored
  <2>4. CASE stored'[o] = exch[o]
    <3>1. Rank(stored'[o]) >= Rank(stored[o]) /\ stored'[o] \in OrderStates
      BY <1>0, <1>1, <2>2, <2>4
    <3>2. stored[o] # "absent" => stored'[o] # "absent"
      BY <1>0, <1>1, <3>1
    <3>3. Rank(stored[o]) >= 2 => Rank(stored'[o]) >= 2
      BY <1>0, <1>1, <3>1
    <3>4. Rank(stored'[o]) <= Rank(exch'[o])
      BY <1>0, <1>1, <2>4
    <3> QED
      BY <1>0, <1>1, <2>4, <3>1, <3>2, <3>3, <3>4 DEF Stored
  <2> QED
    BY <2>1, <2>3, <2>4
<1>3. \A o \in Requests :
        target'[o] # 0 /\ ~backwards' => stored'[target'[o]] \in {"active"} \cup Final
  BY <1>0, <1>2 DEF StoredInv
<1> QED
  BY <1>2, <1>3

\* Cancel requests that nobody waits for change nothing else.
LEMMA CleanUpSound ==
  ASSUME TypeOK, Sound, CleanUp PROVE TypeOK' /\ Sound'
<1>1. /\ UNCHANGED <<session, decider, listener, watchers, failed, wire, get, ledger>>
      /\ \A o \in Requests : cancel'[o] \in {cancel[o], "sent"}
      /\ cancel' \in [Requests -> CancelStates]
  BY StateNames DEF CleanUp, TypeOK, CallsOK
<1>2. TypeOK'
  BY <1>1 DEF session, decider, listener, watchers, wire, ledger, TypeOK, SessionOK,
     DeciderOK, ListenerOK, WatchersOK, WireOK, CallsOK, LedgerOK
<1>3. Core'
  BY <1>1 DEF session, decider, listener, watchers, wire, Sound, Core, BoundInv, TokenInv,
     Token, PhaseInv, Idle, Sending, NoWatcher, Watching, WatcherHasActive
<1>4. MarketInv'
  <2>1. AnswerInv' /\ WayInv' /\ LordInv' /\ EndInv'
    BY <1>1 DEF session, decider, listener, watchers, wire, ledger, Sound, MarketInv,
       AnswerInv, WayInv, Pending, LordInv, EndInv
  <2>2. KnownInv'
    BY <1>1 DEF watchers, ledger, Sound, MarketInv, KnownInv, Stored
  <2>3. LiveInv'
    BY <1>1 DEF session, decider, watchers, wire, ledger, Sound, MarketInv, LiveInv, LiveAt,
       LiveOrders, Sending, Watching
  <2>4. StoredInv'
    BY <1>1 DEF session, decider, watchers, wire, ledger, Sound, MarketInv, StoredInv, StoredAt,
       Stored, Sending, Watching
  <2> QED
    BY <2>1, <2>2, <2>3, <2>4 DEF MarketInv
<1>5. RankInv'
  BY <1>1 DEF ledger, Sound, RankInv
<1>6. HeldInv'
  BY <1>1 DEF session, decider, watchers, wire, ledger, Sound, HeldInv, ActiveAt, ListedAt,
     KeptAt, Stored, LiveOrders, Sending
<1> QED
  BY <1>2, <1>3, <1>4, <1>5, <1>6 DEF Sound

\* Nor does the refreshed storage.
LEMMA LoadSound ==
  ASSUME TypeOK, Sound, Load PROVE TypeOK' /\ Sound'
<1>1. /\ UNCHANGED <<session, decider, listener, watchers, failed, wire, calls, exch, backwards>>
      /\ stored' \in [Requests -> OrderStates] /\ reported' \in [Requests -> OrderStates]
      /\ Refreshed
  BY DEF Load, Refreshed, TypeOK, LedgerOK
<1>2. TypeOK'
  BY <1>1 DEF session, decider, listener, watchers, wire, calls, TypeOK, SessionOK,
     DeciderOK, ListenerOK, WatchersOK, WireOK, CallsOK, LedgerOK
<1>3. Core'
  BY <1>1 DEF session, decider, listener, watchers, wire, Sound, Core, BoundInv, TokenInv,
     Token, PhaseInv, Idle, Sending, NoWatcher, Watching, WatcherHasActive
<1>4. \A o \in Requests :
        /\ Stored(o) => Stored(o)'
        /\ stored'[o] \in Final => exch'[o] = stored'[o]
        /\ Rank(stored'[o]) <= Rank(exch'[o])
        /\ target'[o] # 0 /\ ~backwards' => stored'[target'[o]] \in {"active"} \cup Final
  BY <1>1, RefreshedStorage DEF Sound, MarketInv, wire
<1>5. MarketInv'
  <2>1. AnswerInv' /\ WayInv' /\ LordInv' /\ EndInv'
    BY <1>1 DEF session, decider, listener, watchers, wire, Sound, MarketInv,
       AnswerInv, WayInv, Pending, LordInv, EndInv
  <2>2. KnownInv'
    BY <1>1, <1>4 DEF watchers, calls, Sound, MarketInv, KnownInv
  <2>3. LiveInv'
    BY <1>1 DEF session, decider, watchers, wire, Sound, MarketInv, LiveInv, LiveAt,
       LiveOrders, Sending, Watching
  <2>4. \A s \in Sides : StoredAt(s)'
    <3>1. \A s \in Sides : StoredAt(s) /\ orders[s] \subseteq Requests
                           /\ (prev[s] # 0 => prev[s] \in Requests)
      BY Members DEF Sound, MarketInv, StoredInv, TypeOK, SessionOK
    <3>2. \A s \in Sides : prev[s] # 0 => Stored(prev[s])'
      <4>1. \A o \in Requests : stored[o] # "absent" => stored'[o] # "absent"
        BY <1>4 DEF Stored
      <4> QED
        BY <1>1, <3>1, <4>1 DEF StoredAt, Stored, session
    <3> QED
      BY <1>1, <1>4, <3>1, <3>2 DEF StoredAt, session, decider, watchers, wire, Sending, Watching
  <2>5. StoredInv'
    BY <1>1, <1>4, <2>4 DEF session, Sound, MarketInv, StoredInv
  <2> QED
    BY <2>1, <2>2, <2>3, <2>5 DEF MarketInv
<1>6. RankInv'
  BY <1>1, <1>4 DEF calls, Sound, RankInv
<1>7. HeldInv'
  <2>1. \A s \in Sides : orders[s] \subseteq Requests /\ ListedAt(s)
    BY DEF TypeOK, SessionOK, Sound, HeldInv
  <2>2. \A s \in Sides : ListedAt(s)'
    BY <1>1, <1>4, <2>1 DEF ListedAt, session
  <2> QED
    BY <1>1, <2>2 DEF session, decider, watchers, wire, Sound, HeldInv, ActiveAt,
       KeptAt, LiveOrders, Sending
<1> QED
  BY <1>2, <1>3, <1>5, <1>6, <1>7 DEF Sound

(* The second life.                                                        *)

\* Between the lives nobody runs, and the session is the file's.
Resting ==
  /\ lpc = "stopped" /\ \A o \in Requests : wpc[o] \in {"none", "stopped"}
  /\ file = req /\ tidy = Resumable

\* The orders os that are watched again take the place of whoever had the token.
Inherit(os) ==
  /\ \A p, q \in os : p = q
  /\ \A o \in os :
       /\ active'[side[o]] = o /\ o <= last /\ exch[o] # "absent"
       /\ ~need[side[o]] /\ completed[side[o]] = 0
       /\ side[o] = "sell" => completed["buy"] = 1
       /\ LiveOrders(side[o]) \subseteq {o}
       /\ \A p \in orders[side[o]] : Stored(p) \/ p = o
  /\ \A s \in Sides :
       /\ active'[s] # active[s] => active[s] = 0 /\ active'[s] \in os /\ side[active'[s]] = s
       /\ completed[s] = 0 => LiveOrders(s) \subseteq {active'[s]}
       /\ ~backwards => LiveOrders(s) \subseteq os

\* Whatever is resumed in such a way is sound.
LEMMA InheritedSound ==
  ASSUME TypeOK, TypeOK', Sound, Resting, dpc = "stopped", ~isDone,
         NEW os \in SUBSET Requests, Inherit(os), WatchOnly(os), Fresh, Refreshed,
         UNCHANGED <<need, prev, orders, completed, isDone, last, side, target, exch, backwards>>
  PROVE  Sound'
<1>0. /\ active \in [Sides -> Ids] /\ side \in [Requests -> Sides]
      /\ orders \in [Sides -> SUBSET Requests] /\ prev \in [Sides -> Ids]
      /\ status \in [Requests -> Statuses]
  BY DEF TypeOK, SessionOK, WireOK
<1>1. /\ \A s \in Sides : req'[s] = 0 /\ ~Sending(s)'
      /\ dpc' = "idle" /\ lpc' = "off"
      /\ \A o \in Requests : cancel'[o] = "none" /\ get'[o] = "none"
  BY DEF Fresh, NoIds, Sending
<1>2. \A r \in Requests : /\ ~Pending(r)'
                          /\ status'[r] # "unsent" => status[r] # "unsent"
                          /\ status'[r] \in {status[r], "discarded"}
                          /\ status'[r] # "created" /\ status'[r] # "doneCode"
                          /\ status[r] \in {"created", "used", "discarded"} =>
                               status'[r] \in {"used", "discarded"}
  BY DEF Fresh, Pending, Answers
<1>3. \A o \in Requests : /\ Watching(o)' <=> o \in os
                          /\ wpc'[o] # "altered" /\ wpc'[o] # "cancelling"
                          /\ wpc'[o] # "none" => o \in os \/ wpc[o] # "none"
  BY DEF WatchOnly, Resting, Watching
<1>4. Core'
  <2>1. BoundInv'
    BY <1>1, <1>2, <1>3 DEF Sound, Core, BoundInv, Inherit
  <2>2. TokenInv'
    BY <1>1, <1>3 DEF TokenInv, Token, NoWatcher, Inherit
  <2>3. ASSUME NEW s \in Sides, Idle(s), \A o \in os : side[o] # s PROVE Idle(s)'
    BY <1>1, <1>3, <2>3 DEF Idle, NoWatcher
  <2>4. PhaseInv'
    <3>1. \A o \in os : completed[side[o]] = 0 /\ (side[o] = "sell" => completed["buy"] = 1)
      BY DEF Inherit
    <3> QED
      BY <2>3, <3>1, Members DEF Sound, Core, PhaseInv
  <2>5. WatcherHasActive'
    BY <1>3 DEF WatcherHasActive, Inherit
  <2> QED
    BY <2>1, <2>2, <2>4, <2>5 DEF Core
<1>5. \A o \in Requests :
        /\ Stored(o) => Stored(o)'
        /\ stored'[o] \in Final => exch'[o] = stored'[o]
        /\ Rank(stored'[o]) <= Rank(exch'[o])
        /\ target'[o] # 0 /\ ~backwards' => stored'[target'[o]] \in {"active"} \cup Final
  BY RefreshedStorage DEF Sound, MarketInv
<1>6. \A s \in Sides : LiveOrders(s)' = LiveOrders(s)
  BY DEF LiveOrders
<1>7. MarketInv'
  <2>1. AnswerInv'
    BY <1>2 DEF Sound, MarketInv, AnswerInv
  <2>2. KnownInv'
    BY <1>1, <1>3, <1>5 DEF Sound, MarketInv, KnownInv, Final, Inherit
  <2>3. WayInv' /\ LordInv'
    BY <1>1, <1>2, <1>3 DEF WayInv, LordInv
  <2>4. EndInv'
    BY <1>1 DEF Sound, MarketInv, EndInv
  <2>5. LiveInv'
    <3> SUFFICES ASSUME NEW s \in Sides PROVE LiveAt(s)'
      BY DEF LiveInv
    <3>1. LiveAt(s)
      BY DEF Sound, MarketInv, LiveInv
    <3>2. \A o \in Requests : side'[o] = s /\ Watching(o)' =>
            wpc'[o] # "altered" /\ LiveOrders(s)' \subseteq {o}
      BY <1>3, <1>6 DEF Inherit
    <3> QED
      BY <1>1, <1>6, <3>1, <3>2 DEF LiveAt
  <2>6. ASSUME NEW s \in Sides PROVE StoredAt(s)'
    <3>1. StoredAt(s) /\ orders[s] \subseteq Requests /\ (prev[s] # 0 => prev[s] \in Requests)
      BY <1>0, Members DEF Sound, MarketInv, StoredInv
    <3>2. prev'[s] # 0 => Stored(prev[s])'
      <4>1. \A o \in Requests : stored[o] # "absent" => stored'[o] # "absent"
        BY <1>5 DEF Stored
      <4> QED
        BY <3>1, <4>1 DEF StoredAt, Stored
    <3>3. need'[s] => \A p \in orders'[s] : Stored(p)'
      BY <1>5, <3>1 DEF StoredAt
    <3>4. \A o \in Requests : side'[o] = s /\ Watching(o)' =>
            \A p \in orders'[s] \ {o} : Stored(p)'
      BY <1>3, <1>5, <3>1 DEF Inherit
    <3> QED
      BY <1>1, <3>2, <3>3, <3>4 DEF StoredAt
  <2>7. StoredInv'
    BY <1>5, <2>6 DEF Sound, MarketInv, StoredInv
  <2> QED
    BY <2>1, <2>2, <2>3, <2>4, <2>5, <2>7 DEF MarketInv
<1>8. RankInv'
  <2>1. "none" \notin OrderStates
    BY DEF OrderStates
  <2> QED
    BY <1>1, <1>5, <2>1 DEF RankInv
<1>9. HeldInv'
  <2>1. ASSUME NEW s \in Sides PROVE ActiveAt(s)' /\ ListedAt(s)' /\ KeptAt(s)'
    <3>1. ActiveAt(s) /\ ListedAt(s)
      BY DEF Sound, HeldInv
    <3>2. ActiveAt(s)'
      BY <3>1 DEF ActiveAt, Inherit
    <3>3. ListedAt(s)'
      BY <1>0, <1>5, <3>1, Members DEF ListedAt, Inherit
    <3>4. KeptAt(s)'
      BY <1>6 DEF KeptAt, Inherit
    <3> QED
      BY <3>2, <3>3, <3>4
  <2>2. completed'["buy"] = 0 => active'["sell"] = 0
    BY Members DEF Sound, HeldInv, Inherit
  <2>3. completed'["buy"] = 1 => active'["buy"] # 0
    BY Members DEF Sound, HeldInv, Inherit
  <2> QED
    BY <2>1, <2>2, <2>3 DEF Sound, HeldInv
<1> QED
  BY <1>4, <1>7, <1>8, <1>9 DEF Sound

\* What a resumable record tells at rest: on each side whose orders can be live it
\* knows the only one, as the active one or by the request's number.
LEMMA RestingRecord ==
  ASSUME TypeOK, Sound, Resting, tidy, dpc = "stopped", ~isDone
  PROVE  /\ \A s \in Sides :
              /\ completed[s] = 0 => LiveOrders(s) \subseteq {active[s], req[s]}
              /\ completed[s] = 1 /\ ~backwards => LiveOrders(s) = {}
              /\ active[s] # 0 => /\ req[s] = 0 /\ ~need[s] /\ active[s] \in Requests
                                  /\ active[s] <= last /\ side[active[s]] = s
                                  /\ exch[active[s]] # "absent"
              /\ req[s] # 0 => /\ req[s] \in Requests /\ req[s] <= last /\ side[req[s]] = s
                               /\ ~need[s] /\ completed[s] = 0
              /\ \A p \in orders[s] : Stored(p) \/ p = active[s]
              /\ \A o \in LiveOrders(s) : o \in Requests /\ o # 0 /\ side[o] = s
         /\ completed["buy"] \in {0, 1} /\ completed["sell"] = 0
         /\ completed["buy"] = 0 =>
              active["sell"] = 0 /\ req["sell"] = 0 /\ LiveOrders("sell") = {}
         /\ completed["buy"] = 1 => active["buy"] # 0 /\ req["buy"] = 0
         /\ active["sell"] = 0 /\ active["buy"] # 0 => completed["buy"] = 0
<1>0. /\ \A s \in Sides : active[s] \in Ids /\ req[s] \in Ids
      /\ \A r \in Requests : side[r] \in Sides
  BY DEF TypeOK, SessionOK, WireOK
<1>1. \A s \in Sides : completed[s] = 0 => LiveOrders(s) \subseteq {active[s], req[s]}
  <2>1. \A s \in Sides : KeptAt(s) /\ ~Sending(s)
    BY DEF Sound, HeldInv, Sending
  <2>2. \A w \in Requests : wpc[w] # "altered"
    BY DEF Resting
  <2> QED
    BY <2>1, <2>2 DEF KeptAt
<1>2. \A s \in Sides : completed[s] = 1 /\ ~backwards => LiveOrders(s) = {}
  BY DEF Sound, MarketInv, LiveInv, LiveAt
<1>3. \A s \in Sides :
        active[s] # 0 => /\ req[s] = 0 /\ ~need[s] /\ active[s] \in Requests
                         /\ active[s] <= last /\ side[active[s]] = s
                         /\ exch[active[s]] # "absent"
  <2>1. \A s \in Sides : ActiveAt(s) /\ (active[s] # 0 => req[s] = 0 /\ ~need[s])
    BY DEF Sound, HeldInv, Resting, Resumable
  <2> QED
    BY <1>0, <2>1, Members DEF ActiveAt
<1>4. ASSUME NEW s \in Sides, req[s] # 0
      PROVE  /\ req[s] \in Requests /\ req[s] <= last /\ side[req[s]] = s
             /\ ~need[s] /\ completed[s] = 0
  <2>1. req[s] \in Requests /\ side[req[s]] = s /\ status[req[s]] # "unsent"
    BY <1>0, <1>4, Members DEF Sound, MarketInv, WayInv
  <2>2. ~need[s] /\ ~Idle(s)
    BY <1>4 DEF Sound, Core, TokenInv, Token, Idle
  <2> QED
    BY <2>1, <2>2, Turn DEF Sound, Core, BoundInv
<1>5. \A s \in Sides : \A p \in orders[s] : Stored(p) \/ p = active[s]
  BY DEF Sound, HeldInv, ListedAt
<1>6. \A s \in Sides : \A o \in LiveOrders(s) : o \in Requests /\ o # 0 /\ side[o] = s
  BY Members DEF LiveOrders
<1>7. completed["buy"] \in {0, 1} /\ completed["sell"] = 0
  BY DEF Sound, Core, PhaseInv, HeldInv
<1>8. completed["buy"] = 0 => active["sell"] = 0 /\ req["sell"] = 0 /\ LiveOrders("sell") = {}
  BY NothingToSell DEF Sound, Core, PhaseInv, Idle, MarketInv, HeldInv
<1>9. completed["buy"] = 1 => active["buy"] # 0 /\ req["buy"] = 0
  BY DEF Sound, Core, PhaseInv, Idle, HeldInv
<1>10. active["sell"] = 0 /\ active["buy"] # 0 => completed["buy"] = 0
  BY DEF Resting, Resumable
<1> QED
  BY <1>1, <1>2, <1>3, <1>4, <1>5, <1>6, <1>7, <1>8, <1>9, <1>10

\* Resuming a session leaves it to the watcher of its only order, or to nobody.
LEMMA ResumeInherits ==
  ASSUME TypeOK, Sound, Resting, tidy, dpc = "stopped",
         ResumeWatch \/ ResumeIdle \/ \E s \in Sides : ResumeByExtID(s)
  PROVE  /\ \E os \in SUBSET Requests : Inherit(os) /\ WatchOnly(os)
         /\ ~isDone /\ Fresh /\ Refreshed
         /\ UNCHANGED <<need, prev, orders, completed, isDone, last, side, target, exch,
                        backwards>>
<1>0. ~isDone /\ Fresh
      /\ UNCHANGED <<need, prev, orders, completed, isDone, last, side, target, exch, backwards>>
  BY DEF ResumeWatch, ResumeIdle, ResumeByExtID, ledger
<1>1. /\ \A s \in Sides :
           /\ completed[s] = 0 => LiveOrders(s) \subseteq {active[s], req[s]}
           /\ completed[s] = 1 /\ ~backwards => LiveOrders(s) = {}
           /\ active[s] # 0 => /\ req[s] = 0 /\ ~need[s] /\ active[s] \in Requests
                               /\ active[s] <= last /\ side[active[s]] = s
                               /\ exch[active[s]] # "absent"
           /\ req[s] # 0 => /\ req[s] \in Requests /\ req[s] <= last /\ side[req[s]] = s
                            /\ ~need[s] /\ completed[s] = 0
           /\ \A p \in orders[s] : Stored(p) \/ p = active[s]
           /\ \A o \in LiveOrders(s) : o \in Requests /\ o # 0 /\ side[o] = s
      /\ completed["buy"] \in {0, 1} /\ completed["sell"] = 0
      /\ completed["buy"] = 0 => active["sell"] = 0 /\ req["sell"] = 0 /\ LiveOrders("sell") = {}
      /\ completed["buy"] = 1 => active["buy"] # 0 /\ req["buy"] = 0
      /\ active["sell"] = 0 /\ active["buy"] # 0 => completed["buy"] = 0
  BY <1>0, RestingRecord
<1>2. file = req /\ active \in [Sides -> Ids] /\ stored \in [Requests -> OrderStates]
  BY DEF Resting, TypeOK, SessionOK, LedgerOK
<1>3. CASE ResumeWatch
  <2>1. PICK o \in Ids : o = IF active["sell"] # 0 THEN active["sell"] ELSE active["buy"]
    BY <1>2, Members
  <2>2. WatchOnly({o}) /\ stored' = [stored EXCEPT ![o] = IF Stored(o) THEN @ ELSE exch[o]]
        /\ active' = active /\ o # 0
    BY <2>1, <1>3, Members DEF ResumeWatch
  <2>3. PICK s \in Sides : /\ o = active[s] /\ active[s] # 0
                           /\ s = "buy" => active["sell"] = 0 /\ completed["buy"] = 0
                           /\ s = "sell" => completed["buy"] = 1
    BY <2>1, <2>2, <1>1, Members
  <2>4. /\ o \in Requests /\ o <= last /\ side[o] = s /\ exch[o] # "absent" /\ ~need[s]
        /\ completed[s] = 0 /\ LiveOrders(s) \subseteq {o}
        /\ \A p \in orders[s] : Stored(p) \/ p = o
    BY <1>1, <2>3, Members
  <2>5. \A t \in Sides : completed[t] = 0 => LiveOrders(t) \subseteq {active[t]}
    BY <1>1, <2>3, Members
  <2>6. \A t \in Sides : ~backwards => LiveOrders(t) \subseteq {o}
    BY <1>1, <2>3, <2>4, Members
  <2>7. Inherit({o})
    BY <2>2, <2>3, <2>4, <2>5, <2>6 DEF Inherit
  <2>8. Refreshed
    BY <1>2, <2>2, <2>4 DEF Refreshed
  <2> QED
    BY <1>0, <2>2, <2>4, <2>7, <2>8
<1>4. ASSUME NEW s \in Sides, ResumeByExtID(s)
      PROVE  Refreshed /\ \E os \in SUBSET Requests : Inherit(os) /\ WatchOnly(os)
  <2>0. PICK o \in Ids : o = req[s]
    BY DEF TypeOK, SessionOK
  <2>1. /\ active = NoIds /\ o # 0 /\ exch[o] # "absent"
        /\ active' = [active EXCEPT ![s] = o] /\ stored' = [stored EXCEPT ![o] = exch[o]]
        /\ WatchOnly({o})
    BY <1>2, <1>4, <2>0 DEF ResumeByExtID
  <2>2. active["buy"] = 0 /\ active["sell"] = 0
    BY <2>1, Members DEF NoIds
  <2>3. completed["buy"] = 0 /\ s = "buy"
    BY <1>1, <2>0, <2>1, <2>2, Members
  <2>4. /\ o \in Requests /\ o <= last /\ side[o] = s /\ ~need[s] /\ completed[s] = 0
        /\ LiveOrders(s) \subseteq {o} /\ \A p \in orders[s] : Stored(p)
    <3>1. o \in Requests /\ o <= last /\ side[o] = s /\ ~need[s] /\ completed[s] = 0
      BY <1>1, <2>0, <2>1
    <3>2. active[s] = 0
      BY <2>2, <2>3
    <3>3. LiveOrders(s) \subseteq {0, o} /\ \A q \in LiveOrders(s) : q # 0
      BY <1>1, <2>0, <3>1, <3>2
    <3>4. LiveOrders(s) \subseteq {o}
      BY <3>3
    <3>5. \A p \in orders[s] : p # 0 /\ (Stored(p) \/ p = 0)
      BY <1>1, <3>2, Members DEF TypeOK, SessionOK
    <3> QED
      BY <3>1, <3>4, <3>5
  <2>5. active'["buy"] = o /\ active'["sell"] = 0
    BY <1>2, <2>1, <2>2, <2>3, Members
  <2>6. Inherit({o})
    BY <1>1, <2>1, <2>2, <2>3, <2>4, <2>5, Members DEF Inherit
  <2>7. Refreshed
    BY <1>2, <2>1, <2>4 DEF Refreshed
  <2> QED
    BY <2>1, <2>4, <2>6, <2>7
<1>5. CASE ResumeIdle
  <2>1. active = NoIds /\ req = NoIds /\ active' = active /\ stored' = stored /\ WatchOnly({})
    BY <1>2, <1>5 DEF ResumeIdle, ledger
  <2>2. \A s \in Sides : active[s] = 0 /\ req[s] = 0
    BY <2>1 DEF NoIds
  <2>3. completed["buy"] = 0 /\ LiveOrders("buy") = {} /\ LiveOrders("sell") = {}
    BY <1>1, <2>2, Members
  <2>4. Inherit({})
    BY <2>1, <2>3, Members DEF Inherit
  <2>5. Refreshed
    BY <2>1 DEF Refreshed
  <2> QED
    BY <1>0, <2>1, <2>4, <2>5
<1> QED
  BY <1>0, <1>3, <1>4, <1>5

(* The two lives.                                                          *)

\* The record is sound as long as the shape it was dumped in can be resumed, and
\* between the lives nobody touches it.
RecoveryInv ==
  /\ RecoveryOK
  /\ bot = "resumed" /\ tidy => Sound
  /\ bot # "resumed" => Sound
  /\ bot \in {"cleaned", "down", "loaded"} => dpc = "stopped"
  /\ bot \in {"down", "loaded"} => Resting

LEMMA InitRecovery == RecoveryInit => RecoveryInv
<1> SUFFICES ASSUME RecoveryInit PROVE RecoveryInv
  OBVIOUS
<1>1. Init /\ bot = "up" /\ file = NoIds /\ tidy = TRUE
  BY DEF RecoveryInit
<1>2. TypeOK /\ Core /\ MarketInv
  BY <1>1, InitIInv, InitMarket DEF IInv
<1>3. RecoveryOK
  BY <1>1, <1>2, Members DEF RecoveryOK, NoIds
<1>4. RankInv
  BY <1>1, RankValues DEF Init, RankInv, OrderStates
<1>5. HeldInv
  <2>1. \A s \in Sides : active[s] = 0 /\ orders[s] = {} /\ completed[s] = 0 /\ LiveOrders(s) = {}
    BY <1>1 DEF Init, LiveOrders, Live
  <2> QED
    BY <2>1, Members DEF HeldInv, ActiveAt, ListedAt, KeptAt
<1> QED
  BY <1>1, <1>2, <1>3, <1>4, <1>5 DEF RecoveryInv, Sound

\* Once the decider has returned it does not come back.
LEMMA StoppedStays ==
  ASSUME dpc = "stopped", [Next]_vars PROVE dpc' = "stopped"
  BY DEF Next, vars, decider, DeciderSend, DeciderSendFails, DeciderStore, DeciderStop,
      ListenerSubscribed, ListenerDiscard, ListenerAdopt, ListenerTooSmall,
      ListenerDoneCode, ListenerFails, ListenerCancelled, ListenerCancelFails,
      ListenerStop, WatchAlter, WatchStore, WatchCancel, WatchCancelled,
      WatchCancelDone, WatchDone, WatchGone, WatchGet, WatchGot, WatchFails, WatchStop,
      ExchangeCreates, ExchangeRefuses, ExchangeMoves, ExchangeCancels, ExchangeGets,
      Accounting, Interrupted

\* A step of the bot, or of the exchange while there is none.
LEMMA RunningRecovery ==
  ASSUME RecoveryInv, (Running /\ Next /\ UNCHANGED recovery) \/ Away
  PROVE  RecoveryInv'
<1>1. Next /\ TypeOK /\ RecoveryOK /\ bot' = bot /\ file' = file /\ tidy' = tidy
  BY DEF RecoveryInv, RecoveryOK, recovery, Away, Next
<1>2. TypeOK' /\ RecoveryOK'
  BY <1>1, TypeStep DEF RecoveryOK
<1>3. Sound => Sound'
  BY <1>1, SoundStep
<1>4. bot \in {"cleaned", "down", "loaded"} => dpc' = "stopped"
  BY <1>1, StoppedStays DEF RecoveryInv
<1>5. ASSUME bot \in {"down", "loaded"} PROVE Resting'
  <2>1. Away /\ Resting
    BY <1>5 DEF Running, RecoveryInv
  <2>2. UNCHANGED <<need, active, req, completed, lpc, wpc>>
    BY <2>1 DEF Away, ExchangeCreates, ExchangeRefuses, ExchangeMoves, ExchangeCancels,
       session, listener, watchers
  <2> QED
    BY <1>1, <2>1, <2>2 DEF Resting, Resumable
<1> QED
  BY <1>1, <1>2, <1>3, <1>4, <1>5 DEF RecoveryInv

\* Shutting down and loading the file.
LEMMA StoppingRecovery ==
  ASSUME RecoveryInv,
         CleanUp \/ Dump \/ Killed \/ Load \/ LoadTimesOut \/ LoadFails
  PROVE  RecoveryInv'
<1>1. RecoveryOK /\ TypeOK
  BY DEF RecoveryInv, RecoveryOK
<1>2. CASE CleanUp
  <2>1. bot = "up" /\ bot' = "cleaned" /\ dpc' = "stopped" /\ UNCHANGED <<file, tidy>>
    BY <1>2 DEF CleanUp, decider
  <2>2. TypeOK' /\ Sound'
    BY <1>1, <1>2, <2>1, CleanUpSound DEF RecoveryInv
  <2> QED
    BY <1>1, <2>1, <2>2 DEF RecoveryInv, RecoveryOK
<1>3. CASE Dump
  <2>1. /\ bot = "cleaned" /\ bot' = "down" /\ file' = req /\ tidy' = Resumable
        /\ lpc = "stopped" /\ \A o \in Requests : wpc[o] \in {"none", "stopped"}
        /\ UNCHANGED vars
    BY <1>3 DEF Dump
  <2>2. TypeOK' /\ Sound'
    BY <1>1, <2>1, SoundStep DEF RecoveryInv
  <2>3. tidy' \in BOOLEAN /\ file' \in [Sides -> Ids]
    BY <1>1, <2>1 DEF Resumable, TypeOK, SessionOK
  <2>4. Resting'
    BY <2>1 DEF Resting, Resumable, vars
  <2>5. dpc' = "stopped"
    BY <2>1 DEF RecoveryInv, vars
  <2> QED
    BY <2>1, <2>2, <2>3, <2>4, <2>5 DEF RecoveryInv, RecoveryOK
<1>4. CASE Killed \/ LoadTimesOut \/ LoadFails
  <2>1. bot # "resumed" /\ bot' \in {"lost", "timedOut"} /\ UNCHANGED <<vars, file, tidy>>
    BY <1>4 DEF Killed, LoadTimesOut, LoadFails
  <2>2. TypeOK' /\ Sound'
    BY <1>1, <2>1, SoundStep DEF RecoveryInv
  <2> QED
    BY <1>1, <2>1, <2>2 DEF RecoveryInv, RecoveryOK
<1>5. CASE Load
  <2>1. /\ bot = "down" /\ bot' = "loaded"
        /\ UNCHANGED <<need, active, req, completed, lpc, wpc, dpc, file, tidy>>
    BY <1>5 DEF Load, session, decider, listener, watchers
  <2>2. TypeOK' /\ Sound'
    BY <1>1, <1>5, <2>1, LoadSound DEF RecoveryInv
  <2>3. Resting'
    BY <2>1 DEF RecoveryInv, Resting, Resumable
  <2> QED
    BY <1>1, <2>1, <2>2, <2>3 DEF RecoveryInv, RecoveryOK
<1> QED
  BY <1>2, <1>3, <1>4, <1>5

\* A resumed session, in whatever shape it was, has variables of their types.
LEMMA ResumeTypes ==
  ASSUME RecoveryOK, ResumeWatch \/ ResumeIdle \/ \E s \in Sides : ResumeByExtID(s)
  PROVE  RecoveryOK'
<1>1. /\ TypeOK /\ file \in [Sides -> Ids] /\ tidy \in BOOLEAN
  BY DEF RecoveryOK
<1>2. /\ bot' = "resumed" /\ file' = file /\ tidy' = tidy /\ Fresh
      /\ UNCHANGED <<need, prev, orders, completed, isDone, last, side, target, exch, backwards>>
      /\ \E os \in SUBSET Ids : WatchOnly(os)
  <2>1. CASE ResumeWatch
    <3>1. {IF active["sell"] # 0 THEN active["sell"] ELSE active["buy"]} \in SUBSET Ids
      BY <1>1, Members DEF TypeOK, SessionOK
    <3> QED
      BY <2>1, <3>1 DEF ResumeWatch
  <2>2. CASE ResumeIdle
    <3>1. {} \in SUBSET Ids
      OBVIOUS
    <3> QED
      BY <2>2, <3>1 DEF ResumeIdle, ledger
  <2>3. ASSUME NEW s \in Sides, ResumeByExtID(s)
        PROVE  /\ bot' = "resumed" /\ file' = file /\ tidy' = tidy /\ Fresh
               /\ UNCHANGED <<need, prev, orders, completed, isDone, last, side, target, exch,
                              backwards>>
               /\ \E os \in SUBSET Ids : WatchOnly(os)
    <3>1. {file[s]} \in SUBSET Ids
      BY <1>1
    <3> QED
      BY <2>3, <3>1 DEF ResumeByExtID
  <2> QED
    BY <2>1, <2>2, <2>3
<1>3. \/ stored' \in [Requests -> OrderStates] /\ reported' = stored'
      \/ UNCHANGED <<stored, reported>>
  BY <1>1 DEF ResumeWatch, ResumeIdle, ResumeByExtID, ledger, TypeOK, LedgerOK
<1>4. active' \in [Sides -> Ids]
  BY <1>1 DEF ResumeWatch, ResumeIdle, ResumeByExtID, TypeOK, SessionOK
<1>5. SessionOK'
  BY <1>1, <1>2, <1>4, Members DEF TypeOK, SessionOK, Fresh, NoIds
<1>6. DeciderOK' /\ ListenerOK'
  BY <1>2, Members DEF Fresh, DeciderOK, ListenerOK
<1>7. WatchersOK'
  BY <1>1, <1>2, Members, StateNames DEF Fresh, WatchOnly, TypeOK, WatchersOK
<1>8. WireOK'
  BY <1>1, <1>2, StateNames DEF Fresh, TypeOK, WireOK
<1>9. CallsOK' /\ failed' \in BOOLEAN
  BY <1>2, StateNames DEF Fresh, CallsOK
<1>10. LedgerOK'
  BY <1>1, <1>2, <1>3 DEF TypeOK, LedgerOK
<1> QED
  BY <1>1, <1>2, <1>5, <1>6, <1>7, <1>8, <1>9, <1>10 DEF RecoveryOK, TypeOK

\* The new bot takes the session over, or gives it up.
LEMMA ResumeRecovery ==
  ASSUME RecoveryInv, Resume \/ ResumeCrashes PROVE RecoveryInv'
<1>1. RecoveryOK /\ TypeOK
  BY DEF RecoveryInv, RecoveryOK
<1>2. CASE ResumeFails \/ ResumeCrashes
  <2>1. bot # "resumed" /\ bot' \in {"lost", "dropped"} /\ UNCHANGED <<vars, file, tidy>>
    BY <1>2 DEF ResumeFails, ResumeCrashes
  <2>2. TypeOK' /\ Sound'
    BY <1>1, <2>1, SoundStep DEF RecoveryInv
  <2> QED
    BY <1>1, <2>1, <2>2 DEF RecoveryInv, RecoveryOK
<1>3. CASE ResumeWatch \/ ResumeIdle \/ \E s \in Sides : ResumeByExtID(s)
  <2>1. bot = "loaded" /\ bot' = "resumed" /\ tidy' = tidy
    BY <1>3 DEF ResumeWatch, ResumeIdle, ResumeByExtID
  <2>2. RecoveryOK' /\ TypeOK'
    BY <1>1, <1>3, ResumeTypes DEF RecoveryOK
  <2>3. Sound /\ Resting /\ dpc = "stopped"
    BY <2>1 DEF RecoveryInv
  <2>4. ASSUME tidy PROVE Sound'
    <3>1. /\ \E os \in SUBSET Requests : Inherit(os) /\ WatchOnly(os)
          /\ ~isDone /\ Fresh /\ Refreshed
          /\ UNCHANGED <<need, prev, orders, completed, isDone, last, side, target, exch,
                         backwards>>
      BY <1>1, <1>3, <2>3, <2>4, ResumeInherits
    <3> QED
      BY <1>1, <2>2, <2>3, <3>1, InheritedSound
  <2> QED
    BY <2>1, <2>2, <2>4 DEF RecoveryInv
<1> QED
  BY <1>2, <1>3 DEF Resume

LEMMA RecoveryInvariance == RecoverySpec => []RecoveryInv
<1>1. RecoveryInv /\ [RecoveryNext]_allVars => RecoveryInv'
  <2> SUFFICES ASSUME RecoveryInv, [RecoveryNext]_allVars PROVE RecoveryInv'
    OBVIOUS
  <2>1. CASE RecoveryNext
    BY <2>1, RunningRecovery, StoppingRecovery, ResumeRecovery DEF RecoveryNext
  <2>2. CASE UNCHANGED allVars
    <3>1. UNCHANGED <<vars, bot, file, tidy>>
      BY <2>2 DEF allVars, recovery
    <3>2. TypeOK /\ [Next]_vars
      BY <3>1 DEF RecoveryInv, RecoveryOK
    <3>3. TypeOK' /\ (Sound => Sound')
      BY <3>2, TypeStep, SoundStep
    <3>4. UNCHANGED <<need, active, req, completed, lpc, wpc, dpc>>
      BY <3>1 DEF vars
    <3>5. Resting => Resting'
      BY <3>1, <3>4 DEF Resting, Resumable
    <3> QED
      BY <3>1, <3>3, <3>4, <3>5 DEF RecoveryInv, RecoveryOK
  <2> QED
    BY <2>1, <2>2
<1> QED
  BY <1>1, InitRecovery, PTL DEF RecoverySpec

\* A session that was dumped in a shape that can be resumed keeps its promises in
\* its second life too: one order in the market, none to be created beside it, and
\* the profit booked once.
THEOREM SecondLifeIsSafe == RecoverySpec => []RecoverySafe
<1>1. RecoveryInv => RecoverySafe
  <2> SUFFICES ASSUME RecoveryInv PROVE RecoverySafe
    OBVIOUS
  <2>1. RecoveryOK /\ TypeOK
    BY DEF RecoveryInv, RecoveryOK
  <2>2. ASSUME bot = "resumed", tidy PROVE OneLiveOrder /\ NeedMeansIdle /\ BookedOnce
    <3>1. IInv /\ MarketInv
      BY <2>1, <2>2 DEF RecoveryInv, Sound, IInv
    <3>2. BookedOnce
      BY <3>1 DEF IInv, Core, PhaseInv, BookedOnce
    <3> QED
      BY <3>1, <3>2, OneLive, FlagIsAlone
  <2> QED
    BY <2>1, <2>2 DEF RecoverySafe, RecoveredSafely
<1> QED
  BY <1>1, RecoveryInvariance, PTL

\* processOldSession leaves no order of such a session in the market without a
\* watcher, and watches none but the active one.
THEOREM SecondLifeWatches == RecoverySpec => ResumedIsWatched
<1> DEFINE Watched ==
      bot = "loaded" /\ bot' = "resumed" /\ tidy =>
        \A o \in Requests : /\ exch[o] \in Live /\ ~backwards => wpc'[o] = "watch"
                            /\ wpc'[o] = "watch" => active'[side[o]] = o
<1>1. RecoveryInv /\ [RecoveryNext]_allVars => [Watched]_allVars
  <2> SUFFICES ASSUME RecoveryInv, RecoveryNext, bot = "loaded", bot' = "resumed", tidy,
                      NEW o \in Requests
               PROVE  /\ exch[o] \in Live /\ ~backwards => wpc'[o] = "watch"
                      /\ wpc'[o] = "watch" => active'[side[o]] = o
    OBVIOUS
  <2>1. ResumeWatch \/ ResumeIdle \/ \E s \in Sides : ResumeByExtID(s)
    BY DEF RecoveryNext, Resume, recovery, Away, CleanUp, Dump, Killed, Load, LoadTimesOut,
       LoadFails, ResumeFails, ResumeCrashes
  <2>2. TypeOK /\ Sound /\ Resting /\ dpc = "stopped"
    BY DEF RecoveryInv, RecoveryOK
  <2>3. PICK os \in SUBSET Requests : Inherit(os) /\ WatchOnly(os)
    BY <2>1, <2>2, ResumeInherits
  <2>4. wpc'[o] = "watch" <=> o \in os
    BY <2>3 DEF WatchOnly
  <2>5. exch[o] \in Live => o \in LiveOrders(side[o]) /\ side[o] \in Sides
    BY <2>2 DEF LiveOrders, TypeOK, WireOK
  <2> QED
    BY <2>3, <2>4, <2>5 DEF Inherit
<1> QED
  BY <1>1, RecoveryInvariance, PTL DEF RecoverySpec, ResumedIsWatched
=============================================================================
