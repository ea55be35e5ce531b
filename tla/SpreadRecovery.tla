---------------------------- MODULE SpreadRecovery ----------------------------
(***************************************************************************)
(* One restart of the spread bot around a session (module SpreadSession).  *)
(* Shut down, strategy/spread.go's Start sends cancel requests for the     *)
(* active orders and does not wait for the answers; when every goroutine   *)
(* has ended cmd/spread.go dumps sessions and orders to the state file.    *)
(* Started again, the bot loads and removes the file, asks for the state   *)
(* of the orders it holds for live, and processOldSession resumes every    *)
(* session that is not done.  Meanwhile the exchange goes on.              *)
(*                                                                         *)
(* The session's request numbers are not exported, so not dumped; its      *)
(* external ids are.  While the bot runs both are set and cleared together *)
(* so the file's external id of a side is the request number it had.       *)
(***************************************************************************)
EXTENDS SpreadSession

VARIABLES
  bot,       \* up, cleaned, down, loaded, resumed: the life of the two bots;
             \* dropped: the old session could not be resumed; timedOut: the
             \* new bot gave up; lost: it failed, or the old one wrote no file
  file,      \* the state file: the side's external ids, what else is in it is
             \* what the session and the storage were left with
  tidy       \* history: the dump was of a shape that can be resumed

recovery == <<bot, file, tidy>>
allVars  == <<vars, recovery>>

NoIds == [s \in Sides |-> 0]

RecoveryOK ==
  /\ TypeOK
  /\ bot \in {"up", "cleaned", "down", "loaded", "resumed", "dropped", "timedOut",
            "lost"}
  /\ file \in [Sides -> Ids]
  /\ tidy \in BOOLEAN

RecoveryInit == Init /\ bot = "up" /\ file = NoIds /\ tidy = TRUE

Running == bot \in {"up", "cleaned", "resumed"}

-----------------------------------------------------------------------------
(* Shutting down.  An operator named Slip... is a mistake that the checks  *)
(* put in the place of the definition after it.                            *)

\* cleanUpBeforeShutdown, when the decider has returned to Start.
CleanUp ==
  /\ bot = "up" /\ failed /\ dpc = "stopped"
  /\ cancel' = [o \in Requests |->
       IF ~isDone /\ o \in {active["buy"], active["sell"]} /\ stored[o] \in Live
            /\ cancel[o] = "none"
         THEN "sent" ELSE cancel[o]]
  /\ bot' = "cleaned"
  /\ UNCHANGED <<session, decider, listener, watchers, failed, wire, get, ledger,
                 file, tidy>>

\* What processOldSession can make sense of: no order was being replaced, none is
\* to be created beside the active one, which SetBuyOrderCancelledFlags does not
\* clear, and the buy order is not the active one because it was executed.
Resumable ==
  /\ \A s \in Sides : active[s] # 0 => req[s] = 0 /\ ~need[s]
  /\ active["sell"] = 0 /\ active["buy"] # 0 => completed["buy"] = 0

\* g.Wait has returned: DumpStorage, NewDumpStorage.
Dump ==
  /\ bot = "cleaned"
  /\ lpc = "stopped" /\ \A o \in Requests : wpc[o] \in {"none", "stopped"}
  /\ file' = req
  /\ tidy' = Resumable
  /\ bot' = "down"
  /\ UNCHANGED vars

\* A crash, or the kill after ShutDownDuration (service/manager.go:37): nothing
\* was written.
Killed ==
  /\ bot \in {"up", "cleaned"}
  /\ bot' = "lost"
  /\ UNCHANGED <<vars, file, tidy>>

-----------------------------------------------------------------------------
(* Starting again.                                                         *)

KnownLive == {o \in Requests : stored[o] \in Live}

\* LoadFromStateFile: the file is removed, and the orders held for live are
\* asked for, if there are any orders at all.
Load ==
  /\ bot = "down"
  /\ KnownLive # {} \/ \A o \in Requests : ~Stored(o)
  /\ stored' = [o \in Requests |-> IF o \in KnownLive THEN exch[o] ELSE stored[o]]
  /\ reported' = stored'
  /\ bot' = "loaded"
  /\ UNCHANGED <<session, decider, listener, watchers, failed, wire, calls, exch,
                 backwards, file, tidy>>

\* UpdateOrdersStates waits for as many answers as it has sent requests: with
\* none it waits for its time-out, and the bot gives up.
LoadTimesOut ==
  /\ bot = "down"
  /\ KnownLive = {} /\ \E o \in Requests : Stored(o)
  /\ bot' = "timedOut"
  /\ UNCHANGED <<vars, file, tidy>>

\* An order is not found or its request answered by another error, the bot
\* crashes after the file was removed.
LoadFails ==
  /\ bot = "down"
  /\ bot' = "lost"
  /\ UNCHANGED <<vars, file, tidy>>

\* New goroutines, a new connection: requests still on their way and answers
\* not yet taken are gone with the old one.
Fresh ==
  /\ req' = NoIds /\ dpc' = "idle" /\ dreq' = 0
  /\ lpc' = "off" /\ lord' = 0
  /\ wreq' = [o \in Requests |-> 0]
  /\ failed' = FALSE
  /\ status' = [r \in Requests |-> IF status[r] \in {"sent"} \cup Answers
                                     THEN "discarded" ELSE status[r]]
  /\ cancel' = [o \in Requests |-> "none"] /\ get' = cancel'

WatchOnly(os) ==
  wpc' = [o \in Requests |-> IF o \in os THEN "watch"
                             ELSE IF wpc[o] = "none" THEN "none" ELSE "stopped"]

\* Both active orders are watched again, not the first of them.
SlipResumeWatch ==
  /\ bot = "loaded" /\ ~isDone
  /\ \E s \in Sides : active[s] # 0
  /\ WatchOnly({active["buy"], active["sell"]})
  /\ Fresh
  /\ bot' = "resumed"
  /\ UNCHANGED <<need, active, prev, orders, completed, isDone, last, side, target,
                 ledger, file, tidy>>

\* processOldSession, a session with an active order: the sell order's watcher
\* is started, or else the buy order's, after asking for an order that is not
\* stored.  Listener and decider follow.
ResumeWatch ==
  /\ bot = "loaded" /\ ~isDone
  /\ \E s \in Sides : active[s] # 0
  /\ LET o == IF active["sell"] # 0 THEN active["sell"] ELSE active["buy"]
     IN  /\ WatchOnly({o})
         /\ stored' = [stored EXCEPT ![o] = IF Stored(o) THEN @ ELSE exch[o]]
  /\ reported' = stored'
  /\ Fresh
  /\ bot' = "resumed"
  /\ UNCHANGED <<need, active, prev, orders, completed, isDone, last, side, target,
                 exch, backwards, file, tidy>>

\* The order found by its external id is watched, but not made the active one.
SlipResumeByExtID(s) ==
  /\ bot = "loaded" /\ ~isDone
  /\ active = NoIds /\ file[s] # 0 /\ (s = "sell" => file["buy"] = 0)
  /\ exch[file[s]] # "absent"
  /\ stored' = [stored EXCEPT ![file[s]] = exch[file[s]]]
  /\ reported' = stored'
  /\ WatchOnly({file[s]})
  /\ Fresh
  /\ bot' = "resumed"
  /\ UNCHANGED <<need, active, prev, orders, completed, isDone, last, side, target,
                 exch, backwards, file, tidy>>

\* A session that waited for the answer to a create request: the order is
\* asked for by its external id and becomes active; it is not added to the
\* session's orders.
ResumeByExtID(s) ==
  /\ bot = "loaded" /\ ~isDone
  /\ active = NoIds /\ file[s] # 0 /\ (s = "sell" => file["buy"] = 0)
  /\ exch[file[s]] # "absent"
  /\ active' = [active EXCEPT ![s] = file[s]]
  /\ stored' = [stored EXCEPT ![file[s]] = exch[file[s]]]
  /\ reported' = stored'
  /\ WatchOnly({file[s]})
  /\ Fresh
  /\ bot' = "resumed"
  /\ UNCHANGED <<need, prev, orders, completed, isDone, last, side, target,
                 exch, backwards, file, tidy>>

\* The order is asked for again and again.
SlipResumeFails ==
  /\ bot = "loaded" /\ ~isDone
  /\ active = NoIds
  /\ \E s \in Sides : file[s] # 0 /\ exch[file[s]] = "absent"
  /\ UNCHANGED allVars

\* There is no such order: processOldSession returns the error, the old session
\* is left alone and Start goes on to new ones.
ResumeFails ==
  /\ bot = "loaded" /\ ~isDone
  /\ active = NoIds
  /\ \E s \in Sides : file[s] # 0 /\ exch[file[s]] = "absent"
  /\ bot' = "dropped"
  /\ UNCHANGED <<vars, file, tidy>>

\* updateOrderStateByExtID brings neither an order nor an error, when the answer
\* holds none or the context ends: processOldSession crashes on it.
ResumeCrashes ==
  /\ bot = "loaded" /\ ~isDone
  /\ active = NoIds /\ file # NoIds
  /\ bot' = "lost"
  /\ UNCHANGED <<vars, file, tidy>>

\* No order at all: listener and decider start as in a new session.
ResumeIdle ==
  /\ bot = "loaded" /\ ~isDone
  /\ active = NoIds /\ file = NoIds
  /\ WatchOnly({})
  /\ Fresh
  /\ bot' = "resumed"
  /\ UNCHANGED <<need, active, prev, orders, completed, isDone, last, side, target,
                 ledger, file, tidy>>

Resume ==
  ResumeWatch \/ ResumeIdle \/ ResumeFails \/ \E s \in Sides : ResumeByExtID(s)

\* The market does not wait for the bot; its accounting subscription will bring
\* what happened meanwhile to the orders it knows.
Away ==
  /\ bot \in {"down", "loaded"}
  /\ \E r \in Requests : ExchangeCreates(r) \/ ExchangeRefuses(r) \/ ExchangeMoves(r)
                           \/ ExchangeCancels(r)
  /\ UNCHANGED recovery

RecoveryNext ==
  \/ Running /\ Next /\ UNCHANGED recovery
  \/ Away
  \/ CleanUp \/ Dump \/ Killed \/ Load \/ LoadTimesOut \/ LoadFails \/ Resume
  \/ ResumeCrashes

RecoverySpec == RecoveryInit /\ [][RecoveryNext]_allVars

-----------------------------------------------------------------------------
(* Safety.                                                                 *)

\* A session that was dumped in a resumable shape keeps its promises in its
\* second life: one order in the market, none asked for while one is there,
\* profit booked once.
RecoveredSafely ==
  bot = "resumed" /\ tidy => OneLiveOrder /\ NeedMeansIdle /\ BookedOnce

\* When such a session is resumed, the watched order is the active one, and every
\* order of it that is in the market has a watcher, if the first life never took
\* an order for executed on a stored state that was overwritten by an earlier one.
ResumedIsWatched ==
  [][bot = "loaded" /\ bot' = "resumed" /\ tidy =>
       \A o \in Requests : /\ exch[o] \in Live /\ ~backwards => wpc'[o] = "watch"
                           /\ wpc'[o] = "watch" => active'[side[o]] = o]_allVars

\* The states of the process, and the session's promises across a restart.
RecoverySafe == RecoveryOK /\ RecoveredSafely

(* Liveness: the shutdown, and the new start, get to their end.            *)
RecoveryFairness ==
  /\ WF_allVars(Running /\ DeciderStore /\ UNCHANGED recovery)
  /\ WF_allVars(Running /\ DeciderStop /\ UNCHANGED recovery)
  /\ WF_allVars(CleanUp) /\ WF_allVars(Dump) /\ WF_allVars(Load)
  /\ WF_allVars(LoadTimesOut) /\ WF_allVars(Resume)

FairRecoverySpec == RecoverySpec /\ RecoveryFairness

\* An unfinished session whose file was written is resumed, or one of the
\* named failures ends the bot: nothing else stops the new start.
FileIsUsed ==
  (bot = "down" /\ ~isDone) ~> (bot \in {"resumed", "dropped", "timedOut", "lost"})

(* What the code says of itself and does not keep.                         *)

\* "load sessions from dump file" (service/spread/dump.go:40): the refresh does
\* not cost the new start a session that had no order to be refreshed.
LoadKeepsSession == bot = "timedOut" => isDone

\* "update sell order state by ext id" (strategy/spread.go:253): a sell order
\* whose creation was not answered before the shutdown is found again.
SellFoundByExtID ==
  [][bot = "loaded" /\ bot' = "resumed" /\ file["sell"] # 0 /\ target[file["sell"]] = 0
       => exch[file["sell"]] \notin Live \/ wpc'[file["sell"]] = "watch"]_allVars
=============================================================================
