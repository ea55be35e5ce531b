------------------------------- MODULE Sessions -------------------------------
(***************************************************************************)
(* The session manager of the spread bot (strategy/spread.go, Start and    *)
(* CreateSession) over several lives of the bot: one session after the     *)
(* other, the sessions of the state file first; the decider's rule that    *)
(* after an hour a new session is allowed; and the clean-up of finished    *)
(* sessions (storage.go).  What happens inside a session is module         *)
(* SpreadSession, what a restart does to it SpreadRecovery.                *)
(***************************************************************************)
EXTENDS Naturals

CONSTANTS
  Sess,          \* session ids; those of deleted sessions are used again
  NoSess,        \* the empty id
  MaxLives       \* bound of the model: starts of the bot

ASSUME SessAssumption == NoSess \notin Sess
ASSUME BoundAssumption == MaxLives \in Nat \ {0}

VARIABLES
  life,          \* how many times the bot was started
  pc,            \* Start: select, old, running; ended; off: the bot is down
  known,         \* the keys of book.SpreadSessions
  state,         \* Sess -> open or done, of a session that was ever made
  active,        \* book.SpreadActiveSessionID
  cur,           \* the session CreateSession runs
  oldPending,    \* oldSessionChan holds its one element
  oldRun,        \* old sessions being processed
  oldStop,       \* the context of the old sessions is done
  ctxDone,
  left           \* history: the active id that a decider's error left behind, if any

vars == <<life, pc, known, state, active, cur, oldPending, oldRun, oldStop, ctxDone,
          left>>

Open == {s \in known : state[s] = "open"}
Free == Sess \ (known \cup oldRun \cup {cur})

TypeOK ==
  /\ life \in 1 .. MaxLives
  /\ pc \in {"select", "old", "running", "ended", "off"}
  /\ known \subseteq Sess
  /\ state \in [Sess -> {"open", "done"}]
  /\ active \in Sess \cup {NoSess}
  /\ cur \in (IF pc = "running" THEN Sess ELSE {NoSess})
  /\ oldPending \in BOOLEAN
  /\ oldRun \subseteq Sess
  /\ oldStop \in BOOLEAN
  /\ ctxDone \in BOOLEAN
  /\ left \in Sess \cup {NoSess}

Init ==
  /\ life = 1
  /\ pc = "select"
  /\ known = {}
  /\ state = [s \in Sess |-> "done"]
  /\ active = NoSess
  /\ cur = NoSess
  /\ oldPending = FALSE
  /\ oldRun = {}
  /\ oldStop = FALSE
  /\ ctxDone = FALSE
  /\ left = NoSess

Up == pc \in {"select", "old", "running"}

-----------------------------------------------------------------------------
(* Start.  An operator named Slip... is a mistake that the checks put in   *)
(* the place of the definition after it.                                   *)

SlipOldNotAwaited ==
  /\ pc = "select" /\ oldPending
  /\ oldPending' = FALSE
  /\ oldRun' = Open
  /\ oldStop' = ctxDone
  /\ UNCHANGED <<life, pc, known, state, active, cur, ctxDone, left>>

\* The old sessions are waiting when Start first selects; the ticker is not.
TakeOld ==
  /\ pc = "select" /\ oldPending
  /\ oldPending' = FALSE
  /\ oldRun' = Open
  /\ oldStop' = ctxDone
  /\ pc' = "old"
  /\ UNCHANGED <<life, known, state, active, cur, ctxDone, left>>

\* processOldSession returns; an error of one stops the others, and is only
\* logged.
OldReturns(s) ==
  /\ s \in oldRun
  /\ \/ (state[s] = "done" \/ oldStop \/ ctxDone) /\ UNCHANGED oldStop
     \/ state[s] = "open" /\ oldStop' = TRUE
  /\ oldRun' = oldRun \ {s}
  /\ UNCHANGED <<life, pc, known, state, active, cur, oldPending, ctxDone, left>>

OldWaited ==
  /\ pc = "old" /\ oldRun = {}
  /\ pc' = "select"
  /\ UNCHANGED <<life, known, state, active, cur, oldPending, oldRun, oldStop, ctxDone,
                 left>>

\* A tick without an active session; CreateSession registers a new one and runs
\* its decider.
Tick ==
  /\ pc = "select" /\ ~oldPending
  /\ active = NoSess
  /\ \E s \in Free :
       /\ known' = known \cup {s}
       /\ state' = [state EXCEPT ![s] = "open"]
       /\ active' = s
       /\ cur' = s
  /\ left' = NoSess
  /\ pc' = "running"
  /\ UNCHANGED <<life, oldPending, oldRun, oldStop, ctxDone>>

SlipDoneStaysActive ==
  /\ pc = "running" /\ (state[cur] = "done" \/ ctxDone)
  /\ cur' = NoSess
  /\ pc' = "select"
  /\ UNCHANGED <<life, known, state, active, oldPending, oldRun, oldStop, ctxDone, left>>

\* The decider sees the session done, or its context.
DeciderReturns ==
  /\ pc = "running" /\ (state[cur] = "done" \/ ctxDone)
  /\ active' = IF active = cur THEN NoSess ELSE active
  /\ cur' = NoSess
  /\ pc' = "select"
  /\ UNCHANGED <<life, known, state, oldPending, oldRun, oldStop, ctxDone, left>>

\* Its error ends Start, without clean-up, and by the group everything else.
DeciderFails ==
  /\ pc = "running" /\ state[cur] = "open"
  /\ cur' = NoSess
  /\ pc' = "ended"
  /\ ctxDone' = TRUE
  /\ left' = active
  /\ UNCHANGED <<life, known, state, active, oldPending, oldRun, oldStop>>

\* getStartBuyVolume fails (the price of the quote currency): so does Start,
\* before there is a session.
VolumeFails ==
  /\ pc = "select" /\ ~oldPending
  /\ active = NoSess
  /\ pc' = "ended"
  /\ ctxDone' = TRUE
  /\ UNCHANGED <<life, known, state, active, cur, oldPending, oldRun, oldStop, left>>

ShutDown ==
  /\ pc = "select" /\ ctxDone
  /\ pc' = "ended"
  /\ UNCHANGED <<life, known, state, active, cur, oldPending, oldRun, oldStop, ctxDone,
                 left>>

-----------------------------------------------------------------------------
(* The sessions, the clean-up, and the process.                            *)

\* The sell order of a session that is run, or is resumed, was executed.
Sold(s) ==
  /\ s \in oldRun \cup {cur} /\ s \in Open
  /\ state' = [state EXCEPT ![s] = "done"]
  /\ UNCHANGED <<life, pc, known, active, cur, oldPending, oldRun, oldStop, ctxDone,
                 left>>

\* isSellOrderCreationAvailable: an hour after the previous sell order.
HourPasses(s) ==
  /\ s \in oldRun \cup {cur} /\ s \in Open
  /\ active = s
  /\ active' = NoSess
  /\ UNCHANGED <<life, pc, known, state, cur, oldPending, oldRun, oldStop, ctxDone,
                 left>>

SlipCleansAll ==
  /\ Up /\ known # {}
  /\ known' = {}
  /\ UNCHANGED <<life, pc, state, active, cur, oldPending, oldRun, oldStop, ctxDone,
                 left>>

\* CleanUpOldOrders: a session that is done, even if its decider has not seen it.
CleanUp ==
  /\ Up /\ known # Open
  /\ known' = Open
  /\ UNCHANGED <<life, pc, state, active, cur, oldPending, oldRun, oldStop, ctxDone,
                 left>>

Interrupted ==
  /\ Up /\ ~ctxDone
  /\ ctxDone' = TRUE
  /\ UNCHANGED <<life, pc, known, state, active, cur, oldPending, oldRun, oldStop,
                 left>>

\* main writes the state file: the sessions, and the active id with them.
Dump ==
  /\ pc = "ended"
  /\ pc' = "off"
  /\ UNCHANGED <<life, known, state, active, cur, oldPending, oldRun, oldStop, ctxDone,
                 left>>

Boot ==
  /\ pc = "off" /\ life < MaxLives
  /\ life' = life + 1
  /\ pc' = "select"
  /\ oldPending' = (known # {})
  /\ ctxDone' = FALSE /\ oldStop' = FALSE
  /\ UNCHANGED <<known, state, active, cur, oldRun, left>>

Next ==
  \/ TakeOld \/ OldWaited \/ Tick \/ DeciderReturns \/ DeciderFails \/ VolumeFails
  \/ ShutDown
  \/ \E s \in Sess : OldReturns(s) \/ Sold(s) \/ HourPasses(s)
  \/ CleanUp \/ Interrupted \/ Dump \/ Boot

Spec == Init /\ [][Next]_vars

\* Start's select and the deciders go on; the clean-up has a ticker.  That an
\* order is ever executed is not assumed.
FairSpec ==
  /\ Spec
  /\ WF_vars(TakeOld) /\ WF_vars(OldWaited) /\ WF_vars(Tick)
  /\ WF_vars(DeciderReturns) /\ SF_vars(ShutDown) /\ WF_vars(CleanUp)
  /\ \A s \in Sess : WF_vars(OldReturns(s) /\ (state[s] = "done" \/ oldStop \/ ctxDone))

-----------------------------------------------------------------------------

\* New sessions are created one at a time, and none before the sessions of the
\* state file have ended: they would spend the same balance.
OneAtATime ==
  /\ cur # NoSess => oldRun = {} /\ ~oldPending
  /\ oldRun # {} => pc = "old"

\* The active id is that of the running session, or one that a decider's error
\* left behind: no other end of a session leaves its id in the book.
ActiveRuns == active # NoSess => active = cur \/ active = left

\* One session spends the balance, and it is the one the book names.
ManagerSafe == TypeOK /\ OneAtATime /\ ActiveRuns

\* A session whose order may still be executed is in the map, so that the state
\* file has it, and shutdown cancels its orders.
OpenIsKnown == \A s \in oldRun \cup {cur} : s # NoSess /\ state[s] = "open" => s \in known

\* The active id is one that a decider's error left behind, and no session that
\* was resumed has cleared it since, by an hour without a sell order.
LeftBehind == active # NoSess /\ active = left

\* A manager that waits starts a session, in this life and in those after it,
\* unless a decider's error has left an active id behind (strategy/spread.go:138-144
\* ends Start without clearing it): the end of a session, a shutdown at any moment
\* and the clean-up leave none.
TradesAgain ==
  (pc = "select" /\ ~LeftBehind)
    ~> (pc = "running" \/ ctxDone \/ Free = {} \/ pc = "old")

(* What the code says of itself and does not keep.                         *)

\* "allow to create new session after 1h of inability to create an order"
\* (service/spread/decider.go:176).  Start waits for the session all the same.
AllowedSessionStarts ==
  (pc = "running" /\ active = NoSess) ~> (pc # "running" \/ ctxDone)

\* "session finished" (strategy/spread.go:162), which is said of one whose decider
\* failed as well: whatever ended a session, the manager creates another one, in
\* the next life at the latest.
EveryLifeTrades ==
  (pc = "select") ~> (pc = "running" \/ ctxDone \/ Free = {} \/ pc = "old")
=============================================================================
