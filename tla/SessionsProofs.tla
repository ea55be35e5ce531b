---------------------------- MODULE SessionsProofs ----------------------------
(***************************************************************************)
(* The session manager spends the balance on one session at a time and     *)
(* loses none that is open, for any number of sessions and of restarts.    *)
(***************************************************************************)
EXTENDS Sessions, TLAPS

\* The two invariants of the runs are inductive together: who is processed and
\* who is active is known from where Start is, but for the error of a decider.
IInv == ManagerSafe /\ OpenIsKnown

LEMMA InitIInv == Init => IInv
<1> SUFFICES ASSUME Init PROVE IInv
  OBVIOUS
<1>1. TypeOK
  <2>1. life \in 1 .. MaxLives
    BY BoundAssumption DEF Init
  <2>2. cur \in (IF pc = "running" THEN Sess ELSE {NoSess})
    BY DEF Init
  <2>3. state \in [Sess -> {"open", "done"}]
    BY DEF Init
  <2>4. oldPending \in BOOLEAN /\ oldStop \in BOOLEAN /\ ctxDone \in BOOLEAN
    BY DEF Init
  <2> QED
    BY <2>1, <2>2, <2>3, <2>4 DEF Init, TypeOK
<1>2. OneAtATime /\ ActiveRuns
  BY DEF Init, OneAtATime, ActiveRuns
<1>3. OpenIsKnown
  BY DEF Init, OpenIsKnown
<1> QED
  BY <1>1, <1>2, <1>3 DEF IInv, ManagerSafe

\* What Start does itself.
LEMMA StartStep ==
  ASSUME IInv,
         TakeOld \/ OldWaited \/ Tick \/ DeciderReturns \/ DeciderFails \/ VolumeFails
           \/ ShutDown
  PROVE  IInv'
<1> USE SessAssumption
    DEF IInv, ManagerSafe, TypeOK, OneAtATime, ActiveRuns, OpenIsKnown, Open
<1>1. CASE TakeOld
  BY <1>1 DEF TakeOld
<1>2. CASE OldWaited
  BY <1>2 DEF OldWaited
<1>3. CASE Tick
  BY <1>3 DEF Tick, Free
<1>4. CASE DeciderReturns
  BY <1>4 DEF DeciderReturns
<1>5. CASE DeciderFails
  BY <1>5 DEF DeciderFails
<1>6. CASE VolumeFails
  BY <1>6 DEF VolumeFails
<1>7. CASE ShutDown
  BY <1>7 DEF ShutDown
<1> QED
  BY <1>1, <1>2, <1>3, <1>4, <1>5, <1>6, <1>7

\* What the sessions, the clean-up, a signal and a restart do.
LEMMA OthersStep ==
  ASSUME IInv,
         \/ \E s \in Sess : OldReturns(s) \/ Sold(s) \/ HourPasses(s)
         \/ CleanUp \/ Interrupted \/ Dump \/ Boot
  PROVE  IInv'
<1> USE SessAssumption
    DEF IInv, ManagerSafe, TypeOK, OneAtATime, ActiveRuns, OpenIsKnown, Open
<1>1. CASE \E s \in Sess : OldReturns(s)
  <2>1. PICK s \in Sess : OldReturns(s)
    BY <1>1
  <2>2. oldStop' \in BOOLEAN
    BY <2>1 DEF OldReturns
  <2>3. /\ UNCHANGED <<life, pc, known, state, active, cur, oldPending, ctxDone, left>>
        /\ oldRun' \subseteq oldRun
    BY <2>1 DEF OldReturns
  <2> QED
    BY <2>2, <2>3
<1>2. CASE \E s \in Sess : Sold(s)
  BY <1>2 DEF Sold
<1>3. CASE \E s \in Sess : HourPasses(s)
  BY <1>3 DEF HourPasses
<1>4. CASE CleanUp
  BY <1>4 DEF CleanUp, Up
<1>5. CASE Interrupted
  BY <1>5 DEF Interrupted, Up
<1>6. CASE Dump
  BY <1>6 DEF Dump
<1>7. CASE Boot
  <2>1. (oldPending)' \in BOOLEAN
    BY <1>7 DEF Boot
  <2>2. life' \in 1 .. MaxLives /\ pc' = "select"
    BY <1>7, BoundAssumption DEF Boot
  <2>3. /\ ctxDone' \in BOOLEAN /\ oldStop' \in BOOLEAN
        /\ cur = NoSess /\ oldRun = {}
        /\ UNCHANGED <<known, state, active, cur, oldRun, left>>
    BY <1>7 DEF Boot
  <2> QED
    BY <2>1, <2>2, <2>3
<1> QED
  BY <1>1, <1>2, <1>3, <1>4, <1>5, <1>6, <1>7

LEMMA NextIInv == IInv /\ [Next]_vars => IInv'
<1> SUFFICES ASSUME IInv, [Next]_vars PROVE IInv'
  OBVIOUS
<1>1. CASE Next
  BY <1>1, StartStep, OthersStep DEF Next
<1>2. CASE UNCHANGED vars
  BY <1>2 DEF vars, IInv, ManagerSafe, TypeOK, OneAtATime, ActiveRuns, OpenIsKnown, Open
<1> QED
  BY <1>1, <1>2

\* One session spends the balance, it is the one the book names, and no other is
\* started before those of the state file have ended, in every life of the bot.
THEOREM OneSessionSpends ==
  Spec => []ManagerSafe
<1>1. Init => IInv
  BY InitIInv
<1>2. IInv => ManagerSafe
  BY DEF IInv
<1> QED
  BY <1>1, <1>2, NextIInv, PTL DEF Spec

\* The clean-up never removes a session whose order may still be executed, so the
\* state file has it.
THEOREM NoOpenSessionIsLost ==
  Spec => []OpenIsKnown
<1>1. Init => IInv
  BY InitIInv
<1>2. IInv => OpenIsKnown
  BY DEF IInv
<1> QED
  BY <1>1, <1>2, NextIInv, PTL DEF Spec
===============================================================================
