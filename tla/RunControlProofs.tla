-------------------------- MODULE RunControlProofs --------------------------
(***************************************************************************)
(* Proofs about RunControl, for any processes, runs and accounts.          *)
(***************************************************************************)
EXTENDS RunControl, TLAPS

\* The type invariant is preserved by every step.
LEMMA TypeStep == TypeOK /\ [Next]_vars => TypeOK'
<1> SUFFICES ASSUME TypeOK, [Next]_vars PROVE TypeOK'
  OBVIOUS
<1> USE DEF TypeOK, Outcome, Status
<1>1. ASSUME NEW p \in Proc, Boot(p) \/ RequestLocalStop(p) PROVE TypeOK'
  BY <1>1 DEF Boot, RequestLocalStop, fileVars, stopVars, runVars
<1>2. ASSUME NEW p \in Proc, Vanish(p) PROVE TypeOK'
  BY <1>2 DEF Vanish, fileVars, stopVars, runVars
<1>3. ASSUME NEW p \in Proc, Exit(p) \/ WedgeExit(p) PROVE TypeOK'
  BY <1>2, <1>3 DEF Exit, WedgeExit
<1>0. ASSUME NEW r \in Run, Attempt(r)
      PROVE /\ lock' \in Run \cup {None}
            /\ phase' \in [Run -> Phase]
            /\ UNCHANGED <<proc, fileRun, fileStatus, fresh, stopFlag, stopHolder,
                           pauseFlag, status, outcome, work, abandoned, cliTarget>>
  <2>1. CASE lock = None
    BY <1>0, <2>1 DEF Attempt, fileVars, stopVars, Phase
  <2>2. CASE lock # None
    <3>1. PICK ph \in Phase : phase' = [phase EXCEPT ![r] = ph]
      BY <1>0, <2>2 DEF Attempt, Phase
    <3>2. QED
      BY <1>0, <2>2, <3>1 DEF Attempt, fileVars, stopVars
  <2>3. QED
    BY <2>1, <2>2
<1>4. ASSUME NEW r \in Run, NEW p \in Proc, NEW k \in Kind, Launch(r, p, k) PROVE TypeOK'
  BY <1>0, <1>4 DEF Launch
<1>5. ASSUME NEW r \in Run, NEW p \in Proc,
             DaemonRound(r, p) \/ WebRun(r, p) \/ CliRun(r, p)
      PROVE TypeOK'
  BY <1>4, <1>5 DEF DaemonRound, WebRun, CliRun, Kind
<1>6. ASSUME NEW r \in Run, DecideRound(r) \/ Poll(r) PROVE TypeOK'
  <2>1. CASE DecideRound(r)
    <3>1. phase' \in [Run -> Phase]
      <4>1. \/ phase' = [phase EXCEPT ![r] = "polling"]
            \/ phase' = [phase EXCEPT ![r] = "skipped"]
        BY <2>1, Zenon DEF DecideRound
      <4>2. QED
        BY <4>1 DEF Phase
    <3>2. polls[r] \in 0..MaxPolls /\ polls \in [Run -> 0..MaxPolls]
      OBVIOUS
    <3>3. polls[r] < MaxPolls => polls[r] + 1 \in 0..MaxPolls
      BY <3>2, PollsAssumption
    <3>4. \/ polls' = polls
          \/ polls[r] < MaxPolls /\ polls' = [polls EXCEPT ![r] = polls[r] + 1]
      BY <2>1 DEF DecideRound
    <3>5. polls' \in [Run -> 0..MaxPolls]
      BY <3>2, <3>3, <3>4
    <3>6. QED
      BY <2>1, <3>1, <3>5 DEF DecideRound, fileVars, stopVars
  <2>2. CASE Poll(r)
    BY <1>0, <2>2 DEF Poll
  <2>3. QED
    BY <1>6, <2>1, <2>2
<1>7. ASSUME NEW r \in Run, ClearStop(r) \/ Announce(r) \/ AnnounceFails(r) PROVE TypeOK'
  BY <1>7 DEF ClearStop, Announce, AnnounceFails, Move, DropStopFlag, WriteState,
              fileVars, stopVars, Phase
<1>8. ASSUME NEW r \in Run, Load(r) \/ LoadFails(r) PROVE TypeOK'
  <2>1. CASE Load(r)
    <3>1. PICK todo \in SUBSET Account : Queue(r, todo)
      BY <2>1 DEF Load
    <3>2. [a \in Account |-> IF a \in todo THEN "queued" ELSE "out"] \in [Account -> Work]
      BY DEF Work, Over
    <3>3. work' \in [Run -> [Account -> Work]]
      BY <3>1, <3>2 DEF Queue
    <3>4. QED
      BY <2>1, <3>3 DEF Load, fileVars, stopVars, Phase
  <2>2. CASE LoadFails(r)
    BY <2>2 DEF LoadFails, Move, fileVars, stopVars, Phase
  <2>3. QED
    BY <1>8, <2>1, <2>2
<1>9. ASSUME NEW r \in Run, EndScan(r) PROVE TypeOK'
  BY <1>9 DEF EndScan, Move, fileVars, stopVars, Phase
<1>10. ASSUME NEW r \in Run, Prune(r) \/ Publish(r) \/ FinishClearStop(r) \/ Release(r)
       PROVE TypeOK'
  BY <1>10 DEF Prune, Publish, FinishClearStop, Release, Move, DropStopFlag, WriteState,
               fileVars, stopVars, Phase
<1>11. ASSUME NEW r \in Run, NEW a \in Account, WorkerStep(r, a) \/ Hang(r, a) PROVE TypeOK'
  <2>0. ASSUME NEW w \in Work, SetWork(r, a, w) PROVE work' \in [Run -> [Account -> Work]]
    BY <2>0 DEF SetWork
  <2>1. CASE StartAccount(r, a) \/ SaveSnapshot(r, a) \/ Return(r, a) \/ Hang(r, a)
    <3>1. \E w \in Work : SetWork(r, a, w)
      BY <2>1 DEF StartAccount, SaveSnapshot, Return, Hang, Work, Busy, Over
    <3>2. work' \in [Run -> [Account -> Work]]
      BY <2>0, <3>1
    <3>3. QED
      BY <2>1, <3>2 DEF StartAccount, SaveSnapshot, Return, Hang, WorkFrame, fileVars, stopVars
  <2>2. CASE Checkpoint(r, a)
    <3>1. \E w \in Work : SetWork(r, a, w)
      BY <2>2 DEF Checkpoint, Work, Busy, Over
    <3>2. work' \in [Run -> [Account -> Work]]
      BY <2>0, <3>1
    <3>3. QED
      BY <2>2, <3>2 DEF Checkpoint, WorkFrame, Heartbeat, WriteState, fileVars, stopVars
  <2>3. QED
    BY <1>11, <2>1, <2>2 DEF WorkerStep
<1>12. ASSUME NEW r \in Run, NEW a \in Account, Abandon(r, a) PROVE TypeOK'
  BY <1>12 DEF Abandon, fileVars, stopVars
<1>13. CASE HeartbeatAges \/ RequestStop \/ CliStopRead \/ CliStopTouch \/ TogglePause
  BY <1>13 DEF HeartbeatAges, RequestStop, CliStopRead, CliStopTouch, TogglePause,
               fileVars, stopVars, runVars
<1>14. CASE UNCHANGED vars
  BY <1>14 DEF vars, fileVars, stopVars, runVars
<1>15. QED
  BY <1>1, <1>3, <1>5, <1>6, <1>7, <1>8, <1>9, <1>10, <1>11, <1>12, <1>13, <1>14
     DEF Next, MainStep

\* The initial values have their types.
LEMMA InitType == Init => TypeOK
<1> SUFFICES ASSUME Init PROVE TypeOK
  OBVIOUS
<1>1. polls \in [Run -> 0..MaxPolls]
  BY PollsAssumption DEF Init
<1>2. work \in [Run -> [Account -> Work]]
  BY DEF Init, Work, Over
<1>3. QED
  BY <1>1, <1>2 DEF Init, TypeOK, Status, Outcome, Kind, Phase

\* Every variable keeps its type in every reachable state.
THEOREM TypeCorrect == Spec => []TypeOK
BY InitType, TypeStep, PTL DEF Spec
-----------------------------------------------------------------------------
\* Every step of a run's own thread moves it to a phase other than "idle" and
\* leaves the owners and the processes alone.
LEMMA MainStepPhase ==
  ASSUME TypeOK, NEW r \in Run, MainStep(r)
  PROVE  /\ UNCHANGED <<owner, kind, proc>>
         /\ phase[r] # "idle"
         /\ \E ph \in Phase \ {"idle"} : phase' = [phase EXCEPT ![r] = ph]
<1>1. CASE DecideRound(r)
  BY <1>1, Zenon DEF DecideRound, Phase
<1>2. CASE Poll(r)
  BY <1>2 DEF Poll, Attempt, Phase
<1>3. CASE ClearStop(r) \/ Announce(r) \/ AnnounceFails(r) \/ Load(r) \/ LoadFails(r)
  BY <1>3 DEF ClearStop, Announce, AnnounceFails, Load, LoadFails, Move, Phase
<1>4. CASE EndScan(r) \/ Prune(r) \/ Publish(r) \/ FinishClearStop(r) \/ Release(r)
  BY <1>4 DEF EndScan, Prune, Publish, FinishClearStop, Release, Move, Phase
<1>5. QED
  BY <1>1, <1>2, <1>3, <1>4 DEF MainStep

\* A run has an owner once it was attempted, and the owner was started.
LEMMA OwnedStep == TypeOK /\ Owned /\ [Next]_vars => Owned'
<1> SUFFICES ASSUME TypeOK, Owned, [Next]_vars PROVE Owned'
  OBVIOUS
<1> USE NoneAssumption DEF TypeOK, Owned
<1>1. ASSUME NEW p \in Proc, Boot(p) \/ RequestLocalStop(p) PROVE Owned'
  BY <1>1 DEF Boot, RequestLocalStop, runVars
<1>2. ASSUME NEW p \in Proc, Exit(p) \/ WedgeExit(p) PROVE Owned'
  BY <1>2 DEF Exit, WedgeExit, Vanish, runVars
<1>3. ASSUME NEW r \in Run, NEW p \in Proc, NEW k \in Kind, Launch(r, p, k) PROVE Owned'
  <2>1. owner' = [owner EXCEPT ![r] = p] /\ proc[p] = "up" /\ UNCHANGED proc
    BY <1>3 DEF Launch, Attempt
  <2>2. \E ph \in Phase \ {"idle"} : phase' = [phase EXCEPT ![r] = ph]
    BY <1>3 DEF Launch, Attempt, Phase
  <2>3. QED
    BY <2>1, <2>2
<1>4. ASSUME NEW r \in Run, NEW p \in Proc,
             DaemonRound(r, p) \/ WebRun(r, p) \/ CliRun(r, p)
      PROVE Owned'
  BY <1>3, <1>4 DEF DaemonRound, WebRun, CliRun, Kind
<1>5. ASSUME NEW r \in Run, MainStep(r) PROVE Owned'
  BY <1>5, MainStepPhase
<1>6. ASSUME NEW r \in Run, NEW a \in Account, WorkerStep(r, a) \/ Hang(r, a) \/ Abandon(r, a)
      PROVE Owned'
  BY <1>6 DEF WorkerStep, StartAccount, Checkpoint, SaveSnapshot, Return, Hang, Abandon, WorkFrame
<1>7. CASE HeartbeatAges \/ RequestStop \/ CliStopRead \/ CliStopTouch \/ TogglePause
  BY <1>7 DEF HeartbeatAges, RequestStop, CliStopRead, CliStopTouch, TogglePause, runVars
<1>8. CASE UNCHANGED vars
  BY <1>8 DEF vars, runVars
<1>9. QED
  BY <1>1, <1>2, <1>4, <1>5, <1>6, <1>7, <1>8 DEF Next
\* The lock and the threads that believe they hold it agree after every step.
LEMMA LockStep ==
  TypeOK /\ Owned /\ LockIsHeldByItsRun /\ [Next]_vars => LockIsHeldByItsRun'
<1> SUFFICES ASSUME TypeOK, Owned, LockIsHeldByItsRun, [Next]_vars PROVE LockIsHeldByItsRun'
  OBVIOUS
<1> USE NoneAssumption DEF TypeOK, Owned, LockIsHeldByItsRun, InLock, Alive, Living
<1>1. ASSUME NEW p \in Proc, Boot(p) \/ RequestLocalStop(p) PROVE LockIsHeldByItsRun'
  BY <1>1 DEF Boot, RequestLocalStop, runVars
<1>2. ASSUME NEW p \in Proc, Exit(p) \/ WedgeExit(p) PROVE LockIsHeldByItsRun'
  <2>1. Vanish(p)
    BY <1>2 DEF Exit, WedgeExit
  <2>2. CASE lock # None /\ owner[lock] = p
    BY <2>1, <2>2 DEF Vanish, runVars
  <2>3. CASE ~(lock # None /\ owner[lock] = p)
    BY <2>1, <2>3 DEF Vanish, runVars
  <2>4. QED
    BY <2>2, <2>3
<1>3. ASSUME NEW r \in Run, NEW p \in Proc, NEW k \in Kind, Launch(r, p, k)
      PROVE LockIsHeldByItsRun'
  <2>1. owner' = [owner EXCEPT ![r] = p] /\ proc[p] = "up" /\ UNCHANGED proc /\ owner[r] = None
    BY <1>3 DEF Launch, Attempt
  <2>2. CASE lock = None
    BY <1>3, <2>1, <2>2 DEF Launch, Attempt, Critical
  <2>3. CASE lock # None
    <3>1. \E ph \in {"refused", "skipped"} : phase' = [phase EXCEPT ![r] = ph]
      BY <1>3, <2>3 DEF Launch, Attempt
    <3>2. UNCHANGED lock
      BY <1>3, <2>3 DEF Launch, Attempt
    <3>3. QED
      BY <2>1, <3>1, <3>2 DEF Critical
  <2>4. QED
    BY <2>2, <2>3
<1>4. ASSUME NEW r \in Run, NEW p \in Proc,
             DaemonRound(r, p) \/ WebRun(r, p) \/ CliRun(r, p)
      PROVE LockIsHeldByItsRun'
  BY <1>3, <1>4 DEF DaemonRound, WebRun, CliRun, Kind
<1>5. ASSUME NEW r \in Run, MainStep(r) PROVE LockIsHeldByItsRun'
  <2> UNCHANGED <<owner, proc>>
    BY <1>5, MainStepPhase
  <2>1. CASE DecideRound(r)
    <3>1. \E ph \in {"polling", "skipped"} : phase' = [phase EXCEPT ![r] = ph]
      BY <2>1, Zenon DEF DecideRound
    <3>2. UNCHANGED lock /\ phase[r] = "refused"
      BY <2>1 DEF DecideRound
    <3>3. QED
      BY <3>1, <3>2 DEF Critical
  <2>2. CASE Poll(r)
    BY <2>2 DEF Poll, Attempt, Critical
  <2>3. CASE ClearStop(r) \/ Announce(r) \/ LoadFails(r) \/ Prune(r) \/ FinishClearStop(r)
    BY <2>3 DEF ClearStop, Announce, LoadFails, Prune, FinishClearStop, Move, Critical
  <2>4. CASE EndScan(r) \/ Load(r)
    BY <2>4 DEF EndScan, Load, Move, Critical
  <2>5. CASE Publish(r)
    BY <2>5 DEF Publish, Move, Critical
  <2>6. CASE AnnounceFails(r) \/ Release(r)
    BY <2>6 DEF AnnounceFails, Release, Move, Critical
  <2>7. QED
    BY <1>5, <2>1, <2>2, <2>3, <2>4, <2>5, <2>6 DEF MainStep
<1>6. ASSUME NEW r \in Run, NEW a \in Account, WorkerStep(r, a) \/ Hang(r, a) \/ Abandon(r, a)
      PROVE LockIsHeldByItsRun'
  BY <1>6 DEF WorkerStep, StartAccount, Checkpoint, SaveSnapshot, Return, Hang, Abandon, WorkFrame
<1>7. CASE HeartbeatAges \/ RequestStop \/ CliStopRead \/ CliStopTouch \/ TogglePause
  BY <1>7 DEF HeartbeatAges, RequestStop, CliStopRead, CliStopTouch, TogglePause, runVars
<1>8. CASE UNCHANGED vars
  BY <1>8 DEF vars, runVars
<1>9. QED
  BY <1>1, <1>2, <1>4, <1>5, <1>6, <1>7, <1>8 DEF Next

\* A stop flag that survives into a run was set while that run held the lock.
LEMMA StopStep ==
  TypeOK /\ Owned /\ LockIsHeldByItsRun /\ StopFlagIsForHolder /\ [Next]_vars
    => StopFlagIsForHolder'
<1> SUFFICES ASSUME TypeOK, Owned, LockIsHeldByItsRun, StopFlagIsForHolder, [Next]_vars
             PROVE StopFlagIsForHolder'
  OBVIOUS
<1> USE NoneAssumption DEF TypeOK, Owned, LockIsHeldByItsRun, InLock, Alive, StopFlagIsForHolder
<1>1. ASSUME NEW p \in Proc, Boot(p) \/ RequestLocalStop(p) PROVE StopFlagIsForHolder'
  BY <1>1 DEF Boot, RequestLocalStop, runVars, stopVars
<1>2. ASSUME NEW p \in Proc, Exit(p) \/ WedgeExit(p) PROVE StopFlagIsForHolder'
  BY <1>2 DEF Exit, WedgeExit, Vanish, runVars, stopVars
<1>3. ASSUME NEW r \in Run, Attempt(r), phase[r] \notin Critical PROVE StopFlagIsForHolder'
  BY <1>3 DEF Attempt, stopVars, Critical
<1>4. ASSUME NEW r \in Run, NEW p \in Proc,
             DaemonRound(r, p) \/ WebRun(r, p) \/ CliRun(r, p)
      PROVE StopFlagIsForHolder'
  BY <1>3, <1>4 DEF DaemonRound, WebRun, CliRun, Launch, Critical
<1>5. ASSUME NEW r \in Run, MainStep(r) PROVE StopFlagIsForHolder'
  <2>1. CASE DecideRound(r)
    <3>1. \E ph \in {"polling", "skipped"} : phase' = [phase EXCEPT ![r] = ph]
      BY <2>1, Zenon DEF DecideRound
    <3>2. UNCHANGED <<lock, stopFlag, stopHolder>> /\ phase[r] = "refused"
      BY <2>1 DEF DecideRound, stopVars
    <3>3. QED
      BY <3>1, <3>2 DEF Critical
  <2>2. CASE Poll(r)
    BY <1>3, <2>2 DEF Poll, Critical
  <2>3. CASE ClearStop(r) \/ FinishClearStop(r)
    BY <2>3 DEF ClearStop, FinishClearStop, DropStopFlag
  <2>0. ASSUME UNCHANGED <<lock, stopFlag, stopHolder>>, phase[r] # "locked",
               \E ph \in Phase : phase' = [phase EXCEPT ![r] = ph]
        PROVE StopFlagIsForHolder'
    BY <2>0
  <2>4. CASE Announce(r) \/ LoadFails(r) \/ Prune(r)
    BY <2>0, <2>4 DEF Announce, LoadFails, Prune, Move, stopVars, Phase
  <2>5. CASE EndScan(r) \/ Load(r)
    BY <2>0, <2>5 DEF EndScan, Load, Move, stopVars, Phase
  <2>6. CASE Publish(r)
    BY <2>0, <2>6 DEF Publish, Move, stopVars, Phase
  <2>7. CASE AnnounceFails(r) \/ Release(r)
    BY <2>7 DEF AnnounceFails, Release, Move, stopVars
  <2>8. QED
    BY <1>5, <2>1, <2>2, <2>3, <2>4, <2>5, <2>6, <2>7 DEF MainStep
<1>6. ASSUME NEW r \in Run, NEW a \in Account, WorkerStep(r, a) \/ Hang(r, a) \/ Abandon(r, a)
      PROVE StopFlagIsForHolder'
  BY <1>6 DEF WorkerStep, StartAccount, Checkpoint, SaveSnapshot, Return, Hang, Abandon,
              WorkFrame, stopVars
<1>7. CASE HeartbeatAges \/ RequestStop \/ CliStopRead \/ CliStopTouch \/ TogglePause
  BY <1>7 DEF HeartbeatAges, RequestStop, CliStopRead, CliStopTouch, TogglePause, runVars, stopVars
<1>8. CASE UNCHANGED vars
  BY <1>8 DEF vars, runVars, stopVars
<1>9. QED
  BY <1>1, <1>2, <1>4, <1>5, <1>6, <1>7, <1>8 DEF Next
-----------------------------------------------------------------------------
\* A step of a scan changes that scan alone, takes one that was queued or can
\* take a step, and cancels it only on a request to stop.
LEMMA WorkChange ==
  ASSUME TypeOK, NEW r \in Run, NEW a \in Account, WorkerStep(r, a) \/ Hang(r, a)
  PROVE  /\ UNCHANGED <<proc, lock, stopFlag, stopHolder, owner, kind, phase, outcome, abandoned>>
         /\ Alive(r)
         /\ \E w \in Work \ {"queued", "out"} :
              /\ work' = [work EXCEPT ![r][a] = w]
              /\ \/ /\ work[r][a] = "queued"
                    /\ w = "login"
                    /\ phase[r] = "scanning"
                    /\ ~Concurrent(r) =>
                         \A b \in Account : work[r][b] \in {"queued"} \cup (Over \ {"cancelled"})
                 \/ /\ work[r][a] \in Busy
                    /\ w = "cancelled" => StopRequested(r)
<1> USE DEF Work, Busy, Over
<1>1. CASE StartAccount(r, a)
  BY <1>1 DEF StartAccount, SetWork, WorkFrame, stopVars
<1>2. CASE Checkpoint(r, a)
  <2>1. CASE StopRequested(r)
    BY <1>2, <2>1 DEF Checkpoint, SetWork, WorkFrame, stopVars
  <2>2. CASE ~StopRequested(r)
    <3>1. \E w \in {"login", "fetch", "saved", "sync"} : work' = [work EXCEPT ![r][a] = w]
      BY <1>2, <2>2 DEF Checkpoint, SetWork
    <3>2. QED
      BY <1>2, <3>1 DEF Checkpoint, WorkFrame, stopVars
  <2>3. QED
    BY <2>1, <2>2
<1>3. CASE SaveSnapshot(r, a) \/ Return(r, a) \/ Hang(r, a)
  BY <1>3 DEF SaveSnapshot, Return, Hang, SetWork, WorkFrame, stopVars
<1>4. QED
  BY <1>1, <1>2, <1>3 DEF WorkerStep

\* What the cancellation invariants need of it.
LEMMA CancelChange ==
  ASSUME TypeOK, NEW r \in Run, NEW a \in Account, WorkerStep(r, a) \/ Hang(r, a)
  PROVE  \E w \in Work \ {"queued", "out"} :
           /\ work' = [work EXCEPT ![r][a] = w]
           /\ w = "cancelled" => StopRequested(r)
           /\ work[r][a] \notin Busy => phase[r] = "scanning"
<1>1. PICK w \in Work \ {"queued", "out"} :
         /\ work' = [work EXCEPT ![r][a] = w]
         /\ \/ w = "login" /\ phase[r] = "scanning"
            \/ work[r][a] \in Busy /\ (w = "cancelled" => StopRequested(r))
  BY WorkChange
<1>2. QED
  BY <1>1

\* Load queues some set of accounts.
LEMMA LoadQueues ==
  ASSUME NEW r \in Run, Load(r)
  PROVE  \E todo \in SUBSET Account : Queue(r, todo)
BY DEF Load

\* Outside Load no step of a run's own thread touches the scans, and none of
\* them gives an account up.
LEMMA MainStepWork ==
  ASSUME NEW r \in Run, MainStep(r)
  PROVE  /\ UNCHANGED abandoned
         /\ \/ UNCHANGED work
            \/ /\ phase[r] = "announced"
               /\ phase' = [phase EXCEPT ![r] = "scanning"]
               /\ UNCHANGED <<lock, stopFlag, proc, owner, outcome>>
               /\ \E todo \in SUBSET Account : Queue(r, todo)
<1>1. CASE DecideRound(r) \/ Poll(r)
  BY <1>1 DEF DecideRound, Poll, Attempt
<1>2. CASE Load(r)
  BY <1>2 DEF Load, stopVars
<1>3. CASE ClearStop(r) \/ Announce(r) \/ AnnounceFails(r) \/ LoadFails(r) \/ EndScan(r)
  BY <1>3 DEF ClearStop, Announce, AnnounceFails, LoadFails, EndScan, Move
<1>4. CASE Prune(r) \/ Publish(r) \/ FinishClearStop(r) \/ Release(r)
  BY <1>4 DEF Prune, Publish, FinishClearStop, Release, Move
<1>5. QED
  BY <1>1, <1>2, <1>3, <1>4 DEF MainStep

\* Only a run that holds the lock, and is not scanning, drops the stop flag.
LEMMA MainStepStop ==
  ASSUME NEW r \in Run, MainStep(r)
  PROVE  \/ UNCHANGED stopFlag
         \/ phase[r] \in {"locked", "published"} /\ Alive(r)
<1>1. CASE DecideRound(r) \/ Poll(r) \/ Load(r)
  BY <1>1 DEF DecideRound, Poll, Attempt, Load, stopVars
<1>2. CASE ClearStop(r) \/ FinishClearStop(r)
  BY <1>2 DEF ClearStop, FinishClearStop, Move
<1>3. CASE Announce(r) \/ AnnounceFails(r) \/ LoadFails(r) \/ EndScan(r)
  BY <1>3 DEF Announce, AnnounceFails, LoadFails, EndScan, stopVars
<1>4. CASE Prune(r) \/ Publish(r) \/ Release(r)
  BY <1>4 DEF Prune, Publish, Release, stopVars
<1>5. QED
  BY <1>1, <1>2, <1>3, <1>4 DEF MainStep
\* What a new run changes.
LEMMA NewRun ==
  ASSUME TypeOK, NEW r \in Run, NEW p \in Proc,
         DaemonRound(r, p) \/ WebRun(r, p) \/ CliRun(r, p)
  PROVE  /\ phase[r] = "idle"
         /\ UNCHANGED <<work, abandoned, outcome, stopFlag, proc>>
         /\ owner' = [owner EXCEPT ![r] = p]
         /\ \E k \in Kind : kind' = [kind EXCEPT ![r] = k]
         /\ \E ph \in {"refused", "skipped", "locked"} : phase' = [phase EXCEPT ![r] = ph]
<1>1. PICK k \in Kind : Launch(r, p, k)
  BY DEF DaemonRound, WebRun, CliRun, Kind
<1>2. QED
  BY <1>1 DEF Launch, Attempt, stopVars

\* A worker that was not given up works only while its run is scanning.
LEMMA WorkStep ==
  TypeOK /\ SerialScansOne /\ WorkBelongsToScan /\ [Next]_vars => WorkBelongsToScan'
<1> SUFFICES ASSUME TypeOK, SerialScansOne, WorkBelongsToScan, [Next]_vars
             PROVE WorkBelongsToScan'
  OBVIOUS
<1> USE DEF TypeOK, WorkBelongsToScan
<1>1. ASSUME UNCHANGED <<phase, work, abandoned>> PROVE WorkBelongsToScan'
  BY <1>1
<1>2. ASSUME NEW p \in Proc, Boot(p) \/ RequestLocalStop(p) \/ Exit(p) \/ WedgeExit(p)
      PROVE WorkBelongsToScan'
  BY <1>1, <1>2 DEF Boot, RequestLocalStop, Exit, WedgeExit, Vanish, runVars
<1>3. ASSUME NEW r \in Run, NEW p \in Proc,
             DaemonRound(r, p) \/ WebRun(r, p) \/ CliRun(r, p)
      PROVE WorkBelongsToScan'
  <2>1. PICK ph \in {"refused", "skipped", "locked"} :
          /\ phase[r] = "idle" /\ phase' = [phase EXCEPT ![r] = ph]
          /\ UNCHANGED <<work, abandoned>>
    BY <1>3, NewRun
  <2>2. \A x \in Run : x # r => phase'[x] = phase[x]
    BY <2>1
  <2>3. phase'[r] \in {"refused", "skipped", "locked"}
    BY <2>1
  <2> QED BY <2>1, <2>2, <2>3
<1>4. ASSUME NEW r \in Run, MainStep(r) PROVE WorkBelongsToScan'
  <2>1. CASE EndScan(r)
    <3>1. /\ phase' = [phase EXCEPT ![r] = "closing"]
          /\ UNCHANGED <<work, abandoned>>
      BY <2>1 DEF EndScan, Move
    <3>2. \A a \in Account : work[r][a] \in Busy \cup {"hung"} => a \in abandoned[r]
      <4>1. CASE Concurrent(r)
        BY <2>1, <4>1 DEF EndScan, Settled, Busy, Over
      <4>2. CASE ~Concurrent(r)
        <5>1. CASE \A a \in Account : work[r][a] \in Over
          BY <5>1 DEF Busy, Over
        <5>2. CASE \E a \in Account : work[r][a] = "cancelled"
          BY <4>2, <5>2 DEF SerialScansOne, Busy, Over
        <5>3. QED
          BY <2>1, <4>2, <5>1, <5>2 DEF EndScan
      <4>3. QED
        BY <4>1, <4>2
    <3>3. QED
      BY <3>1, <3>2
  <2>2. CASE Load(r)
    <3>1. PICK todo \in SUBSET Account : Queue(r, todo)
      BY <2>2, LoadQueues
    <3>2. \A a \in Account : work'[r][a] \in {"queued", "out"}
      BY <3>1 DEF Queue
    <3>3. \A q \in Run \ {r} : work'[q] = work[q]
      BY <3>1 DEF Queue
    <3>4. /\ phase' = [phase EXCEPT ![r] = "scanning"]
          /\ UNCHANGED abandoned
      BY <2>2 DEF Load
    <3>5. QED
      BY <3>2, <3>3, <3>4 DEF Busy
  <2>3. CASE DecideRound(r) \/ Poll(r)
    <3>1. /\ phase[r] \in {"refused", "polling"}
          /\ \E ph \in {"polling", "refused", "skipped", "locked"} :
               phase' = [phase EXCEPT ![r] = ph]
      <4>1. CASE DecideRound(r)
        BY <4>1, Zenon DEF DecideRound
      <4>2. CASE Poll(r)
        BY <4>2 DEF Poll, Attempt
      <4>3. QED
        BY <2>3, <4>1, <4>2
    <3>2. UNCHANGED <<work, abandoned>>
      BY <2>3 DEF DecideRound, Poll, Attempt
    <3>3. QED
      BY <3>1, <3>2
  <2>4. CASE ClearStop(r) \/ Announce(r) \/ AnnounceFails(r) \/ LoadFails(r)
    <3>1. /\ phase[r] \in {"locked", "cleared", "announced"}
          /\ \E ph \in {"cleared", "announced", "ended", "closing"} :
               phase' = [phase EXCEPT ![r] = ph]
          /\ UNCHANGED <<work, abandoned>>
      BY <2>4 DEF ClearStop, Announce, AnnounceFails, LoadFails, Move
    <3>2. \A a \in Account : work[r][a] = "out" /\ abandoned[r] = {}
      BY <3>1
    <3>3. QED
      BY <3>1, <3>2 DEF Busy
  <2>5. CASE Prune(r) \/ Publish(r) \/ FinishClearStop(r) \/ Release(r)
    <3>1. /\ phase[r] \in {"closing", "pruned", "published", "unflagged"}
          /\ \E ph \in {"pruned", "published", "unflagged", "ended"} :
               phase' = [phase EXCEPT ![r] = ph]
          /\ UNCHANGED <<work, abandoned>>
      BY <2>5 DEF Prune, Publish, FinishClearStop, Release, Move
    <3>2. QED
      BY <3>1
  <2>6. QED
    BY <1>4, <2>1, <2>2, <2>3, <2>4, <2>5 DEF MainStep
<1>5. ASSUME NEW r \in Run, NEW a \in Account, WorkerStep(r, a) \/ Hang(r, a)
      PROVE WorkBelongsToScan'
  <2>1. PICK w \in Work \ {"queued", "out"} :
           /\ work' = [work EXCEPT ![r][a] = w]
           /\ work[r][a] # "out"
           /\ work[r][a] \notin Busy \cup {"hung"} => phase[r] = "scanning"
    BY <1>5, WorkChange DEF Busy
  <2>2. UNCHANGED <<phase, abandoned>>
    BY <1>5, WorkChange
  <2>3. QED
    BY <2>1, <2>2
<1>6. ASSUME NEW r \in Run, NEW a \in Account, Abandon(r, a) PROVE WorkBelongsToScan'
  BY <1>6 DEF Abandon
<1>7. CASE HeartbeatAges \/ RequestStop \/ CliStopRead \/ CliStopTouch \/ TogglePause
  BY <1>1, <1>7 DEF HeartbeatAges, RequestStop, CliStopRead, CliStopTouch, TogglePause, runVars
<1>8. CASE UNCHANGED vars
  BY <1>1, <1>8 DEF vars, runVars
<1>9. QED
  BY <1>2, <1>3, <1>4, <1>5, <1>6, <1>7, <1>8 DEF Next

\* A run without a pool keeps scanning one account at a time.
LEMMA SerialStep ==
  TypeOK /\ WorkBelongsToScan /\ SerialScansOne /\ [Next]_vars => SerialScansOne'
<1> SUFFICES ASSUME TypeOK, WorkBelongsToScan, SerialScansOne, [Next]_vars
             PROVE SerialScansOne'
  OBVIOUS
<1> USE DEF TypeOK, SerialScansOne
<1>1. ASSUME UNCHANGED <<kind, work, abandoned>> PROVE SerialScansOne'
  BY <1>1 DEF Concurrent
<1>2. ASSUME NEW p \in Proc, Boot(p) \/ RequestLocalStop(p) \/ Exit(p) \/ WedgeExit(p)
      PROVE SerialScansOne'
  BY <1>1, <1>2 DEF Boot, RequestLocalStop, Exit, WedgeExit, Vanish, runVars
<1>3. ASSUME NEW r \in Run, NEW p \in Proc,
             DaemonRound(r, p) \/ WebRun(r, p) \/ CliRun(r, p)
      PROVE SerialScansOne'
  <2>1. abandoned[r] = {} /\ \A a \in Account : work[r][a] = "out"
    BY <1>3, NewRun DEF WorkBelongsToScan
  <2>2. \A q \in Run \ {r} : kind'[q] = kind[q]
    BY <1>3, NewRun
  <2>3. \A q \in Run \ {r} : Concurrent(q)' <=> Concurrent(q)
    BY <2>2 DEF Concurrent
  <2>4. QED
    BY <1>3, NewRun, <2>1, <2>3 DEF Busy
<1>4. ASSUME NEW r \in Run, MainStep(r) PROVE SerialScansOne'
  <2>1. UNCHANGED <<kind, abandoned>>
    BY <1>4, MainStepPhase, MainStepWork
  <2>2. CASE UNCHANGED work
    BY <1>1, <2>1, <2>2
  <2>3. CASE work' # work
    <3>1. PICK todo \in SUBSET Account : Queue(r, todo)
      BY <1>4, <2>3, MainStepWork
    <3>2. \A a \in Account : work'[r][a] \in {"queued", "out"}
      BY <3>1 DEF Queue
    <3>3. \A q \in Run \ {r} : work'[q] = work[q]
      BY <3>1 DEF Queue
    <3>4. QED
      BY <2>1, <3>2, <3>3 DEF Concurrent, Busy
  <2>4. QED
    BY <2>2, <2>3
<1>5. ASSUME NEW r \in Run, NEW a \in Account, WorkerStep(r, a) \/ Hang(r, a)
      PROVE SerialScansOne'
  <2>1. PICK w \in Work \ {"queued", "out"} :
           /\ work' = [work EXCEPT ![r][a] = w]
           /\ work[r][a] \in Busy
                \/ (~Concurrent(r) =>
                      \A b \in Account : work[r][b] \in {"queued"} \cup (Over \ {"cancelled"}))
    BY <1>5, WorkChange
  <2>2. UNCHANGED <<kind, abandoned>>
    BY <1>5, WorkChange
  <2>3. \A q \in Run : Concurrent(q)' <=> Concurrent(q)
    BY <2>2 DEF Concurrent
  <2>4. \A q \in Run \ {r} : work'[q] = work[q]
    BY <2>1
  <2>5. \A b \in Account : work'[r][b] = IF b = a THEN w ELSE work[r][b]
    BY <2>1
  <2>6. ASSUME ~Concurrent(r), NEW b \in Account, b # a
        PROVE work[r][b] \in {"queued"} \cup (Over \ {"cancelled"})
    BY <2>1, <2>6
  <2>7. ASSUME NEW b \in Account, work[r][b] \in {"queued"} \cup (Over \ {"cancelled"})
        PROVE work[r][b] \notin Busy \cup {"hung"}
    BY <2>7 DEF Busy, Over
  <2>8. ASSUME ~Concurrent(r), NEW c \in Account, NEW b \in Account, c # b,
               work'[r][c] \in Busy \cup {"hung"}
        PROVE work'[r][b] \in {"queued"} \cup (Over \ {"cancelled"})
    <3>1. c = a
      BY <2>5, <2>6, <2>7, <2>8
    <3>2. QED
      BY <2>5, <2>6, <2>8, <3>1
  <2>9. ASSUME NEW q \in Run, ~Concurrent(q)'
        PROVE /\ abandoned'[q] = {}
              /\ \A c, b \in Account :
                   work'[q][c] \in Busy \cup {"hung"} /\ c # b
                     => work'[q][b] \in {"queued"} \cup (Over \ {"cancelled"})
    <3>1. CASE q = r
      BY <2>2, <2>3, <2>8, <2>9, <3>1
    <3>2. CASE q # r
      BY <2>2, <2>3, <2>4, <2>9, <3>2
    <3>3. QED
      BY <3>1, <3>2
  <2>10. QED
    BY <2>9
<1>6. ASSUME NEW r \in Run, NEW a \in Account, Abandon(r, a) PROVE SerialScansOne'
  BY <1>6 DEF Abandon, Concurrent
<1>7. CASE HeartbeatAges \/ RequestStop \/ CliStopRead \/ CliStopTouch \/ TogglePause
  BY <1>1, <1>7 DEF HeartbeatAges, RequestStop, CliStopRead, CliStopTouch, TogglePause, runVars
<1>8. CASE UNCHANGED vars
  BY <1>1, <1>8 DEF vars, runVars
<1>9. QED
  BY <1>2, <1>3, <1>4, <1>5, <1>6, <1>7, <1>8 DEF Next

\* A run's own thread enters "scanning" with no account scanned yet.
LEMMA ScanBegins ==
  ASSUME TypeOK, NEW r \in Run, MainStep(r), phase'[r] = "scanning"
  PROVE  \A a \in Account : work'[r][a] # "cancelled"
<1> USE DEF TypeOK
<1>1. CASE Load(r)
  <2>1. PICK todo \in SUBSET Account : Queue(r, todo)
    BY <1>1, LoadQueues
  <2>2. QED
    BY <2>1 DEF Queue
<1>2. CASE DecideRound(r)
  <2>1. \E ph \in {"polling", "skipped"} : phase' = [phase EXCEPT ![r] = ph]
    BY <1>2, Zenon DEF DecideRound
  <2>2. QED
    BY <2>1
<1>3. CASE Poll(r)
  BY <1>3 DEF Poll, Attempt
<1>4. CASE ClearStop(r) \/ Announce(r) \/ AnnounceFails(r) \/ LoadFails(r) \/ EndScan(r)
  BY <1>4 DEF ClearStop, Announce, AnnounceFails, LoadFails, EndScan, Move
<1>5. CASE Prune(r) \/ Publish(r) \/ FinishClearStop(r) \/ Release(r)
  BY <1>5 DEF Prune, Publish, FinishClearStop, Release, Move
<1>6. QED
  BY <1>1, <1>2, <1>3, <1>4, <1>5 DEF MainStep

\* While a run is scanning, the request that cancelled one of its accounts is
\* still there: nobody drops the flag under it, and SIGTERM is not undone.
LEMMA ReasonStep ==
  TypeOK /\ Owned /\ LockIsHeldByItsRun /\ CancelHasReason /\ [Next]_vars => CancelHasReason'
<1> SUFFICES ASSUME TypeOK, Owned, LockIsHeldByItsRun, CancelHasReason, [Next]_vars
             PROVE CancelHasReason'
  OBVIOUS
<1> USE NoneAssumption DEF TypeOK, Owned, CancelHasReason, StopRequested, Alive, Living
<1>1. ASSUME UNCHANGED <<work, abandoned, phase, owner, proc>>, stopFlag => stopFlag'
      PROVE CancelHasReason'
  BY <1>1
<1>2. ASSUME NEW p \in Proc, Boot(p) \/ RequestLocalStop(p) \/ Exit(p) \/ WedgeExit(p)
      PROVE CancelHasReason'
  <2>1. UNCHANGED <<work, abandoned, phase, owner, stopFlag>>
    BY <1>2 DEF Boot, RequestLocalStop, Exit, WedgeExit, Vanish, runVars, stopVars
  <2>2. PICK s \in {"up", "term", "dead"} :
           /\ proc' = [proc EXCEPT ![p] = s]
           /\ \/ proc[p] = "unborn"
              \/ proc[p] = "up" /\ s = "term"
              \/ s = "dead"
    BY <1>2 DEF Boot, RequestLocalStop, Exit, WedgeExit, Vanish
  <2>3. QED
    BY <2>1, <2>2
<1>3. ASSUME NEW r \in Run, NEW p \in Proc,
             DaemonRound(r, p) \/ WebRun(r, p) \/ CliRun(r, p)
      PROVE CancelHasReason'
  <2>1. /\ UNCHANGED <<work, abandoned, stopFlag, proc>>
        /\ owner' = [owner EXCEPT ![r] = p]
    BY <1>3, NewRun
  <2>2. PICK ph \in {"refused", "skipped", "locked"} : phase' = [phase EXCEPT ![r] = ph]
    BY <1>3, NewRun
  <2>3. QED
    BY <2>1, <2>2
<1>4. ASSUME NEW r \in Run, MainStep(r) PROVE CancelHasReason'
  <2>1. /\ UNCHANGED <<owner, proc, abandoned>>
        /\ \E ph \in Phase : phase' = [phase EXCEPT ![r] = ph]
    BY <1>4, MainStepPhase, MainStepWork
  <2>2. ASSUME NEW q \in Run, Alive(q), phase[q] = "scanning", stopFlag PROVE stopFlag'
    <3>1. lock = q
      BY <2>2 DEF LockIsHeldByItsRun, InLock, Critical
    <3>2. CASE phase[r] \in {"locked", "published"} /\ Alive(r)
      <4>1. lock = r
        BY <3>2 DEF LockIsHeldByItsRun, InLock, Critical
      <4>2. QED
        BY <2>2, <3>1, <3>2, <4>1
    <3>3. QED
      BY <1>4, <2>2, <3>2, MainStepStop
  <2>3. \A q \in Run \ {r} : phase'[q] = phase[q] /\ work'[q] = work[q]
    <3>1. CASE UNCHANGED work
      BY <2>1, <3>1
    <3>2. CASE \E todo \in SUBSET Account : Queue(r, todo)
      BY <2>1, <3>2 DEF Queue
    <3>3. QED
      BY <1>4, <3>1, <3>2, MainStepWork
  <2>4. ASSUME NEW q \in Run, NEW a \in Account, work'[q][a] = "cancelled",
               phase'[q] = "scanning"
        PROVE q # r
    BY <1>4, <2>4, ScanBegins
  <2>5. QED
    BY <2>1, <2>2, <2>3, <2>4
<1>5. ASSUME NEW r \in Run, NEW a \in Account, WorkerStep(r, a) \/ Hang(r, a)
      PROVE CancelHasReason'
  <2>1. UNCHANGED <<proc, stopFlag, owner, phase, abandoned>>
    BY <1>5, WorkChange
  <2>2. PICK w \in Work \ {"queued", "out"} :
           /\ work' = [work EXCEPT ![r][a] = w]
           /\ w = "cancelled" => StopRequested(r)
    <3> HIDE DEF TypeOK, Owned, CancelHasReason, StopRequested, Alive, Living
    <3> QED
      BY <1>5, CancelChange
  <2>3. QED
    BY <2>1, <2>2
<1>6. ASSUME NEW r \in Run, NEW a \in Account, Abandon(r, a) PROVE CancelHasReason'
  BY <1>6 DEF Abandon, stopVars
<1>7. CASE HeartbeatAges \/ RequestStop \/ CliStopRead \/ CliStopTouch \/ TogglePause
  BY <1>1, <1>7 DEF HeartbeatAges, RequestStop, CliStopRead, CliStopTouch, TogglePause,
                    runVars, stopVars
<1>8. CASE UNCHANGED vars
  BY <1>1, <1>8 DEF vars, runVars, stopVars
<1>9. QED
  BY <1>2, <1>3, <1>4, <1>5, <1>6, <1>7, <1>8 DEF Next

\* A run that cancelled an account closes as "cancelled".
LEMMA SaysSoStep ==
  TypeOK /\ Owned /\ WorkBelongsToScan /\ CancelHasReason /\ CancelledRunSaysSo /\ [Next]_vars
    => CancelledRunSaysSo'
<1> SUFFICES ASSUME TypeOK, Owned, WorkBelongsToScan, CancelHasReason, CancelledRunSaysSo,
                    [Next]_vars
             PROVE CancelledRunSaysSo'
  OBVIOUS
<1> USE NoneAssumption DEF TypeOK, CancelledRunSaysSo
<1>1. ASSUME UNCHANGED <<work, abandoned, phase, outcome>>,
             \A r \in Run : owner[r] # None /\ Alive(r)' => Alive(r)
      PROVE CancelledRunSaysSo'
  BY <1>1 DEF Owned
<1>2. ASSUME NEW p \in Proc, Boot(p) \/ RequestLocalStop(p) \/ Exit(p) \/ WedgeExit(p)
      PROVE CancelledRunSaysSo'
  <2>1. UNCHANGED <<work, abandoned, phase, outcome, owner>>
    BY <1>2 DEF Boot, RequestLocalStop, Exit, WedgeExit, Vanish, runVars
  <2>2. PICK s \in {"up", "term", "dead"} :
           /\ proc' = [proc EXCEPT ![p] = s]
           /\ \/ proc[p] = "unborn"
              \/ proc[p] = "up" /\ s = "term"
              \/ s = "dead"
    BY <1>2 DEF Boot, RequestLocalStop, Exit, WedgeExit, Vanish
  <2>3. QED
    BY <1>1, <2>1, <2>2 DEF Owned, Alive, Living
<1>3. ASSUME NEW r \in Run, NEW p \in Proc,
             DaemonRound(r, p) \/ WebRun(r, p) \/ CliRun(r, p)
      PROVE CancelledRunSaysSo'
  <2>1. /\ UNCHANGED <<work, abandoned, outcome, proc>>
        /\ owner' = [owner EXCEPT ![r] = p]
    BY <1>3, NewRun
  <2>2. PICK ph \in {"refused", "skipped", "locked"} : phase' = [phase EXCEPT ![r] = ph]
    BY <1>3, NewRun
  <2>3. QED
    BY <2>1, <2>2 DEF Alive, Living
<1>4. ASSUME NEW r \in Run, MainStep(r) PROVE CancelledRunSaysSo'
  <2>1. /\ UNCHANGED <<owner, proc, abandoned>>
        /\ \E ph \in Phase : phase' = [phase EXCEPT ![r] = ph]
    BY <1>4, MainStepPhase, MainStepWork
  <2>2. \A q \in Run : Alive(q)' <=> Alive(q)
    BY <2>1 DEF Alive, Living
  <2>3. \A q \in Run \ {r} : phase'[q] = phase[q] /\ work'[q] = work[q]
    <3>1. CASE UNCHANGED work
      BY <2>1, <3>1
    <3>2. CASE \E todo \in SUBSET Account : Queue(r, todo)
      BY <2>1, <3>2 DEF Queue
    <3>3. QED
      BY <1>4, <3>1, <3>2, MainStepWork
  <2>4. CASE EndScan(r)
    <3>1. PICK o \in Outcome :
            /\ outcome' = [outcome EXCEPT ![r] = o]
            /\ IF Concurrent(r)
               THEN o = IF StopRequested(r) THEN "cancelled" ELSE "done"
               ELSE \/ o = "cancelled"
                    \/ \A a \in Account : work[r][a] \in Over \ {"cancelled"}
      BY <2>4 DEF EndScan
    <3>2. /\ phase[r] = "scanning"
          /\ Alive(r)
          /\ UNCHANGED work
      BY <2>4 DEF EndScan, Move
    <3>3. ASSUME NEW a \in Account, work[r][a] = "cancelled", a \notin abandoned[r]
          PROVE o = "cancelled"
      <4>1. StopRequested(r)
        BY <3>2, <3>3 DEF CancelHasReason
      <4>2. QED
        BY <3>1, <3>3, <4>1
    <3>4. QED
      BY <2>1, <2>2, <2>3, <3>1, <3>2, <3>3
  <2>5. CASE LoadFails(r)
    <3>1. /\ \A a \in Account : work[r][a] = "out"
          /\ UNCHANGED work
          /\ outcome' = [outcome EXCEPT ![r] = "error"]
      BY <2>5 DEF LoadFails, Move, WorkBelongsToScan
    <3>2. QED
      BY <2>1, <2>2, <2>3, <3>1
  <2>6. CASE ~EndScan(r) /\ ~LoadFails(r)
    <3>1. UNCHANGED outcome
      BY <1>4, <2>6 DEF MainStep, DecideRound, Poll, Attempt, ClearStop, Announce,
                        AnnounceFails, Load, Prune, Publish, FinishClearStop, Release
    <3>2. phase'[r] \in {"closing", "pruned", "published"}
            => phase[r] \in {"closing", "pruned", "published"} /\ UNCHANGED work
      <4>1. CASE DecideRound(r)
        BY <4>1, Zenon DEF DecideRound
      <4>2. CASE Poll(r) \/ Load(r)
        BY <4>2 DEF Poll, Attempt, Load
      <4>3. CASE ClearStop(r) \/ Announce(r) \/ AnnounceFails(r)
        BY <4>3 DEF ClearStop, Announce, AnnounceFails, Move
      <4>4. CASE Prune(r) \/ Publish(r) \/ FinishClearStop(r) \/ Release(r)
        BY <4>4 DEF Prune, Publish, FinishClearStop, Release, Move
      <4>5. QED
        BY <1>4, <2>6, <4>1, <4>2, <4>3, <4>4 DEF MainStep
    <3>3. QED
      BY <2>1, <2>2, <2>3, <3>1, <3>2
  <2>7. QED
    BY <2>4, <2>5, <2>6
<1>5. ASSUME NEW r \in Run, NEW a \in Account, WorkerStep(r, a) \/ Hang(r, a)
      PROVE CancelledRunSaysSo'
  <2>1. UNCHANGED <<proc, owner, phase, abandoned, outcome>>
    BY <1>5, WorkChange
  <2>2. PICK w \in Work \ {"queued", "out"} :
           /\ work' = [work EXCEPT ![r][a] = w]
           /\ work[r][a] \notin Busy => phase[r] = "scanning"
    <3> HIDE DEF TypeOK, CancelledRunSaysSo
    <3> QED
      BY <1>5, CancelChange
  <2>3. a \in abandoned[r] \/ phase[r] = "scanning"
    BY <2>2 DEF WorkBelongsToScan
  <2>4. QED
    BY <2>1, <2>2, <2>3 DEF Alive, Living
<1>6. ASSUME NEW r \in Run, NEW a \in Account, Abandon(r, a) PROVE CancelledRunSaysSo'
  BY <1>6 DEF Abandon, Alive, Living
<1>7. CASE HeartbeatAges \/ RequestStop \/ CliStopRead \/ CliStopTouch \/ TogglePause
  BY <1>1, <1>7 DEF HeartbeatAges, RequestStop, CliStopRead, CliStopTouch, TogglePause,
                    runVars, Alive, Living
<1>8. CASE UNCHANGED vars
  BY <1>1, <1>8 DEF vars, runVars, Alive, Living
<1>9. QED
  BY <1>2, <1>3, <1>4, <1>5, <1>6, <1>7, <1>8 DEF Next

-----------------------------------------------------------------------------
\* A run comes to be described by state.json only by announcing itself.
LEMMA DescribedBegins ==
  ASSUME TypeOK, [Next]_vars, NEW q \in Run, phase'[q] \in Described
  PROVE  phase[q] \in Described \/ Announce(q)
<1> USE DEF TypeOK, Described
<1>1. CASE UNCHANGED phase
  BY <1>1
<1>2. ASSUME NEW r \in Run, MainStep(r) PROVE phase[q] \in Described \/ Announce(q)
  <2>1. CASE DecideRound(r)
    <3>1. \E ph \in {"polling", "skipped"} : phase' = [phase EXCEPT ![r] = ph]
      BY <2>1, Zenon DEF DecideRound
    <3>2. QED
      BY <3>1
  <2>2. CASE Poll(r)
    BY <2>2 DEF Poll, Attempt
  <2>3. CASE ClearStop(r) \/ Announce(r) \/ AnnounceFails(r)
    BY <2>3 DEF ClearStop, Announce, AnnounceFails, Move
  <2>4. CASE Load(r) \/ LoadFails(r) \/ EndScan(r)
    BY <2>4 DEF Load, LoadFails, EndScan, Move
  <2>5. CASE Prune(r) \/ Publish(r) \/ FinishClearStop(r) \/ Release(r)
    BY <2>5 DEF Prune, Publish, FinishClearStop, Release, Move
  <2>6. QED
    BY <1>2, <2>1, <2>2, <2>3, <2>4, <2>5 DEF MainStep
<1>3. ASSUME NEW r \in Run, NEW p \in Proc, DaemonRound(r, p) \/ WebRun(r, p) \/ CliRun(r, p)
      PROVE  phase[q] \in Described
  <2>1. PICK ph \in {"refused", "skipped", "locked"} : phase' = [phase EXCEPT ![r] = ph]
    <3> HIDE DEF TypeOK
    <3> QED
      BY <1>3, NewRun
  <2>2. QED
    BY <2>1
<1>4. CASE \E p \in Proc : Boot(p) \/ RequestLocalStop(p) \/ Exit(p) \/ WedgeExit(p)
  BY <1>1, <1>4 DEF Boot, RequestLocalStop, Exit, WedgeExit, Vanish, runVars
<1>5. CASE \E r \in Run, a \in Account : WorkerStep(r, a) \/ Hang(r, a) \/ Abandon(r, a)
  BY <1>1, <1>5 DEF WorkerStep, StartAccount, Checkpoint, SaveSnapshot, Return, Hang, Abandon, WorkFrame
<1>6. CASE HeartbeatAges \/ RequestStop \/ CliStopRead \/ CliStopTouch \/ TogglePause
  BY <1>1, <1>6 DEF HeartbeatAges, RequestStop, CliStopRead, CliStopTouch, TogglePause, runVars
<1>7. CASE UNCHANGED vars
  BY <1>1, <1>7 DEF vars, runVars
<1>8. QED
  BY <1>2, <1>3, <1>4, <1>5, <1>6, <1>7 DEF Next

\* Three actions write state.json or the status that goes into it.
LEMMA FileWriters ==
  ASSUME [Next]_vars
  PROVE  \/ UNCHANGED <<fileRun, fileStatus, status>>
         \/ \E r \in Run : Announce(r) \/ Publish(r)
         \/ \E r \in Run, a \in Account : Checkpoint(r, a)
<1>1. CASE \E p \in Proc : Boot(p) \/ RequestLocalStop(p) \/ Exit(p) \/ WedgeExit(p)
  BY <1>1 DEF Boot, RequestLocalStop, Exit, WedgeExit, Vanish, runVars, fileVars
<1>2. CASE \E r \in Run, p \in Proc : DaemonRound(r, p) \/ WebRun(r, p) \/ CliRun(r, p)
  BY <1>2 DEF DaemonRound, WebRun, CliRun, Launch, Attempt, fileVars
<1>3. ASSUME NEW r \in Run, MainStep(r), ~Announce(r), ~Publish(r)
      PROVE  UNCHANGED <<fileRun, fileStatus, status>>
  BY <1>3 DEF MainStep, DecideRound, Poll, Attempt, ClearStop, AnnounceFails, Load, LoadFails,
              EndScan, Prune, FinishClearStop, Release, fileVars
<1>4. ASSUME NEW r \in Run, NEW a \in Account,
             StartAccount(r, a) \/ SaveSnapshot(r, a) \/ Return(r, a) \/ Hang(r, a) \/ Abandon(r, a)
      PROVE  UNCHANGED <<fileRun, fileStatus, status>>
  BY <1>4 DEF StartAccount, SaveSnapshot, Return, Hang, Abandon, fileVars
<1>5. CASE HeartbeatAges \/ RequestStop \/ CliStopRead \/ CliStopTouch \/ TogglePause
  BY <1>5 DEF HeartbeatAges, RequestStop, CliStopRead, CliStopTouch, TogglePause, runVars, fileVars
<1>6. CASE UNCHANGED vars
  BY <1>6 DEF vars, runVars, fileVars
<1>7. QED
  BY <1>1, <1>2, <1>3, <1>4, <1>5, <1>6 DEF Next, WorkerStep

\* A worker given up on stays given up, and the process of a run that was
\* attempted does not come back from the dead.
LEMMA NothingComesBack ==
  ASSUME TypeOK, Owned, [Next]_vars, NEW q \in Run
  PROVE  /\ abandoned[q] \subseteq abandoned'[q]
         /\ phase[q] # "idle" /\ Alive(q)' => Alive(q)
<1> USE DEF TypeOK, Owned
<1>1. CASE UNCHANGED <<abandoned, owner, proc>>
  BY <1>1 DEF Alive, Living
<1>2. ASSUME NEW p \in Proc, Boot(p) \/ RequestLocalStop(p) \/ Exit(p) \/ WedgeExit(p)
      PROVE  abandoned[q] \subseteq abandoned'[q] /\ (phase[q] # "idle" /\ Alive(q)' => Alive(q))
  BY <1>2 DEF Boot, RequestLocalStop, Exit, WedgeExit, Vanish, runVars, Alive, Living
<1>3. ASSUME NEW r \in Run, NEW p \in Proc, DaemonRound(r, p) \/ WebRun(r, p) \/ CliRun(r, p)
      PROVE  abandoned[q] \subseteq abandoned'[q] /\ (phase[q] # "idle" /\ Alive(q)' => Alive(q))
  <2>1. /\ phase[r] = "idle"
        /\ UNCHANGED <<abandoned, proc>>
        /\ owner' = [owner EXCEPT ![r] = p]
    <3> HIDE DEF TypeOK, Owned
    <3> QED
      BY <1>3, NewRun
  <2>2. QED
    BY <2>1 DEF Alive, Living
<1>4. ASSUME NEW r \in Run, MainStep(r) PROVE UNCHANGED <<abandoned, owner, proc>>
  <2> HIDE DEF TypeOK, Owned
  <2> QED
    BY <1>4, MainStepPhase, MainStepWork
<1>5. CASE \E r \in Run, a \in Account : WorkerStep(r, a) \/ Hang(r, a)
  BY <1>1, <1>5 DEF WorkerStep, StartAccount, Checkpoint, SaveSnapshot, Return, Hang, WorkFrame
<1>6. ASSUME NEW r \in Run, NEW a \in Account, Abandon(r, a)
      PROVE  abandoned[q] \subseteq abandoned'[q] /\ (phase[q] # "idle" /\ Alive(q)' => Alive(q))
  BY <1>6 DEF Abandon, Alive, Living
<1>7. CASE HeartbeatAges \/ RequestStop \/ CliStopRead \/ CliStopTouch \/ TogglePause
  BY <1>1, <1>7 DEF HeartbeatAges, RequestStop, CliStopRead, CliStopTouch, TogglePause, runVars
<1>8. CASE UNCHANGED vars
  BY <1>1, <1>8 DEF vars, runVars
<1>9. QED
  BY <1>1, <1>2, <1>3, <1>4, <1>5, <1>6, <1>7, <1>8 DEF Next

\* Between Announce and Publish the status is that of a scan.
LEMMA StatusStep == TypeOK /\ StatusOfScan /\ [Next]_vars => StatusOfScan'
<1> SUFFICES ASSUME TypeOK, StatusOfScan, [Next]_vars, NEW q \in Run, phase'[q] \in Described
             PROVE  status'[q] \in {"running", "stopping"}
  BY DEF StatusOfScan
<1>1. CASE Announce(q)
  BY <1>1 DEF Announce, TypeOK
<1>2. CASE phase[q] \in Described /\ ~Announce(q)
  <2>0. status[q] \in {"running", "stopping"}
    BY <1>2 DEF StatusOfScan
  <2>1. ASSUME NEW r \in Run, Announce(r) PROVE status'[q] \in {"running", "stopping"}
    BY <2>0, <2>1 DEF Announce, TypeOK
  <2>2. ASSUME NEW r \in Run, Publish(r) PROVE status'[q] \in {"running", "stopping"}
    <3>1. r # q
      BY <2>2 DEF Publish, Move, TypeOK, Described
    <3>2. QED
      BY <2>0, <2>2, <3>1 DEF Publish, TypeOK
  <2>3. ASSUME NEW r \in Run, NEW a \in Account, Checkpoint(r, a)
        PROVE  status'[q] \in {"running", "stopping"}
    BY <2>0, <2>3 DEF Checkpoint, TypeOK
  <2>4. QED
    BY <2>0, <2>1, <2>2, <2>3, FileWriters
<1>3. QED
  BY <1>1, <1>2, DescribedBegins

\* A worker that was not given up on works for the holder of the lock.
LEMMA WorkerHoldsLock ==
  ASSUME TypeOK, LockIsHeldByItsRun, WorkBelongsToScan, NEW r \in Run, NEW a \in Account,
         Alive(r), work[r][a] \in Busy, a \notin abandoned[r]
  PROVE  lock = r /\ phase[r] = "scanning"
BY DEF TypeOK, LockIsHeldByItsRun, WorkBelongsToScan, InLock, Critical

\* state.json keeps naming the run that is scanning.
LEMMA FileStep ==
  /\ TypeOK /\ Owned /\ LockIsHeldByItsRun /\ WorkBelongsToScan
  /\ StatusOfScan /\ StateFileNamesTheScan /\ [Next]_vars
  => StateFileNamesTheScan'
<1> SUFFICES ASSUME TypeOK, Owned, LockIsHeldByItsRun, WorkBelongsToScan, StatusOfScan,
                    StateFileNamesTheScan, [Next]_vars,
                    \A r \in Run : abandoned'[r] = {},
                    NEW q \in Run, InLock(q)', phase'[q] \in Described
             PROVE  fileRun' = q /\ fileStatus' \in {"running", "stopping"}
  BY DEF StateFileNamesTheScan
<1>1. CASE Announce(q)
  BY <1>1 DEF Announce, WriteState
<1>2. CASE phase[q] \in Described /\ ~Announce(q)
  <2>1. /\ \A r \in Run : abandoned[r] = {}
        /\ Alive(q)
    BY <1>2, NothingComesBack DEF InLock, Described
  <2>2. /\ lock = q
        /\ fileRun = q /\ fileStatus \in {"running", "stopping"}
    BY <1>2, <2>1 DEF StateFileNamesTheScan, LockIsHeldByItsRun, InLock, Critical, Described
  <2>3. ASSUME NEW r \in Run, Announce(r) PROVE FALSE
    <3>1. lock = r
      BY <2>3 DEF Announce, Move, LockIsHeldByItsRun, InLock, Critical
    <3>2. QED
      BY <1>2, <2>2, <2>3, <3>1
  <2>4. ASSUME NEW r \in Run, Publish(r) PROVE FALSE
    <3>1. lock = r
      BY <2>4 DEF Publish, Move, LockIsHeldByItsRun, InLock, Critical
    <3>2. phase'[r] = "published"
      BY <2>4 DEF Publish, Move, TypeOK
    <3>3. QED
      BY <2>2, <3>1, <3>2 DEF Described
  <2>5. ASSUME NEW r \in Run, NEW a \in Account, Checkpoint(r, a)
        PROVE  fileRun' = q /\ fileStatus' \in {"running", "stopping"}
    <3>1. r = q
      BY <2>1, <2>2, <2>5, WorkerHoldsLock DEF Checkpoint
    <3>2. status[q] \in {"running", "stopping"}
      BY <1>2 DEF StatusOfScan
    <3>3. QED
      BY <2>2, <2>5, <3>1, <3>2 DEF Checkpoint, Heartbeat, WriteState, fileVars
  <2>6. QED
    BY <2>2, <2>3, <2>4, <2>5, FileWriters
<1>3. QED
  BY <1>1, <1>2, DescribedBegins

-----------------------------------------------------------------------------
\* The inductive invariant holds in every reachable state.
THEOREM InductiveInvariant == Spec => []IInv
<1>1. Init => IInv
  <2> SUFFICES ASSUME Init PROVE IInv
    OBVIOUS
  <2>1. TypeOK
    BY InitType
  <2>2. Owned /\ LockIsHeldByItsRun /\ StopFlagIsForHolder
    BY NoneAssumption DEF Init, Owned, LockIsHeldByItsRun, InLock, Alive, StopFlagIsForHolder
  <2>3. WorkBelongsToScan /\ SerialScansOne /\ CancelHasReason /\ CancelledRunSaysSo
    BY DEF Init, WorkBelongsToScan, SerialScansOne, CancelHasReason, CancelledRunSaysSo,
           Alive, Busy
  <2>4. StatusOfScan /\ StateFileNamesTheScan
    BY DEF Init, StatusOfScan, StateFileNamesTheScan, Described
  <2>5. QED
    BY <2>1, <2>2, <2>3, <2>4 DEF IInv
<1>2. IInv /\ [Next]_vars => IInv'
  BY TypeStep, OwnedStep, LockStep, StopStep, WorkStep, SerialStep, ReasonStep, SaysSoStep,
     StatusStep, FileStep
     DEF IInv
<1>3. QED
  BY <1>1, <1>2, PTL DEF Spec

\* Two runs never overlap: the lock is held exactly by the thread of the run
\* that believes it holds it (try_acquire, finish and the kernel's release).
THEOREM LockCorrect == Spec => []LockIsHeldByItsRun
<1>1. IInv => LockIsHeldByItsRun
  BY DEF IInv
<1>2. QED
  BY <1>1, InductiveInvariant, PTL

\* A run finds only stop flags set while it held the lock, never the request
\* meant for a run before it (the clear_stop of try_acquire and of finish).
THEOREM StopFlagCorrect == Spec => []StopFlagIsForHolder
<1>1. IInv => StopFlagIsForHolder
  BY DEF IInv
<1>2. QED
  BY <1>1, InductiveInvariant, PTL

\* A run with a cancelled account ends as "cancelled" (run_all's second look
\* at the stop flag finds the request that cancelled the account).
THEOREM CancelledCorrect == Spec => []CancelledRunSaysSo
<1>1. IInv => CancelledRunSaysSo
  BY DEF IInv
<1>2. QED
  BY <1>1, InductiveInvariant, PTL

\* A scan is cancelled only in a process that is shutting down or because stop
\* was pressed while its own run held the lock.
THEOREM StopCorrect == Spec => OnlyAStoppedRunIsCancelled
<1>1. ASSUME IInv, [Next]_vars, NEW r \in Run, NEW a \in Account,
             work[r][a] \in Busy, work'[r][a] = "cancelled", a \notin abandoned[r]
      PROVE  proc[owner[r]] = "term" \/ (lock = r /\ stopHolder = r)
  <2> USE DEF IInv, TypeOK
  <2>1. ASSUME StopRequested(r), Alive(r)
        PROVE  proc[owner[r]] = "term" \/ (lock = r /\ stopHolder = r)
    <3>1. phase[r] = "scanning"
      BY <1>1 DEF WorkBelongsToScan
    <3>2. lock = r
      BY <1>1, <2>1, <3>1 DEF LockIsHeldByItsRun, InLock, Critical
    <3>3. QED
      BY <1>1, <2>1, <3>1, <3>2, NoneAssumption DEF StopFlagIsForHolder, StopRequested
  <2>2. ASSUME UNCHANGED work PROVE FALSE
    BY <1>1, <2>2 DEF Busy
  <2>3. ASSUME NEW q \in Run, NEW b \in Account, WorkerStep(q, b) \/ Hang(q, b)
        PROVE  StopRequested(r) /\ Alive(r)
    <3>1. PICK w \in Work :
             /\ work' = [work EXCEPT ![q][b] = w]
             /\ w = "cancelled" => work[q][b] = "queued" \/ StopRequested(q)
      BY <1>1, <2>3, WorkChange
    <3>2. q = r /\ b = a /\ w = "cancelled"
      BY <1>1, <3>1 DEF Busy
    <3>3. QED
      BY <1>1, <2>3, <3>1, <3>2, WorkChange DEF Busy
  <2>4. ASSUME NEW q \in Run, MainStep(q) PROVE FALSE
    <3>1. PICK todo \in SUBSET Account : Queue(q, todo)
      BY <2>2, <2>4, MainStepWork
    <3>2. QED
      BY <1>1, <3>1 DEF Queue, Busy
  <2>5. ASSUME NEW q \in Run, NEW p \in Proc,
               DaemonRound(q, p) \/ WebRun(q, p) \/ CliRun(q, p)
        PROVE  FALSE
    BY <1>1, <2>2, <2>5, NewRun
  <2>6. ASSUME NEW p \in Proc, Boot(p) \/ RequestLocalStop(p) \/ Exit(p) \/ WedgeExit(p)
        PROVE  FALSE
    BY <2>2, <2>6 DEF Boot, RequestLocalStop, Exit, WedgeExit, Vanish, runVars
  <2>7. ASSUME NEW q \in Run, NEW b \in Account, Abandon(q, b) PROVE FALSE
    BY <2>2, <2>7 DEF Abandon
  <2>8. CASE HeartbeatAges \/ RequestStop \/ CliStopRead \/ CliStopTouch \/ TogglePause
    BY <2>2, <2>8 DEF HeartbeatAges, RequestStop, CliStopRead, CliStopTouch, TogglePause, runVars
  <2>9. CASE UNCHANGED vars
    BY <2>2, <2>9 DEF vars, runVars
  <2>10. QED
    BY <1>1, <2>1, <2>3, <2>4, <2>5, <2>6, <2>7, <2>8, <2>9 DEF Next
<1>2. QED
  <2>1. IInv /\ [Next]_vars =>
          [\A r \in Run, a \in Account :
             work[r][a] \in Busy /\ work'[r][a] = "cancelled" /\ a \notin abandoned[r]
               => proc[owner[r]] = "term" \/ (lock = r /\ stopHolder = r)]_vars
    BY <1>1
  <2>2. QED
    BY <2>1, InductiveInvariant, PTL DEF Spec, OnlyAStoppedRunIsCancelled

\* As long as no worker was given up on, state.json names the run that is
\* scanning and says that it is running or stopping (try_acquire, heartbeat
\* and finish write it, and only the holder of the lock gets to them).
THEOREM StateFileCorrect == Spec => []StateFileNamesTheScan
<1>1. IInv => StateFileNamesTheScan
  BY DEF IInv
<1>2. QED
  BY <1>1, InductiveInvariant, PTL

\* A snapshot is written under the lock of its own run, unless by a worker
\* that _run_concurrent has given up on.
THEOREM SnapshotsCorrect == Spec => SnapshotsUnderLock
<1>1. ASSUME IInv, [Next]_vars, NEW r \in Run, NEW a \in Account,
             work[r][a] = "fetch", work'[r][a] = "saved", a \notin abandoned[r]
      PROVE  lock = r
  <2> USE DEF IInv
  <2>1. ASSUME UNCHANGED work PROVE FALSE
    BY <1>1, <2>1
  <2>2. ASSUME NEW q \in Run, NEW b \in Account, WorkerStep(q, b) \/ Hang(q, b)
        PROVE  Alive(r)
    <3>1. /\ Alive(q)
          /\ \E w \in Work : work' = [work EXCEPT ![q][b] = w]
      BY <1>1, <2>2, WorkChange
    <3>2. q = r
      BY <1>1, <3>1 DEF TypeOK
    <3>3. QED
      BY <3>1, <3>2
  <2>3. ASSUME NEW q \in Run, MainStep(q) PROVE FALSE
    <3>1. PICK todo \in SUBSET Account : Queue(q, todo)
      BY <2>1, <2>3, MainStepWork
    <3>2. QED
      BY <1>1, <3>1 DEF Queue, TypeOK
  <2>4. ASSUME NEW q \in Run, NEW p \in Proc,
               DaemonRound(q, p) \/ WebRun(q, p) \/ CliRun(q, p)
        PROVE  FALSE
    BY <1>1, <2>1, <2>4, NewRun
  <2>5. ASSUME NEW p \in Proc, Boot(p) \/ RequestLocalStop(p) \/ Exit(p) \/ WedgeExit(p)
        PROVE  FALSE
    BY <2>1, <2>5 DEF Boot, RequestLocalStop, Exit, WedgeExit, Vanish, runVars
  <2>6. ASSUME NEW q \in Run, NEW b \in Account, Abandon(q, b) PROVE FALSE
    BY <2>1, <2>6 DEF Abandon
  <2>7. ASSUME HeartbeatAges \/ RequestStop \/ CliStopRead \/ CliStopTouch \/ TogglePause
        PROVE  FALSE
    BY <2>1, <2>7 DEF HeartbeatAges, RequestStop, CliStopRead, CliStopTouch, TogglePause, runVars
  <2>8. ASSUME UNCHANGED vars PROVE FALSE
    BY <2>1, <2>8 DEF vars, runVars
  <2>9. Alive(r)
    BY <1>1, <2>2, <2>3, <2>4, <2>5, <2>6, <2>7, <2>8 DEF Next
  <2>10. QED
    BY <1>1, <2>9, WorkerHoldsLock DEF Busy
<1>2. QED
  <2>1. IInv /\ [Next]_vars =>
          [\A r \in Run, a \in Account :
             work[r][a] = "fetch" /\ work'[r][a] = "saved" /\ a \notin abandoned[r]
               => lock = r]_vars
    BY <1>1
  <2>2. QED
    BY <2>1, InductiveInvariant, PTL DEF Spec, SnapshotsUnderLock

-----------------------------------------------------------------------------
(***************************************************************************)
(* RunControl implements RunLock: under the files, the processes and the   *)
(* worker threads there is one holder at a time, stops that reach only it, *)
(* and no stop forgotten before its work is over.                          *)
(***************************************************************************)

\* What a step needs to leave the promised state alone.
LEMMA Stutter ==
  ASSUME UNCHANGED lock,
         \A r \in Run : StageOf(r)' = StageOf(r),
         \A r \in Run : r = lock /\ phase'[r] \in Cleared /\ StopRequested(r)'
                          <=> r = lock /\ phase[r] \in Cleared /\ StopRequested(r)
  PROVE  UNCHANGED Promise!vars
<1>1. stage' = stage
  BY DEF stage
<1>2. asked' = asked
  BY DEF asked
<1>3. QED
  BY <1>1, <1>2 DEF Promise!vars

\* A step that changes the stage of one run.
LEMMA StageChange ==
  ASSUME NEW r \in Run, \A q \in Run \ {r} : StageOf(q)' = StageOf(q)
  PROVE  stage' = [stage EXCEPT ![r] = StageOf(r)']
BY DEF stage

\* The holder is the only run that can be asked to stop.
LEMMA AskedHolder ==
  ASSUME TypeOK, lock # None
  PROVE  asked = IF phase[lock] \in Cleared /\ StopRequested(lock) THEN {lock} ELSE {}
BY DEF asked, TypeOK

\* The holder's thread is alive and in its critical section.
LEMMA HolderAlive ==
  ASSUME IInv, lock # None
  PROVE  lock \in Run /\ Alive(lock) /\ phase[lock] \in Critical
BY DEF IInv, TypeOK, LockIsHeldByItsRun, InLock

\* A run gives the lock back.
LEMMA Frees ==
  ASSUME NEW r \in Run, lock = r, lock' = None, UNCHANGED outcome,
         \A q \in Run \ {r} : phase'[q] = phase[q],
         phase'[r] \notin {"idle", "refused", "polling", "skipped"}
  PROVE  Promise!Free(r)
<1>1. \A q \in Run \ {r} : StageOf(q)' = StageOf(q)
  BY NoneAssumption DEF StageOf
<1>2. StageOf(r)' = "over"
  BY NoneAssumption DEF StageOf
<1>3. asked' = {}
  BY NoneAssumption DEF asked
<1>4. QED
  BY <1>1, <1>2, <1>3, StageChange DEF Promise!Free

\* An attempt that finds the lock free begins the run, another one changes
\* nothing that was promised.
LEMMA Begins ==
  ASSUME IInv, NEW r \in Run, Attempt(r), phase[r] \in {"idle", "polling"},
         \A q \in Run \ {r} : owner'[q] = owner[q]
  PROVE  Promise!Begin(r) \/ UNCHANGED Promise!vars
<1> USE DEF IInv, TypeOK
<1>0. /\ lock # r
      /\ UNCHANGED <<proc, outcome, stopFlag>>
  BY DEF Attempt, LockIsHeldByItsRun, InLock, Critical, stopVars
<1>1. CASE lock = None
  <2>1. lock' = r /\ phase' = [phase EXCEPT ![r] = "locked"]
    BY <1>1 DEF Attempt
  <2>2. \A q \in Run \ {r} : StageOf(q)' = StageOf(q)
    BY <1>0, <1>1, <2>1, NoneAssumption DEF StageOf
  <2>3. StageOf(r) = "new" /\ StageOf(r)' = "working"
    BY <2>1 DEF StageOf
  <2>4. asked' = {}
    BY <2>1 DEF asked, Cleared
  <2>5. QED
    BY <1>1, <2>1, <2>2, <2>3, <2>4, StageChange DEF Promise!Begin, stage
<1>2. CASE lock # None
  <2>1. /\ UNCHANGED lock
        /\ \E ph \in {"refused", "skipped"} : phase' = [phase EXCEPT ![r] = ph]
    BY <1>2 DEF Attempt
  <2>2. \A q \in Run : StageOf(q)' = StageOf(q)
    BY <1>0, <2>1 DEF StageOf
  <2>3. QED
    BY <1>0, <2>1, <2>2, Stutter DEF StopRequested
<1>3. QED
  BY <1>1, <1>2

\* A stop arrives: it is one for the run under way, or it does not count.
LEMMA Asks ==
  ASSUME IInv, UNCHANGED <<lock, phase, outcome>>,
         lock # None /\ StopRequested(lock) => StopRequested(lock)'
  PROVE  (\E r \in Run : Promise!Ask(r)) \/ UNCHANGED Promise!vars
<1>1. UNCHANGED stage
  BY DEF stage, StageOf
<1>2. CASE lock # None /\ phase[lock] \in Cleared /\ StopRequested(lock)'
  <2>1. PICK r \in Run : r = lock
    BY <1>2, HolderAlive
  <2>2. asked' = {r}
    BY <1>2, <2>1 DEF asked
  <2>3. QED
    BY <1>1, <2>1, <2>2 DEF Promise!Ask
<1>3. CASE ~(lock # None /\ phase[lock] \in Cleared /\ StopRequested(lock)')
  <2>1. asked = {} /\ asked' = {}
    BY <1>3, NoneAssumption DEF asked
  <2>2. QED
    BY <1>1, <2>1 DEF Promise!vars
<1>4. QED
  BY <1>2, <1>3

\* What a process does, or what is asked of one, is a stop, a release or nothing.
LEMMA OutsideSteps ==
  ASSUME IInv,
         \/ \E p \in Proc : Boot(p) \/ RequestLocalStop(p) \/ Exit(p) \/ WedgeExit(p)
         \/ HeartbeatAges \/ RequestStop \/ CliStopRead \/ CliStopTouch \/ TogglePause
         \/ UNCHANGED vars
  PROVE  Promise!Next \/ UNCHANGED Promise!vars
<1>0. ASSUME NEW r \in Run, r = lock PROVE Alive(r) /\ phase[r] \in Critical
  BY <1>0, HolderAlive, NoneAssumption
<1>1. ASSUME NEW p \in Proc, Boot(p) \/ RequestLocalStop(p)
      PROVE  Promise!Next \/ UNCHANGED Promise!vars
  <2>1. UNCHANGED <<lock, phase, outcome, owner, stopFlag>>
    BY <1>1 DEF Boot, RequestLocalStop, runVars, stopVars
  <2>2. lock # None /\ StopRequested(lock) => StopRequested(lock)'
    BY <1>1, <2>1, HolderAlive
       DEF Boot, RequestLocalStop, StopRequested, Alive, Living, IInv, TypeOK
  <2>3. QED
    BY <2>1, <2>2, Asks DEF Promise!Next
<1>2. ASSUME NEW p \in Proc, Vanish(p) PROVE Promise!Next \/ UNCHANGED Promise!vars
  <2>1. UNCHANGED <<phase, outcome, owner, stopFlag>>
    BY <1>2 DEF Vanish, runVars, stopVars
  <2>2. ASSUME lock # None, owner[lock] = p PROVE Promise!Next
    <3>1. PICK r \in Run : r = lock
      BY <2>2, HolderAlive
    <3>2. lock' = None
      BY <1>2, <2>2 DEF Vanish
    <3>3. phase'[r] \notin {"idle", "refused", "polling", "skipped"}
      BY <1>0, <2>1, <3>1 DEF Critical
    <3>4. Promise!Free(r)
      BY <2>1, <3>1, <3>2, <3>3, Frees
    <3>5. QED
      BY <3>4 DEF Promise!Next
  <2>3. ASSUME ~(lock # None /\ owner[lock] = p) PROVE UNCHANGED Promise!vars
    <3>1. UNCHANGED lock
      BY <1>2, <2>3 DEF Vanish
    <3>2. \A r \in Run : r = lock => (StopRequested(r)' <=> StopRequested(r))
      BY <1>2, <2>1, <2>3, NoneAssumption DEF Vanish, StopRequested, IInv, TypeOK
    <3>3. QED
      BY <2>1, <3>1, <3>2, Stutter DEF StageOf
  <2>4. QED
    BY <2>2, <2>3
<1>3. ASSUME NEW p \in Proc, Exit(p) \/ WedgeExit(p)
      PROVE  Promise!Next \/ UNCHANGED Promise!vars
  BY <1>2, <1>3 DEF Exit, WedgeExit
<1>4. CASE RequestStop \/ CliStopTouch
  <2>1. UNCHANGED <<lock, phase, outcome>> /\ stopFlag'
    BY <1>4 DEF RequestStop, CliStopTouch, runVars
  <2>2. QED
    BY <2>1, Asks DEF Promise!Next, StopRequested
<1>5. CASE HeartbeatAges \/ CliStopRead \/ TogglePause \/ UNCHANGED vars
  <2>1. UNCHANGED <<lock, phase, outcome, owner, proc, stopFlag>>
    BY <1>5 DEF HeartbeatAges, CliStopRead, TogglePause, vars, runVars, stopVars
  <2>2. QED
    BY <2>1, Stutter DEF StageOf, StopRequested
<1>6. QED
  BY <1>1, <1>3, <1>4, <1>5

\* Scanning an account is invisible.
LEMMA WorkerSteps ==
  ASSUME IInv, NEW r \in Run, NEW a \in Account,
         WorkerStep(r, a) \/ Hang(r, a) \/ Abandon(r, a)
  PROVE  UNCHANGED Promise!vars
<1>1. UNCHANGED <<lock, phase, outcome, owner, proc, stopFlag>>
  BY WorkChange DEF Abandon, stopVars, IInv
<1>2. QED
  BY <1>1, Stutter DEF StageOf, StopRequested

\* A step of a run's own thread that keeps the promised state of the run.
LEMMA MainStutter ==
  ASSUME IInv, NEW r \in Run, NEW ph \in Phase,
         UNCHANGED <<lock, owner, proc, stopFlag>>,
         \A q \in Run \ {r} : outcome'[q] = outcome[q],
         phase' = [phase EXCEPT ![r] = ph],
         StageOf(r)' = StageOf(r),
         r = lock => (phase[r] \in Cleared <=> ph \in Cleared)
  PROVE  UNCHANGED Promise!vars
<1> USE DEF IInv, TypeOK
<1>1. \A q \in Run : StageOf(q)' = StageOf(q)
  BY DEF StageOf
<1>2. QED
  BY <1>1, Stutter DEF StopRequested

\* The end of the scan: "cancelled" needs a stop that is still there.
LEMMA Closes ==
  ASSUME IInv, NEW r \in Run, EndScan(r) \/ LoadFails(r)
  PROVE  \E o \in Outcome : Promise!Close(r, o)
<1> USE DEF IInv, TypeOK
<1>1. /\ phase[r] \in {"announced", "scanning"}
      /\ Alive(r)
      /\ phase' = [phase EXCEPT ![r] = "closing"]
      /\ UNCHANGED <<lock, owner, proc, stopFlag, kind, work, abandoned>>
  BY DEF EndScan, LoadFails, Move, stopVars
<1>2. lock = r
  BY <1>1 DEF LockIsHeldByItsRun, InLock, Critical
<1>3. PICK o \in Outcome : /\ outcome' = [outcome EXCEPT ![r] = o]
                           /\ o = "cancelled" => StopRequested(r)
  <2>1. CASE LoadFails(r)
    BY <2>1 DEF LoadFails, Outcome
  <2>2. CASE EndScan(r)
    <3>1. PICK o \in Outcome :
            /\ outcome' = [outcome EXCEPT ![r] = o]
            /\ IF Concurrent(r)
               THEN o = IF StopRequested(r) THEN "cancelled" ELSE "done"
               ELSE \/ \E a \in Account : work[r][a] = "cancelled"
                    \/ o \in {"done", "error"}
      BY <2>2 DEF EndScan
    <3>2. phase[r] = "scanning"
      BY <2>2 DEF EndScan, Move
    <3>3. ASSUME ~Concurrent(r), NEW a \in Account, work[r][a] = "cancelled"
          PROVE  StopRequested(r)
      BY <1>1, <3>2, <3>3 DEF CancelHasReason, SerialScansOne
    <3>4. o = "cancelled" => StopRequested(r)
      BY <3>1, <3>3
    <3>5. QED
      BY <3>1, <3>4
  <2>3. QED
    BY <2>1, <2>2
<1>4. o = "cancelled" => r \in asked
  BY <1>1, <1>2, <1>3 DEF asked, Cleared
<1>5. StageOf(r) = "working" /\ StageOf(r)' = o
  BY <1>1, <1>2, <1>3 DEF StageOf
<1>6. \A q \in Run \ {r} : StageOf(q)' = StageOf(q)
  BY <1>1, <1>3 DEF StageOf
<1>7. asked' = asked
  BY <1>1, <1>2 DEF asked, Cleared, StopRequested
<1>8. stage' = [stage EXCEPT ![r] = o]
  BY <1>5, <1>6, StageChange
<1>9. stage[r] = "working"
  BY <1>5 DEF stage
<1>10. UNCHANGED lock
  BY <1>1
<1>11. QED
  BY <1>2, <1>4, <1>7, <1>8, <1>9, <1>10 DEF Promise!Close

\* The steps of a run's own thread.
LEMMA MainSteps ==
  ASSUME IInv, NEW r \in Run, MainStep(r)
  PROVE  Promise!Next \/ UNCHANGED Promise!vars
<1> USE DEF IInv, TypeOK
<1>0. ASSUME Alive(r), phase[r] \in Critical PROVE lock = r
  BY <1>0 DEF LockIsHeldByItsRun, InLock
<1>1. CASE DecideRound(r)
  <2>1. PICK ph \in {"polling", "skipped"} : phase' = [phase EXCEPT ![r] = ph]
    BY <1>1, Zenon DEF DecideRound
  <2>2. phase[r] = "refused" /\ UNCHANGED <<lock, owner, proc, stopFlag, outcome>>
    BY <1>1 DEF DecideRound, stopVars
  <2>3. StageOf(r) = "new" /\ StageOf(r)' = "new"
    BY <2>1, <2>2 DEF StageOf
  <2>4. ph \in Phase /\ ph \notin Cleared /\ phase[r] \notin Cleared
    BY <2>1, <2>2 DEF Phase, Cleared
  <2>5. QED
    BY <2>1, <2>2, <2>3, <2>4, MainStutter
<1>2. CASE Poll(r)
  BY <1>2, Begins DEF Poll, Promise!Next
<1>3. CASE ClearStop(r)
  <2>1. /\ phase[r] = "locked" /\ phase' = [phase EXCEPT ![r] = "cleared"]
        /\ UNCHANGED <<lock, owner, proc, outcome>>
        /\ lock = r /\ ~stopFlag'
    BY <1>0, <1>3 DEF ClearStop, Move, DropStopFlag, Critical
  <2>2. UNCHANGED stage
    BY <2>1 DEF stage, StageOf
  <2>3. asked = {} /\ asked' \in {{}, {r}}
    BY <2>1 DEF asked, Cleared
  <2>4. QED
    BY <2>1, <2>2, <2>3 DEF Promise!Next, Promise!Ask, Promise!vars
<1>4. CASE Announce(r) \/ Load(r) \/ Prune(r) \/ Publish(r)
  <2>1. PICK ph \in {"announced", "scanning", "pruned", "published"} :
           /\ phase' = [phase EXCEPT ![r] = ph]
           /\ \/ phase[r] \in {"cleared", "announced"} /\ ph \in {"announced", "scanning"}
              \/ phase[r] \in {"closing", "pruned"} /\ ph \in {"pruned", "published"}
    BY <1>4 DEF Announce, Load, Prune, Publish, Move
  <2>2. Alive(r) /\ UNCHANGED <<lock, owner, proc, stopFlag, outcome>>
    BY <1>4 DEF Announce, Load, Prune, Publish, Move, stopVars
  <2>3. lock = r
    BY <1>0, <2>1, <2>2 DEF Critical
  <2>4. StageOf(r)' = StageOf(r)
    BY <2>1, <2>2, <2>3 DEF StageOf
  <2>5. ph \in Phase /\ ph \in Cleared /\ phase[r] \in Cleared
    BY <2>1 DEF Phase, Cleared
  <2>6. QED
    BY <2>1, <2>2, <2>4, <2>5, MainStutter
<1>5. CASE LoadFails(r) \/ EndScan(r)
  <2>1. PICK o \in Outcome : Promise!Close(r, o)
    BY <1>5, Closes
  <2>2. o \in Promise!Outcome
    BY DEF Outcome, Promise!Outcome
  <2>3. QED
    BY <2>1, <2>2 DEF Promise!Next
<1>6. CASE FinishClearStop(r)
  <2>1. /\ phase[r] = "published" /\ phase' = [phase EXCEPT ![r] = "unflagged"]
        /\ UNCHANGED <<lock, outcome>>
        /\ lock = r
    BY <1>0, <1>6 DEF FinishClearStop, Move, Critical
  <2>2. UNCHANGED stage
    BY <2>1 DEF stage, StageOf
  <2>3. stage[r] \in Promise!Outcome /\ asked' = {}
    BY <2>1 DEF stage, StageOf, asked, Cleared, Promise!Outcome, Outcome
  <2>4. QED
    BY <2>1, <2>2, <2>3 DEF Promise!Next, Promise!Forget
<1>7. CASE AnnounceFails(r) \/ Release(r)
  <2>1. /\ phase[r] \in {"cleared", "unflagged"} /\ phase' = [phase EXCEPT ![r] = "ended"]
        /\ Alive(r) /\ lock' = None /\ UNCHANGED outcome
    BY <1>7 DEF AnnounceFails, Release, Move
  <2>2. lock = r
    BY <1>0, <2>1 DEF Critical
  <2>3. QED
    BY <2>1, <2>2, Frees DEF Promise!Next
<1>8. QED
  BY <1>1, <1>2, <1>3, <1>4, <1>5, <1>6, <1>7 DEF MainStep

\* RunControl implements RunLock: one run at a time, each begun at most once,
\* stops that reach only the run under way and are kept until its work is
\* over, and "cancelled" only for a run that was asked to stop.
THEOREM Implements == Spec => ImplementsRunLock
<1>1. Init => Promise!Init
  <2> SUFFICES ASSUME Init PROVE Promise!Init
    OBVIOUS
  <2>1. stage = [r \in Run |-> "new"]
    BY DEF Init, stage, StageOf
  <2>2. asked = {}
    BY NoneAssumption DEF Init, asked
  <2>3. QED
    BY <2>1, <2>2 DEF Init, Promise!Init
<1>2. IInv /\ [Next]_vars => [Promise!Next]_(Promise!vars)
  <2> SUFFICES ASSUME IInv, [Next]_vars PROVE Promise!Next \/ UNCHANGED Promise!vars
    OBVIOUS
  <2>1. ASSUME NEW r \in Run, NEW p \in Proc,
               DaemonRound(r, p) \/ WebRun(r, p) \/ CliRun(r, p)
        PROVE  Promise!Next \/ UNCHANGED Promise!vars
    <3>1. PICK k \in Kind : Launch(r, p, k)
      BY <2>1 DEF DaemonRound, WebRun, CliRun, Kind
    <3>2. phase[r] = "idle" /\ Attempt(r) /\ owner' = [owner EXCEPT ![r] = p]
      BY <3>1 DEF Launch
    <3>3. QED
      BY <3>2, Begins DEF Promise!Next, IInv, TypeOK
  <2>2. QED
    BY <2>1, OutsideSteps, WorkerSteps, MainSteps DEF Next
<1>3. QED
  BY <1>1, <1>2, InductiveInvariant, PTL DEF Spec, Promise!Spec, ImplementsRunLock
=============================================================================
