----------------------------- MODULE RunControl -----------------------------
(***************************************************************************)
(* The coordination of every scan by the files under data/control/:        *)
(* run.lock (flock), state.json, stop.flag and pause.flag, shared by the   *)
(* web console, the resident daemon, run_once.py and the maintenance       *)
(* scripts (src/control.py, src/main.py, run_daemon.py, run_once.py).      *)
(*                                                                         *)
(* A process is an OS process: a restart is another member of Daemon or    *)
(* Web, so a pid is never reused.  A run is one call of try_acquire and    *)
(* what follows; its threads live as long as its owner.  Timeouts          *)
(* (heartbeat, account budget, the round's wait) are not measured: they    *)
(* may fire whenever the code allows them to.                              *)
(***************************************************************************)
EXTENDS Naturals, FiniteSets

CONSTANTS Daemon, Web, Cli, \* pids, by program
          Run,              \* attempts to run
          Account,          \* companies of a full round
          SerialMax,        \* run.serial_max_accounts
          MaxWorkers,       \* run.max_workers
          MaxPolls,         \* polls that fit in _SHORT_RUN_WAIT_SECONDS
          Wedgeable,        \* accounts whose scan may outlast any timeout
          DiskMayFail,      \* whether writing state.json may raise OSError
          MayPause,         \* whether the pause button is ever pressed
          None

Proc == Daemon \cup Web \cup Cli

ASSUME NoneAssumption == None \notin Run /\ None \notin Proc
ASSUME PollsAssumption == MaxPolls \in Nat
ASSUME WedgeableAssumption == Wedgeable \subseteq Account

VARIABLES
  proc,       \* proc[p]: unborn, up, term (SIGTERM seen: _local_stop set), dead
  lock,       \* the run whose FileLock object holds the flock, or None
  fileRun,    \* state.json: the run it describes, None when there is no file
  fileStatus, \* state.json: its "status"
  fresh,      \* state.json: heartbeat_at is at most HEARTBEAT_STALE_SECONDS old
  stopFlag,   \* stop.flag exists
  pauseFlag,  \* pause.flag exists
  owner,      \* owner[r]: the process that called try_acquire
  kind,       \* kind[r]: run_all, scan_one or maintenance
  phase,      \* phase[r]: where the thread that holds the RunContext is
  status,     \* status[r]: ctx.state["status"], shared with the workers
  outcome,    \* outcome[r]: what finish() will be called with
  work,       \* work[r][a]: the scan of account a by run r
  abandoned,  \* abandoned[r]: accounts whose worker was given up on
  polls,      \* polls[r]: waits of _run_round so far
  stopHolder, \* history: the run that held the lock when stop.flag was set
  cliTarget   \* run_once --stop: the run it has read, before it sets the flag

fileVars == <<fileRun, fileStatus, fresh>>
stopVars == <<stopFlag, stopHolder>>
runVars == <<owner, kind, phase, status, outcome, work, abandoned, polls>>
vars == <<proc, lock, fileVars, stopVars, pauseFlag, runVars, cliTarget>>

Kind == {"run_all", "scan_one", "maintenance"}
Outcome == {"done", "cancelled", "error"}
Status == {"running", "stopping"} \cup Outcome
Phase == {"idle", "refused", "polling", "skipped",
          "locked", "cleared", "announced", "scanning",
          "closing", "pruned", "published", "unflagged", "ended"}
Busy == {"login", "fetch", "saved", "sync"}   \* a scan that can take a step
Over == {"out", "done", "failed", "cancelled"} \* a scan that has returned
Work == {"queued", "hung"} \cup Busy \cup Over

\* Between FileLock.acquire and FileLock.release.
Critical == {"locked", "cleared", "announced", "scanning",
             "closing", "pruned", "published", "unflagged"}

Living(p) == proc[p] \in {"up", "term"}
Alive(r) == owner[r] # None /\ Living(owner[r])

\* control.is_stop_requested, in the process of r.
StopRequested(r) == stopFlag \/ proc[owner[r]] = "term"

\* Mutant: a wedged process passes for a running one as long as its pid exists.
ReadStatusByPid ==
  IF fileRun = None THEN "none"
  ELSE IF fileStatus \in {"running", "stopping"} /\ ~Alive(fileRun) THEN "stale"
  ELSE fileStatus

\* control.read_state: "running" and "stopping" become "stale" when the pid
\* is gone or the heartbeat is old; no file and an unreadable one are "none".
ReadStatus ==
  IF fileRun = None THEN "none"
  ELSE IF fileStatus \in {"running", "stopping"} /\ ~(Alive(fileRun) /\ fresh)
       THEN "stale"
       ELSE fileStatus

\* control._write_state: one atomic replacement of state.json.
WriteState(r, s) == fileRun' = r /\ fileStatus' = s /\ fresh' = TRUE

\* CancelToken.heartbeat: rewrites the file with the state the token shares,
\* unless the last write is recent or the disk refuses.
Heartbeat(r, s) == WriteState(r, s) \/ UNCHANGED fileVars

Concurrent(r) == kind[r] = "run_all" /\ Cardinality(Account) > SerialMax

\* Mutant: the executor is shut down with wait=True.
SettledOnReturn(r, a) == work[r][a] \in Over

\* The asyncio side has an answer for a: the future is done or timed out.
Settled(r, a) == work[r][a] \in Over \/ a \in abandoned[r]

\* Permits of _run_concurrent's semaphore in use: an abandoned account never
\* gives its permit back, whether or not its worker returns later.
PermitsUsed(r) ==
  Cardinality({a \in Account : a \in abandoned[r] \/ work[r][a] \in Busy \cup {"hung"}})

Init ==
  /\ proc = [p \in Proc |-> "unborn"]
  /\ lock = None
  /\ fileRun = None /\ fileStatus = "done" /\ fresh = FALSE
  /\ stopFlag = FALSE /\ stopHolder = None
  /\ pauseFlag = FALSE
  /\ owner = [r \in Run |-> None]
  /\ kind = [r \in Run |-> "run_all"]
  /\ phase = [r \in Run |-> "idle"]
  /\ status = [r \in Run |-> "running"]
  /\ outcome = [r \in Run |-> "done"]
  /\ work = [r \in Run |-> [a \in Account |-> "out"]]
  /\ abandoned = [r \in Run |-> {}]
  /\ polls = [r \in Run |-> 0]
  /\ cliTarget = None

-----------------------------------------------------------------------------
(* Processes *)

\* systemd keeps one daemon and one console; a command line is started by hand.
Boot(p) ==
  /\ proc[p] = "unborn"
  /\ p \in Daemon => \A q \in Daemon : ~Living(q)
  /\ p \in Web => \A q \in Web : ~Living(q)
  /\ proc' = [proc EXCEPT ![p] = "up"]
  /\ UNCHANGED <<lock, fileVars, stopVars, pauseFlag, runVars, cliTarget>>

\* The daemon's SIGTERM handler and the console's lifespan shutdown.
RequestLocalStop(p) ==
  /\ p \in Daemon \cup Web
  /\ proc[p] = "up"
  /\ proc' = [proc EXCEPT ![p] = "term"]
  /\ UNCHANGED <<lock, fileVars, stopVars, pauseFlag, runVars, cliTarget>>

\* The process is gone and the kernel drops its flock; the files stay.
Vanish(p) ==
  /\ proc' = [proc EXCEPT ![p] = "dead"]
  /\ lock' = IF lock # None /\ owner[lock] = p THEN None ELSE lock
  /\ UNCHANGED <<fileVars, stopVars, pauseFlag, runVars, cliTarget>>

\* kill -9, a reboot, Ctrl-C, or the end of main() after a SIGTERM: the wait
\* for the run in flight is bounded, so any run may be cut short.
Exit(p) == Living(p) /\ Vanish(p)

\* The test of _exit_if_wedged_on_self: the file names this pid and is stale.
WedgedOnSelf(p) == ReadStatus = "stale" /\ owner[fileRun] = p

\* _exit_if_wedged_on_self, on its own interval or after a skipped round.
WedgeExit(p) ==
  /\ p \in Daemon
  /\ Living(p)
  /\ WedgedOnSelf(p)
  /\ Vanish(p)

\* A heartbeat grows older than HEARTBEAT_STALE_SECONDS.
HeartbeatAges ==
  /\ fileRun # None /\ fresh
  /\ fresh' = FALSE
  /\ UNCHANGED <<proc, lock, fileRun, fileStatus, stopVars, pauseFlag, runVars, cliTarget>>

-----------------------------------------------------------------------------
(* Requests from outside *)

\* The console's stop button, pressed whether or not a run is under way.
RequestStop ==
  /\ \E p \in Web : proc[p] = "up"
  /\ stopFlag' = TRUE
  /\ stopHolder' = lock
  /\ UNCHANGED <<proc, lock, fileVars, pauseFlag, runVars, cliTarget>>

\* run_once.py --stop reads the state first ...
CliStopRead ==
  /\ Cli # {}
  /\ cliTarget = None
  /\ ReadStatus \in {"running", "stopping"}
  /\ cliTarget' = fileRun
  /\ UNCHANGED <<proc, lock, fileVars, stopVars, pauseFlag, runVars>>

\* ... and sets the flag afterwards.
CliStopTouch ==
  /\ cliTarget # None
  /\ stopFlag' = TRUE
  /\ stopHolder' = lock
  /\ cliTarget' = None
  /\ UNCHANGED <<proc, lock, fileVars, pauseFlag, runVars>>

\* The console's pause and resume buttons.
TogglePause ==
  /\ MayPause
  /\ \E p \in Web : proc[p] = "up"
  /\ pauseFlag' = ~pauseFlag
  /\ UNCHANGED <<proc, lock, fileVars, stopVars, runVars, cliTarget>>

-----------------------------------------------------------------------------
(* Taking the lock *)

\* try_acquire's timeout=0 attempt.  A daemon that is refused looks at the
\* holder next (_run_round); everyone else gives up.
Attempt(r) ==
  /\ IF lock = None
     THEN /\ lock' = r
          /\ phase' = [phase EXCEPT ![r] = "locked"]
     ELSE /\ phase' = [phase EXCEPT ![r] =
                         IF owner'[r] \in Daemon THEN "refused" ELSE "skipped"]
          /\ UNCHANGED lock
  /\ UNCHANGED <<proc, fileVars, stopVars, pauseFlag, status, outcome, work,
                 abandoned, cliTarget>>

\* A new run r of process p.
Launch(r, p, k) ==
  /\ phase[r] = "idle"
  /\ proc[p] = "up"
  /\ owner' = [owner EXCEPT ![r] = p]
  /\ kind' = [kind EXCEPT ![r] = k]
  /\ UNCHANGED polls
  /\ Attempt(r)

\* run_daemon._job: a scheduled round, unless paused.
DaemonRound(r, p) == p \in Daemon /\ ~pauseFlag /\ Launch(r, p, "run_all")

\* The console spawns full rounds and single scans; run_once.py runs a round;
\* archive_release.py and the backfill scripts take the lock for themselves.
WebRun(r, p) == p \in Web /\ \E k \in {"run_all", "scan_one"} : Launch(r, p, k)
CliRun(r, p) ==
  /\ p \in Cli
  /\ \A q \in Run : owner[q] # p
  /\ \E k \in {"run_all", "maintenance"} : Launch(r, p, k)

\* _run_round after a refusal: wait only for a single scan that looks alive.
DecideRound(r) ==
  /\ phase[r] = "refused"
  /\ Alive(r)
  /\ IF /\ fileRun # None
        /\ kind[fileRun] = "scan_one"
        /\ ReadStatus = "running"
        /\ polls[r] < MaxPolls
     THEN /\ phase' = [phase EXCEPT ![r] = "polling"]
          /\ polls' = [polls EXCEPT ![r] = @ + 1]
     ELSE /\ phase' = [phase EXCEPT ![r] = "skipped"]
          /\ UNCHANGED polls
  /\ UNCHANGED <<proc, lock, fileVars, stopVars, pauseFlag, owner, kind, status,
                 outcome, work, abandoned, cliTarget>>

Poll(r) ==
  /\ phase[r] = "polling"
  /\ Alive(r)
  /\ UNCHANGED <<owner, kind, polls>>
  /\ Attempt(r)

\* Step r from one phase to another and leave the run's data alone.
Move(r, from, to) ==
  /\ phase[r] = from
  /\ Alive(r)
  /\ phase' = [phase EXCEPT ![r] = to]
  /\ UNCHANGED <<proc, pauseFlag, owner, kind, work, abandoned, polls,
                 cliTarget>>

DropStopFlag == stopFlag' = FALSE /\ stopHolder' = None

\* Mutant: the stop flag of an earlier run is left in place.
ClearStopKeepsFlag(r) ==
  /\ Move(r, "locked", "cleared")
  /\ UNCHANGED <<lock, fileVars, stopVars, status, outcome>>

\* try_acquire: a stop meant for a previous run must not kill this one.
ClearStop(r) ==
  /\ Move(r, "locked", "cleared")
  /\ DropStopFlag
  /\ UNCHANGED <<lock, fileVars, status, outcome>>

\* Mutant: state.json first changes at the first checkpoint.
AnnounceLater(r) ==
  /\ Move(r, "cleared", "announced")
  /\ status' = [status EXCEPT ![r] = "running"]
  /\ UNCHANGED <<lock, fileVars, stopVars, outcome>>

\* try_acquire: the first state.json of the run.
Announce(r) ==
  /\ Move(r, "cleared", "announced")
  /\ WriteState(r, "running")
  /\ status' = [status EXCEPT ![r] = "running"]
  /\ UNCHANGED <<lock, stopVars, outcome>>

\* Mutant: the exception leaves try_acquire with the lock taken.
AnnounceFailsKeepsLock(r) ==
  /\ DiskMayFail
  /\ Move(r, "cleared", "ended")
  /\ UNCHANGED <<lock, fileVars, stopVars, status, outcome>>

\* ... or the write fails: the lock is given back and the call raises.
AnnounceFails(r) ==
  /\ DiskMayFail
  /\ Move(r, "cleared", "ended")
  /\ lock' = None
  /\ UNCHANGED <<fileVars, stopVars, status, outcome>>

-----------------------------------------------------------------------------
(* The work under the lock *)

Queue(r, todo) ==
  work' = [work EXCEPT ![r] = [a \in Account |-> IF a \in todo THEN "queued" ELSE "out"]]

\* load_accounts and the mode of the run, or a run without accounts.
Load(r) ==
  /\ phase[r] = "announced"
  /\ Alive(r)
  /\ \/ /\ kind[r] = "run_all"
        /\ Queue(r, Account)
     \/ /\ kind[r] = "scan_one"
        /\ \E a \in Account : Queue(r, {a})
     \/ /\ kind[r] = "maintenance"
        /\ Queue(r, {})
  /\ phase' = [phase EXCEPT ![r] = "scanning"]
  /\ UNCHANGED <<proc, lock, fileVars, stopVars, pauseFlag, owner, kind, status,
                 outcome, abandoned, polls, cliTarget>>

\* The account store or the settings cannot be read, the script's input is bad.
LoadFails(r) ==
  /\ kind[r] # "scan_one"
  /\ Move(r, "announced", "closing")
  /\ outcome' = [outcome EXCEPT ![r] = "error"]
  /\ UNCHANGED <<lock, fileVars, stopVars, status, work>>

\* What a step of the scan of a leaves alone.
WorkFrame ==
  UNCHANGED <<proc, lock, stopVars, pauseFlag, owner, kind, phase, outcome,
              abandoned, polls, cliTarget>>

SetWork(r, a, w) == work' = [work EXCEPT ![r][a] = w]

\* The next account: one at a time and none after a cancelled one in
\* _run_serial, as permits allow in _run_concurrent.
StartAccount(r, a) ==
  /\ phase[r] = "scanning"
  /\ Alive(r)
  /\ work[r][a] = "queued"
  /\ IF Concurrent(r)
     THEN PermitsUsed(r) < MaxWorkers
     ELSE \A b \in Account : work[r][b] \in {"queued"} \cup (Over \ {"cancelled"})
  /\ SetWork(r, a, "login")
  /\ WorkFrame
  /\ UNCHANGED <<fileVars, status>>

\* CancelToken.checkpoint, at every stage of a scan; the workers of a
\* finished run reach it too.
Checkpoint(r, a) ==
  /\ Alive(r)
  /\ work[r][a] \in Busy
  /\ IF StopRequested(r)
     THEN /\ SetWork(r, a, "cancelled")
          /\ status' = [status EXCEPT ![r] = "stopping"]
          /\ Heartbeat(r, "stopping")
     ELSE /\ SetWork(r, a, CASE work[r][a] = "login" -> "fetch"
                             [] work[r][a] = "saved" -> "sync"
                             [] OTHER -> work[r][a])
          /\ Heartbeat(r, status[r])
          /\ UNCHANGED status
  /\ WorkFrame

\* save_snapshot and record_scan(ok=True), then the event.
SaveSnapshot(r, a) ==
  /\ Alive(r)
  /\ work[r][a] = "fetch"
  /\ SetWork(r, a, "saved")
  /\ WorkFrame
  /\ UNCHANGED <<fileVars, status>>

\* The scan returns: a result, or an error that is recorded.
Return(r, a) ==
  /\ Alive(r)
  /\ \/ work[r][a] = "sync" /\ SetWork(r, a, "done")
     \/ work[r][a] \in {"login", "fetch"} /\ SetWork(r, a, "failed")
  /\ WorkFrame
  /\ UNCHANGED <<fileVars, status>>

\* A browser login or a request that never answers.
Hang(r, a) ==
  /\ Alive(r)
  /\ a \in Wedgeable
  /\ work[r][a] \in Busy
  /\ SetWork(r, a, "hung")
  /\ WorkFrame
  /\ UNCHANGED <<fileVars, status>>

\* _run_concurrent: the account's budget is spent, its worker is abandoned.
Abandon(r, a) ==
  /\ Alive(r)
  /\ phase[r] = "scanning"
  /\ Concurrent(r)
  /\ a \in Wedgeable
  /\ work[r][a] \in Busy \cup {"hung"}
  /\ a \notin abandoned[r]
  /\ abandoned' = [abandoned EXCEPT ![r] = @ \cup {a}]
  /\ UNCHANGED <<proc, lock, fileVars, stopVars, pauseFlag, owner, kind, phase,
                 status, outcome, work, polls, cliTarget>>

\* Mutants of the end of a scan: the round does not wait for its workers, or
\* does not look at the stop flag again, or reports a timeout as a stop.
EndScanEarly(r) ==
  /\ Move(r, "scanning", "closing")
  /\ \A a \in Account : work[r][a] # "queued"
  /\ outcome' = [outcome EXCEPT ![r] = IF StopRequested(r) THEN "cancelled" ELSE "done"]
  /\ UNCHANGED <<lock, fileVars, stopVars, status>>

EndScanIgnoresStop(r) ==
  /\ Move(r, "scanning", "closing")
  /\ \A a \in Account : Settled(r, a)
  /\ outcome' = [outcome EXCEPT ![r] = "done"]
  /\ UNCHANGED <<lock, fileVars, stopVars, status>>

EndScanTimeoutIsStop(r) ==
  /\ Move(r, "scanning", "closing")
  /\ \A a \in Account : Settled(r, a)
  /\ outcome' = [outcome EXCEPT ![r] =
                   IF StopRequested(r) \/ abandoned[r] # {} THEN "cancelled" ELSE "done"]
  /\ UNCHANGED <<lock, fileVars, stopVars, status>>

\* The body of run_all or run_single is over.
EndScan(r) ==
  /\ Move(r, "scanning", "closing")
  /\ \E o \in Outcome :
       /\ outcome' = [outcome EXCEPT ![r] = o]
       /\ IF Concurrent(r)
          THEN /\ \A a \in Account : Settled(r, a)
               /\ o = IF StopRequested(r) THEN "cancelled" ELSE "done"
          ELSE \/ /\ \E a \in Account : work[r][a] = "cancelled"
                  /\ o = "cancelled"
               \/ /\ \A a \in Account : work[r][a] \in Over \ {"cancelled"}
                  /\ \/ o = "done"
                     \* an unexpected exception of run_single or a script
                     \/ /\ o = "error"
                        /\ \/ kind[r] = "maintenance"
                           \/ /\ kind[r] = "scan_one"
                              /\ \E a \in Account : work[r][a] = "failed"
  /\ UNCHANGED <<lock, fileVars, stopVars, status>>

-----------------------------------------------------------------------------
(* Giving the lock back *)

\* _finalize_run: snapshots are pruned while the lock is held; the scripts
\* call finish() directly.
Prune(r) ==
  /\ kind[r] # "maintenance"
  /\ Move(r, "closing", "pruned")
  /\ UNCHANGED <<lock, fileVars, stopVars, status, outcome>>

\* finish: the final state.json; on ENOSPC the file is removed if it can be.
Publish(r) ==
  /\ Move(r, IF kind[r] = "maintenance" THEN "closing" ELSE "pruned", "published")
  /\ status' = [status EXCEPT ![r] = outcome[r]]
  /\ \/ WriteState(r, outcome[r])
     \/ DiskMayFail /\ fileRun' = None /\ UNCHANGED <<fileStatus, fresh>>
     \/ DiskMayFail /\ UNCHANGED fileVars
  /\ UNCHANGED <<lock, stopVars, outcome>>

FinishClearStop(r) ==
  /\ Move(r, "published", "unflagged")
  /\ DropStopFlag
  /\ UNCHANGED <<lock, fileVars, status, outcome>>

Release(r) ==
  /\ Move(r, "unflagged", "ended")
  /\ lock' = None
  /\ UNCHANGED <<fileVars, stopVars, status, outcome>>

-----------------------------------------------------------------------------
MainStep(r) ==
  \/ DecideRound(r) \/ Poll(r)
  \/ ClearStop(r) \/ Announce(r) \/ AnnounceFails(r)
  \/ Load(r) \/ LoadFails(r) \/ EndScan(r)
  \/ Prune(r) \/ Publish(r) \/ FinishClearStop(r) \/ Release(r)

WorkerStep(r, a) ==
  \/ StartAccount(r, a) \/ Checkpoint(r, a) \/ SaveSnapshot(r, a) \/ Return(r, a)

Next ==
  \/ \E p \in Proc : Boot(p) \/ RequestLocalStop(p) \/ Exit(p) \/ WedgeExit(p)
  \/ \E r \in Run, p \in Proc : DaemonRound(r, p) \/ WebRun(r, p) \/ CliRun(r, p)
  \/ \E r \in Run : MainStep(r)
  \/ \E r \in Run, a \in Account : WorkerStep(r, a) \/ Hang(r, a) \/ Abandon(r, a)
  \/ HeartbeatAges \/ RequestStop \/ CliStopRead \/ CliStopTouch \/ TogglePause

Spec == Init /\ [][Next]_vars

-----------------------------------------------------------------------------
(* Safety *)

\* Every variable keeps its type.
TypeOK ==
  /\ proc \in [Proc -> {"unborn", "up", "term", "dead"}]
  /\ lock \in Run \cup {None}
  /\ fileRun \in Run \cup {None}
  /\ fileStatus \in Status
  /\ fresh \in BOOLEAN
  /\ stopFlag \in BOOLEAN
  /\ pauseFlag \in BOOLEAN
  /\ owner \in [Run -> Proc \cup {None}]
  /\ kind \in [Run -> Kind]
  /\ phase \in [Run -> Phase]
  /\ status \in [Run -> Status]
  /\ outcome \in [Run -> Outcome]
  /\ work \in [Run -> [Account -> Work]]
  /\ abandoned \in [Run -> SUBSET Account]
  /\ polls \in [Run -> 0..MaxPolls]
  /\ stopHolder \in Run \cup {None}
  /\ cliTarget \in Run \cup {None}

\* The thread of r is between the acquire and the release.
InLock(r) == Alive(r) /\ phase[r] \in Critical

\* The lock is held exactly by the thread that believes it holds it: two runs
\* never overlap, no path out of a run keeps the lock, and a process that
\* dies takes nothing with it (control.try_acquire, RunContext.finish).
LockIsHeldByItsRun == \A r \in Run : InLock(r) <=> lock = r

\* A stop flag found by a run that has cleared the old ones was set while
\* that run held the lock (control.py try_acquire and finish clear it).
StopFlagIsForHolder ==
  lock # None /\ stopFlag /\ phase[lock] # "locked" => stopHolder = lock

\* A scan is cancelled only in a process that is shutting down, or because
\* stop was pressed while this very run held the lock.
OnlyAStoppedRunIsCancelled ==
  [][\A r \in Run, a \in Account :
       work[r][a] \in Busy /\ work'[r][a] = "cancelled" /\ a \notin abandoned[r]
         => proc[owner[r]] = "term" \/ (lock = r /\ stopHolder = r)]_vars

\* A run one of whose accounts was cancelled ends as "cancelled", although
\* _run_concurrent only looks at the stop flag again after all accounts.
CancelledRunSaysSo ==
  \A r \in Run :
    /\ phase[r] \in {"closing", "pruned", "published"}
    /\ Alive(r)
    /\ \E a \in Account : work[r][a] = "cancelled" /\ a \notin abandoned[r]
    => outcome[r] = "cancelled"

\* From the first state.json of a run until its last one.
Described == {"announced", "scanning", "closing", "pruned"}

\* As long as no worker has been abandoned, state.json names the run that is
\* scanning, so the console, --stop and the wedge probe look at the right one.
StateFileNamesTheScan ==
  (\A r \in Run : abandoned[r] = {}) =>
    \A r \in Run : InLock(r) /\ phase[r] \in Described
                    => fileRun = r /\ fileStatus \in {"running", "stopping"}

\* Snapshots are written under the run lock, where no other run prunes them:
\* only a worker its round has given up on may write one without it.
SnapshotsUnderLock ==
  [][\A r \in Run, a \in Account :
       work[r][a] = "fetch" /\ work'[r][a] = "saved" /\ a \notin abandoned[r]
         => lock = r]_vars

\* The inductive invariant behind the above.  An attempted run has an owner;
\* a worker that was not abandoned works only while its run is scanning; a
\* run without a pool scans one account at a time and abandons none; once an
\* account was cancelled the request to stop is still there; and the status a
\* heartbeat writes for a scan is never one of finish().
Owned ==
  \A r \in Run :
    /\ phase[r] = "idle" <=> owner[r] = None
    /\ owner[r] # None => proc[owner[r]] # "unborn"

WorkBelongsToScan ==
  \A r \in Run :
    /\ phase[r] \in {"idle", "refused", "polling", "skipped", "locked", "cleared", "announced"}
         => abandoned[r] = {} /\ \A a \in Account : work[r][a] = "out"
    /\ \A a \in Account :
         work[r][a] \in Busy \cup {"hung"} /\ a \notin abandoned[r] => phase[r] = "scanning"

SerialScansOne ==
  \A r \in Run : ~Concurrent(r) =>
    /\ abandoned[r] = {}
    /\ \A a, b \in Account :
         work[r][a] \in Busy \cup {"hung"} /\ a # b
           => work[r][b] \in {"queued"} \cup (Over \ {"cancelled"})

CancelHasReason ==
  \A r \in Run, a \in Account :
    /\ work[r][a] = "cancelled"
    /\ a \notin abandoned[r]
    /\ Alive(r)
    /\ phase[r] = "scanning"
    => StopRequested(r)

StatusOfScan ==
  \A r \in Run : phase[r] \in Described => status[r] \in {"running", "stopping"}

IInv ==
  /\ TypeOK
  /\ Owned
  /\ LockIsHeldByItsRun
  /\ StopFlagIsForHolder
  /\ WorkBelongsToScan
  /\ SerialScansOne
  /\ CancelHasReason
  /\ CancelledRunSaysSo
  /\ StatusOfScan
  /\ StateFileNamesTheScan

-----------------------------------------------------------------------------
(* What RunLock promises *)

Cleared == {"cleared", "announced", "scanning", "closing", "pruned", "published"}

StageOf(r) ==
  IF phase[r] \in {"idle", "refused", "polling", "skipped"} THEN "new"
  ELSE IF lock # r THEN "over"
  ELSE IF phase[r] \in {"locked", "cleared", "announced", "scanning"} THEN "working"
  ELSE outcome[r]

stage == [r \in Run |-> StageOf(r)]

asked == {r \in Run : /\ lock = r
                      /\ phase[r] \in Cleared
                      /\ StopRequested(r)}

Promise == INSTANCE RunLock WITH holder <- lock

\* Run control implements the lock with addressed, unforgotten stops.
ImplementsRunLock == Promise!Spec

-----------------------------------------------------------------------------
(* Liveness *)

\* Threads run, every network call of a scan that does not hang returns, the
\* event loop fires its timeouts, time passes, the daemon's probe runs, and
\* systemd kills a service that does not stop after SIGTERM.  Nobody has to
\* press a button, start a run or kill a process that was not asked to stop.
Fairness ==
  /\ \A r \in Run : WF_vars(MainStep(r))
  /\ \A r \in Run, a \in Account :
       /\ WF_vars(StartAccount(r, a))
       /\ WF_vars(Checkpoint(r, a))
       /\ WF_vars(SaveSnapshot(r, a))
       /\ WF_vars(Return(r, a))
       /\ WF_vars(Abandon(r, a))
  /\ WF_vars(HeartbeatAges)
  /\ \A p \in Daemon : WF_vars(WedgeExit(p))
  /\ \A p \in Daemon \cup Web : WF_vars(proc[p] = "term" /\ Exit(p))

FairSpec == Spec /\ Fairness

\* A round that uses a thread pool gives the lock back although workers hang.
RoundReleasesLock == \A r \in Run : (lock = r /\ Concurrent(r)) ~> (lock # r)

\* A run of the daemon gives the lock back even when its scan hangs for ever:
\* the probe ends the process and the kernel releases the flock.
DaemonFreesLock ==
  \A r \in Run : (lock = r /\ owner[r] \in Daemon) ~> (lock # r)
=============================================================================
