# zjip-monitor: models, checks and proofs

zjip-monitor watches the data-IP registrations of client companies on a
provincial platform. It logs in to the platform once per company account,
downloads the list of registrations, compares it with the previous snapshot,
stores what changed, notifies, and synchronises certificates. A web console
lets colleagues start and stop scans and maintain the accounts.

This directory holds TLA+ models of that program, TLC configurations and TLAPS
proofs. Every definition is translated from the source; `PROJECT.json` ("map")
names the lines.

## 1. The system

### Processes and threads

| Process | Started by | Threads that matter here |
|---|---|---|
| resident daemon `run_daemon.py` | systemd, `Restart=always` | APScheduler jobs: the round `_job`, the wedge probe, the health jobs; the pool of `_run_concurrent` |
| web console `web/app.py` | systemd (uvicorn) | one event loop, its thread pool for plain `def` handlers, a 2-worker scan pool, a 2-worker verify pool |
| `run_once.py`, `scripts/*.py` | by hand | one |
| `archive/*` on another machine | by hand or timer | one |

They share no memory. They meet in files: `data/control/` (lock, state, stop,
pause, status of the accounts), `data/sessions/` (tokens), `accounts.enc`,
`config/*.yaml`, `data/snapshots/`, `data/events.jsonl`, `data/attachments/`.

### Components

For each one: the state it keeps, what it does, who it meets, what is hard,
what makes it correct. The last column of the table in section 2 says which of
them are modelled.

**Run control** (`src/control.py`, `run_daemon.py`, `run_once.py`).
State: `run.lock` (flock), `state.json`, `stop.flag`, `pause.flag`, the
process-local stop of SIGTERM. Operations: `try_acquire`, `finish`,
`request_stop`, `CancelToken.checkpoint`, `read_state`, the waiting round, the
wedge probe. Everyone who scans or moves data takes the lock. Hard: processes
die at any step, `state.json` may not be writable, a stop is one file for all
runs, timeouts race late answers. Correct when: one run at a time and no path
leaks the lock; a stop reaches the run it was pressed for; the state file names
the run that scans; a hung scan loses the lock.

**Scan orchestration** (`src/main.py`). State: the results of a run, the
semaphore of the pool. Operations: serial and pooled execution of accounts,
budgets, abandoned workers, cancellation, aggregation of notifications,
pruning. Hard: a worker that was given up on keeps running without the lock.
Correct when: a cancelled run says so; every account gets an outcome; changes
are saved before they are announced, and announced at least once.

**Login and token cache** (`src/login.py`). State: one token file per account.
Operations: `get_token`, `verify_credentials`, `forget_cached_token`; HTTP with
a browser as fallback. Hard: a login takes up to two minutes, during which the
password may be edited. Correct when: no token of a replaced password is
cached; only a rejection of the password counts as one.

**Account status** (`src/status_store.py`). State: `accounts_status.json`,
per account the streak of rejected logins, the pause and the last scan.
Read-modify-write under its own lock between processes; never raises. Correct
when: the pause follows the streak; a broken disk neither pauses nor unpauses.

**Account administration** (`web/routes/accounts.py`, `api_accounts.py`).
State: the verify generation `_verify_seq`, task and cooldown tables in the
console's memory. Operations: add, edit, relogin, delete, start and stop scans.
Async handlers run on the event loop, `delete_account` in a thread. Correct
when: a slow verify of a replaced password or a deleted account leaves nothing
behind.

**Account store, settings and schedule watch** (`src/config_loader.py`,
`settings_cache.py`, `web/services/settings_svc.py`, `run_daemon.py`). State:
`accounts.enc` and its backup, the YAML files, caches keyed by mtime and size, the
schedule the daemon runs. Operations: cached reads, saves of one section under a
lock, edits by hand, a look at the file once a minute. Hard: read, stat and write
interleave, and two versions may have the same key. Correct when: a cached value
is never older than the call; no save takes back another; the daemon comes to run
what a usable file asks for.

**Record fetching** (`src/scraper.py`). Asks for page after page until one is
empty or shows nothing new; a page that fails and the cap on pages end it with a
partial result. The server's total is never believed as an end, nor is a short
page (the repository's README still lists it; `scraper.py:259` says why not). Hard: the list
changes between two pages, and a page may be short, empty or repeated. Correct
when: a complete result of a list that stood still is the list, and nobody is in
it twice.

**Differ** (`src/differ.py`). A pure function from two snapshots to added,
removed and changed records, recognised by a number they may be given in
between or by a row id. Correct when: it names the registrations that really
appeared, went or changed.

**Attachments** (`src/attachments.py`). State: the files of each registration
and its `.sync.json`. Operations: look up the platform's documents, download,
compare, move an older round aside, describe the directory. Hard: the process
dies between two renames, one of several downloads fails, a notice is replaced
under the same name. Correct when: no round is lost, and what `.sync.json` says
is true.

**Archive hand-over** (`archive/*`, `scripts/archive_release.py`,
`scripts/backfill_notice_facts.py`, `src/archive_policy.py`). Another machine
pulls files, indexes them and asks this one to delete what it holds; it can send
them back. rsync takes no lock, the scripts take the run lock, the answer may be
lost. Correct when: nothing is deleted that the archive does not hold, and what
is deleted is marked.

**Notifications** (`src/notifier.py`), **alerts and health** (`src/ops_alerts.py`,
`health.py`, `todo.py`, `diskstat.py` and the pages that show them). State: which
alerts are active. Correct when: no page denies what another warns of, a viewer's
banner is about their groups only, and log, book and push tell one story.

**Console users, sessions and groups** (`web/auth.py`, `web/services/users.py`,
`groups.py`, `web/routes/users.py`, `login.py`). State: `users.yaml`, the groups of
`settings.yaml`, cookies and tokens signed with a key of the user's. Requests
check first and write later. Correct when: a changed user's old sessions end and
stay ended; administrators keep one of them; a deleted group is empty.

**Events and SSE** (`src/main.py`, `web/sse.py`, `web/services/events.py`). State:
`events.jsonl` and its rotated predecessors, the watcher's cursor, a bounded queue
per page. Hard: appending, renaming and deleting beside readers that take no lock.
Lines are written unescaped, so one that a full disk tears may end inside a character.
Correct when: nobody is sent a line twice or out of order, what stays in a log that can be
decoded is delivered, a page misses nothing of its window.

**Not modelled**, see section 6: login guard, daily statistics, audit log, pages
and mini program, PDF text, deployment script.

### The hard behaviours, in one list

`PROJECT.json` ("hazards") lists them with their lines. In short: abandoned
workers that wake after their run (`main.py:712`); the one stop flag of all
runs (`control.py:273`); a probe that judges by a file others write
(`run_daemon.py:151`); a round that decides on a state read after the refusal
(`run_daemon.py:185`); passwords, tokens and generations changing under a
pending login (`main.py:406`, `accounts.py:258`, `accounts.py:947`); writes
that are lost silently (`status_store.py:176`); a list that changes while it is
read page by page (`scraper.py:279`); a partial list laid over an old snapshot
(`main.py:495`); a stop, a crash or a failed write between saving a snapshot and
announcing it (`main.py:555-584`); a document replaced under its own name while it
is copied, marked or restored (`attachments.py:329`, `release.py:189`,
`archive_release.py:129`); requests that were checked before somebody else's
change (`users.py:332`, `auth.py:145`, `groups.py:101`); a file replaced between
stat and read (`settings_cache.py:61`); a log renamed between a look at its size
and its read, or torn inside a character (`sse.py:79`, `events.py:59`).

## 2. What is modelled where

| Component | Module | State |
|---|---|---|
| Run control | `RunControl`, abstractly `RunLock` | modelled |
| Scan orchestration | `RunControl` (the accounts of a run), `ScanPipeline` (one account) | partly |
| Record fetching | `ScanPipeline` | modelled |
| Differ | `Differ` | modelled |
| Login, token cache | `AccountLogin` | partly |
| Account status (streak, pause) | `AccountLogin`, `ScanPipeline` (outcome of a scan) | partly |
| Account administration | `AccountLogin`, starting and stopping in `RunControl` | partly |
| Account store, settings | `SettingsFile` | partly |
| Schedule watch | `SettingsFile` | modelled |
| Attachments | `AttachmentSync` | modelled |
| Archive hand-over | `ArchiveHandOver`, which extends `AttachmentSync` | partly |
| Console users, sessions and groups | `ConsoleUsers` | modelled |
| Alerts and health | `OpsAlerts` | modelled |
| Notifications | `ScanPipeline` (changes), `OpsAlerts` (alerts) | partly |
| Events and SSE | `EventLog` | partly |

### RunControl

A process is a pid and is never reused: a restart is another member of `Daemon`
or `Web`. A run is one call of `try_acquire` and what follows. `phase[r]` is
where its main thread is, in the order of the code: `locked` (the flock is
held), `cleared` (old stop flag removed), `announced` (first `state.json`),
`scanning`, `closing`, `pruned` (`_finalize_run`), `published` (final
`state.json`), `unflagged`, `ended`. `work[r][a]` is where the worker of
account `a` is; the workers of a run outlive it if they were abandoned.

| Action | Code |
|---|---|
| `Attempt`, `ClearStop`, `Announce`, `AnnounceFails` | `try_acquire` |
| `Publish`, `FinishClearStop`, `Release` | `RunContext.finish` |
| `DaemonRound`, `DecideRound`, `Poll` | `_job`, `_run_round` |
| `Checkpoint`, `Heartbeat`, `StopRequested` | `CancelToken` |
| `StartAccount`, `Abandon`, `EndScan` | `_run_serial`, `_run_concurrent`, `run_all`, `run_single` |
| `RequestStop`, `CliStopRead`, `CliStopTouch` | the stop button, `run_once.py --stop` |
| `WedgeExit`, `HeartbeatAges` | `_exit_if_wedged_on_self` |
| `Exit`, `Vanish`, `RequestLocalStop`, `Boot` | crash, SIGTERM, systemd |

Time is not measured: a heartbeat may age, a budget may expire and a wait may
be used up whenever the code lets them. `stopHolder` is a history variable for the
properties. Records, snapshots and
notifications are not in this module; saving a snapshot is one step.

### RunLock

What the files promise to someone who sees only them: one holder at a time, a
holder may be asked to stop, only an asked holder or a dying one ends as
cancelled, and a request never carries over to the next holder. `RunControl`
implements it under the mapping at the end of that module (`stage`, `asked`).

### AccountLogin

One account (accounts share none of this state). `stored`, `session`, `streak`
and `paused` are the files; `gen`, `handler`, `inHand` and `verify` are the
console's memory; `deleting` is the thread of `delete_account`; `scan[s]` is a
scan as far as it logs in, including the second login after a 401 during the
fetch or the attachments. A token is identified with the password it was minted
with, an expired token with none.

| Action | Code |
|---|---|
| `AddAccount`, `Relogin`, `EditSave`/`EditUnlink`/`EditReset`, `Spawn`, `SpawnRefused` | the async handlers; they keep the loop until they return (`LoopFree`) but scans and the deletion run beside them |
| `VerifyAnswer`, `VerifyCheck`, `VerifyCache`, `VerifyAccepted`, `VerifyRejected` | `_verify_async` |
| `DeleteSave`, `DeleteForget`, `DeleteBump`, `DeleteUnlink` | `delete_account` |
| `CheckPause` ... `SyncAttachments` | `scan_account_and_notify` |
| `RecordOk`, `RecordFail`, `Persist` | `status_store`: a read-modify-write that may silently fail |
| `PlatformChanges`, `TokenExpires` | the outside |

Assumptions: `max_consecutive_failures` does not change while the system runs
(after it is lowered an account is paused at its next rejection only); removing
a token file in the console does not fail; the increment of a generation is
one step, although two threads can do it.

### Differ and ScanPipeline

`Differ` holds the pure operators: `Diff` (`diff_snapshots`), `Unseen` (the
deduplication of pages) and `Merge` (a partial fetch over the old snapshot). A
record names the registration it really describes (`who`), which the code
cannot see: the code sees a row id (`Id`) and, once it is assigned, a number
(`No`). The properties speak of registrations, the operators of ids and numbers.

`ScanPipeline` is one account's scan after the login: `pc` follows
`scan_account_and_notify`. Scans follow each other, as the run lock makes them
(`RunControl`), while `platform`, the list the server answers, changes.

| Action | Code |
|---|---|
| `Start`, `FetchPage`, `CapReached`, `LaterPageFails`, `FirstPageFails` | `fetch_all_records` |
| `TokenExpires`, `LoginAgainFails` | the second attempt after a 401 |
| `RefuseBaseline`, `RefuseShrink`, `Accept` | the judgement of the list: first partial fetch, shrink guard, force_save flag, merge, diff |
| `SaveSnapshot`, `SaveFails`, `RecordOutcome` | `save_snapshot`, `record_scan` |
| `Notify`, `AppendEvent`, `SyncAttachments` | the steps after the snapshot, each of which may fail |
| `Cancel`, `Abandon`, `NotifyBatch`, `Finish`, `Crash` | `RunCancelled`, the budget of a pooled account, `notify_batch`, `_finalize_run`, a kill |
| `Arrive`, `Withdraw`, `Progress`, `PressForce`, `RequestStop` | the platform and the operator |

The history variables `present`, `blemish`, `arrivals`, `owed`, `saved` and
`credit` exist for the properties only. What is never read again is reset
(`ForgetScan`), which loses no behaviour.

Assumptions. Every record has a row id or a number (others take part in no
comparison). A registration keeps its row id and, once it has one, its number.
The list keeps its order; new registrations come first or last. The latest
snapshot can be read. The platform changes only between scans and during a
fetch, stop is pressed only where a scan may still notice it, and the flag only
where the scan may still see it: elsewhere these would be the same behaviour a
step later. An account that is given up before it is saved is in `RunControl`;
here it is given up while it downloads attachments, the longest step. A kind
"round" stands for serial and pooled rounds.

### SettingsFile

The file of the console's settings as the list of its versions, `hist`, each with
the key (mtime and size) it can be told by. A thread of the console is in a cached
read or in a save, the daemon starts or watches, somebody replaces the file by
hand. What was parsed is left out: a reader is judged by the version it answers
with.

| Action | Code |
|---|---|
| `Stat`, `ReadText`, `Check`, `Store`, `Return` | `get_settings`, `load_accounts` (bracketed: stat, read, stat again), `get_all`, `read_stats`, `_load_cached` (single: stat, read) |
| `Enter`, `StrictRead`, `Save`, `SaveFails`, `Invalidate` | `editing`, `load_for_update`, `section`, `save_settings` |
| `StartStat`, `Start`, `WatchStat`, `WatchRead`, `Die` | `run_daemon.main`, `_ScheduleWatch` |
| `HandEdit`, `Tick` | somebody with a shell; the clock of the file system |

Assumption: a file is replaced as a whole (`atomic_write_text`, and an editor that
does the same), so that a read sees one version.

### AttachmentSync and ArchiveHandOver

`AttachmentSync` is one registration: the platform's notice (round 1, 2, ... under
one file name) and certificate, the files of its directory, `.sync.json`
(`manifest`) and one sync that holds the run lock. A document stands for its
bytes, its identity and its hash. `ArchiveHandOver` adds the laptop (`copies`,
`.overwritten` as `moved`, the pulled marks, the index, the pending offer) and the
scripts; it is the composition that is checked.

| Action | Code |
|---|---|
| `SaveSnapshot`, `Lookup`, `SkipRecord`, `SkipHeld`, `StopOnLowDisk`, `BeginDownload`, `DownloadFails`, `ArriveNew`, `ArriveCompared`, `ArriveSame`, `MoveAside`, `Swap`, `EndRecord`, `Die` | `sync_attachments` and its helpers |
| `PullDocument`, `PullManifest`, `Index`, `Offer`, `OfferLost` | `archive/pull.py`, `index.py`, `release.py` |
| `MarkArchived`, `Unlink`, `ReleaseDone`, `ReleaseDies`, `Unarchive` | `scripts/archive_release.py` |
| `RestoreLook`, `RestoreRename`, `RestoreCut`, `BackfillFacts` | `run_restore`, `backfill_notice_facts.py` |

`stored`, `gone`, `overtaken` and the field `since` of `sending` are history. Mark and
file of one pull are separate steps, as rsync copies file by file; a release is cut off
between two deletions, a restore between its copy and its `Unarchive`. A transfer back is
three moments, as `rsync --ignore-existing` has them: it looks whether the name is free
(`RestoreLook`), receives a temporary file, and renames it over whatever is there by then
(`RestoreRename`), unless it is cut off (`RestoreCut`). It takes no lock: a sync may put
a document under the name in between, which `since` notes, and which the rename puts into
`overtaken`. Whether a terminal record is old enough to be released is left open (`old`).
The script answers with the names it marked (`answer`), and the laptop notes those.

### ConsoleUsers

`file` is `users.yaml`, `jar[u]` what a user's browser or phone presents, `call[t]` a
request between its checks and its write. A request forgets, or notes in `touched`,
when the user it is about is changed by another: that is what the properties excuse
(a check is allowed to be overtaken; what it may lead to is not). Session keys are
drawn from the counter of changes, as random keys never repeat; key 0 is the empty
key of imported users.

| Action | Code |
|---|---|
| `Authenticate`, `IssueCookie`, `IssueToken` | `POST /login`, `POST /api/login` |
| `AskEdit`, `AskOther`, then `Change` | `edit_user`, `reset_password`, `_simple_change` (disable, enable, revoke, delete), then the strict read-modify-write |
| `AskCreate`, `MakeOwnGroup`, `CreateUser`, `CreateFails` | `POST /users` |
| `AskDeleteGroup`, `CountMembers`, `RemoveGroup` | `POST /groups/.../delete` |
| `AskOwn`, `SetOwn` | `POST /me/password` |
| `Refuse`, `HandEdit` | every refusal after the checks; a file that cannot be parsed |

Left out: wrong passwords and the guard that counts them, expiry of credentials,
names shown; operator and viewer are one role.

### OpsAlerts

The sources are written by others and change at any moment; `Banner`, `Degraded`,
`Dated`, `FailedCards` are operators of them, translated from the pages. The banner asks
for all accounts a viewer may see, the cards, the lists and the calendar for those that are
shown: 我负责的, where the viewer owns some and has not asked for all (`Shown`;
`auth.py:339-364`, `dashboard.py:101-103`, `181-182`). The records of companies whose names
make one directory are one record: a snapshot of one is a snapshot of the others (`Sharing`). The
second half is `refresh_and_log` as a job of the daemon: `Collect`, `ReadActive`,
`Log`, `WriteActive`, `NotifyOps`, which two cron jobs may do at once. An age is fresh,
stale, or beyond the limit by less than the probe's rounding (`edge`).

### EventLog

Logs are sequences of pieces, two to a line, so that a line may be torn by a full
disk or read in half. The lines of `Wide`, when torn, are torn inside a character: what
holds such a half cannot be decoded (`Decodes`) unless its other half follows. A read of the
watcher that cannot be decoded is no `OSError`: the poll ends, the cursor stays
(`TickFails`); a page takes such a log for empty. Every line that can be decoded is
broadcast, fragments too; `VisibleTo` sends an administrator (`Unrestricted`) all of
them unparsed, anybody else only whole lines of accounts they may see. A piece
that stands alone on its line is taken not to be JSON by itself, as the first half of
an object is not. `live` is the one called `events.jsonl`, `rotated` the renamed
ones. Scans of one process exclude each other (`_EVENTS_LOCK`), another process and
the readers do not.

| Action | Code |
|---|---|
| `TakeTime`, `Open`, `Write`, `WriteFails` | `scan_account_and_notify`, `_append_event` |
| `Rotate`, `Unlink` | `_prune_data` |
| `TickStat`, `TickRead`, `TickFails`, `Send` | `sse._tick`, `start_watcher`, `broadcast`, `_visible_to`, `_stream` |
| `ListLive`, `ListRotated`, `ReadLog`, `PageDone` | `read_events` |

## 3. What the runs show

`d`, `w`, `c` are daemons, consoles and command lines.

| Run | Instance | Question |
|---|---|---|
| `serial` | 1 d, 1 w, 2 runs, 1 account, disk may fail, worker may hang | lock, stop and state file when scans run one after the other and processes die at any step; liveness: a hung scan of the daemon loses the lock |
| `pooled` | 1 w, 1 c, 1 run, 2 accounts, pool of 2, one worker may hang, disk may fail | inductive invariant, truthful outcome, snapshots under the lock and refinement of `RunLock` in spite of abandoned workers; liveness: the round ends though one worker hangs |
| `accounts` | 2 passwords, 2 verifies, 1 scan, limit 2, 2 generations, restarts, disk may fail | verifies never act on a replaced password; the pause follows the streak |
| `scan` | 3 registrations (one without a row id), pages of 2, caps 1 and 3, 2 changes of the list, 2 scans, 1 flag | what a scan saves, reports and announces, whatever the platform does |
| `archive` | 2 rounds (the PDF of the second yields facts), 1 dated name, 2 updates of the platform, 1 transfer back under way or landed late | no document is lost, none that was deleted is taken for missing, `.sync.json` is true, but where a late transfer back lands on a newer round |
| `console` | 2 users who share the name of their own group, 2 passwords, 2 requests, 2 changes | who gets in is current, ended sessions stay ended, the last administrator stays |
| `cache` | 2 threads, 3 versions, 2 ticks, 1 size, 1 restart | cached reads are fresh, no save is lost; liveness: the schedule is followed |
| `alerts` | 3 accounts, 2 of them of one directory, 2 cron jobs | pages agree for every viewer and every 我负责的, banners keep to their groups, book, log and push agree; liveness: an alert comes into the book |
| `events` | 3 scans (one torn inside a character), 2 processes, a group's viewer and an administrator, rotation after any line, 1 rotated log kept, queues of 1 | streams and pages are in order and whole; liveness: lines are delivered |
| `v_permits` | pool of 1, 2 accounts | as many abandoned workers as permits: the round keeps the lock for ever |
| `v_tail` | 1 change of the list | a partial fetch reports unfetched registrations without a number as gone |
| `v_facts` | 2 rounds, both readable | a sync cut off after a swap leaves the old round's facts on the new document |

The `v_` runs refute a sentence of the source or its comments; `PROJECT.json`
("findings") quotes it.

**Why the bounds are enough.** Two runs are what it takes for a predecessor and
a successor: inheriting a stop, losing the lock to another, writing over
another's state. A third run meets only one of them at a time, because a run
that is refused changes nothing. One account is enough for a serial run, as
accounts follow each other; the pool needs a second account for permits. `pooled`
has one run: what an abandoned worker of one run does to a later one (no state but
`state.json` and snapshots) is covered by the proofs of `IInv`,
`CancelledRunSaysSo` and the refinement, which are for any number of runs. With
`MaxPolls = 1` a round both waits and gives up. In `AccountLogin` two passwords
are old and new, two verifies are stale and current, `MaxGen = 2` allows an
edit under a pending verify or a deletion followed by an addition, the limit 2
separates a failure from the one that pauses. In `ScanPipeline` two scans are
one that saves and one that compares with what was saved; two changes let the
list shift between two pages and a number be assigned between two scans; lists
of two and three with pages of two have a last page that is short and one that
is full; the caps 1 and 3 cut a list or never matter; `ShrinkMin = 2` (10 in the
code) and three registrations give a shrink below half. In `ArchiveHandOver` two
rounds are one that is replaced and one that replaces it, two updates bring the
second while the first is being copied, released or on its way back. `Restores = 1` lets one
transfer be between its look and its rename, and one land late in the whole behaviour;
`Reviews` ends a review as registered only, the status that is released (a correction differs in
nothing but that), and one readable round is enough for facts that are there and
facts that are not. The proofs are for any number of transfers. Certificates follow
the same path without rounds and are switched off in the run. In `ConsoleUsers` two
changes and two requests are one change that overtakes another's check; two users
remove each other. In `SettingsFile` three versions with one size over two ticks
give a twin of an earlier key and a change after it. In `EventLog` three scans fill the
log, its successor and one more; of two viewers one is a group's, who sees the accounts of
two of the scans, the other an administrator. In `OpsAlerts` two accounts share a directory and the third
is another group's.

**Scenes.** Four MC modules restrict an instance to scenes that can meet, because
the parts do not share state otherwise: in `cache` either the daemon watches or
cached readers read, with the saves in both; in `alerts` one kind of source
leaves its quiet value at a time, and the jobs of the daemon run with the run state and
the pause flag and meet one kind of mishap; in `events` a page of the group is read before the
watcher looks at the log, the scans take their times first (for the watcher, in one
order), the administrator's queue is served before the watcher goes on, one scan's line is never
torn, one's is torn inside a character and one's between two, pages have a limit of one
or none (`PageOfInterest`); in `console` the file breaks only while a name is free. `SYMMETRY` is used in
`accounts` and `console` (passwords, verifies, requests, users; no liveness there).
Deadlock checking is off: runs, scans, changes and versions are finite in an
instance, so it stops.

**What the properties do not say.** `RemovedAreGone` excludes withdrawals and
degraded answers during the fetch and a whole page of arrivals: each of them
makes the code miss rows of a fetch it calls complete, and nothing in the
answers would let it notice. `ChangesAreAnnounced` is about one attempt to push,
not about its arrival, and excludes crashes and stops: the code keeps no record of
what it still has to announce. A round of the pool in which a worker was given up
may still have its files written by that worker (`state.json`, snapshots);
`SnapshotsUnderLock` therefore excepts the workers a round has given up,
`StateFileNamesTheScan` speaks of the time before the first of them, and
`DaemonFreesLock` is checked for serial scans. `RecordedIsShown` promises the console
a document only while the platform has no newer round, and afterwards that one of the
two machines has it; section 5 says why it cannot promise more. `NothingIsLost`, `NoStepBack` and
`RecordedIsShown` except one step, the rename of a transfer back over a document that a sync
stored after rsync had looked, and that document: the loss is real (section 5), and the
three say that nothing else does it. `ShrinkNeedsConsent` asks for a flag, not for a fresh one.
`DeletedGroupWasEmpty` and `OwnChangeKnewTheOld` excuse the change of another that
falls between a check and its write, a user who joins after the count or a reset. `PagesAgree`
compares the banner with the lists on the accounts both speak of: of a visible account that is not
我负责的 the banner may warn while the page does not list it, as the comment at `dashboard.py:101` wants.
`BannerIsOwn` excepts the corrections of a company whose directory is shared. `StreamInOrder` is
about the lines that end; a fragment, which only an administrator is sent, has no place in the order.
`PageIsWhole` and `StreamDelivers` except logs that a torn character made undecodable. `SessionsAreCurrent` excepts a credential that was being made at the moment
of the change. `ReadIsFresh` excepts two versions of one size within one tick of
the file system's clock. `BookIsTold` excepts the one mishap it met. `StreamDelivers`
ends with the first rotation as well; what is lost there is listed in section 5.

**Fairness.** In `RunControl`, weakly fair are the steps the code takes
by itself: the threads of a run and of its workers while their process lives,
the event loop's account budget, the ageing of the heartbeat, the probe (a
scheduler job of its own) and systemd's kill after a SIGTERM. Not fair: `Hang`,
any button, any start, any crash. A hung worker may therefore hang for ever,
and the lock must come back all the same. The probe exists in the daemon only:
a scan that hangs in the console's process keeps the lock until someone
restarts it, and no property claims otherwise. In `SettingsFile` only the
daemon's start and watch are fair (systemd restarts it, the scheduler fires every
minute); in `OpsAlerts` the steps of each cron job, which fires again and runs to
its end; in `EventLog` the watcher's poll, the event loop that serves each
stream, and that a line begun is completed or given up. Nothing else that a user, the platform or a
scan does is fair.

## 4. What is proved

TLAPS checks these for every number of processes, runs, accounts, passwords,
verifies, scans, users, requests, threads, jobs and rounds, for all limits, and for any
registrations, page size, caps and answers of the platform, and any logs, sizes and viewers.

| Theorem | States |
|---|---|
| `RunControlProofs!TypeCorrect` | types |
| `RunControlProofs!InductiveInvariant` | `IInv` |
| `RunControlProofs!LockCorrect` | the lock is held exactly by the run that believes so |
| `RunControlProofs!StopFlagCorrect` | a stop seen by a run was pressed while it held the lock |
| `RunControlProofs!StateFileCorrect` | `state.json` names the run that is scanning, while no worker was abandoned |
| `RunControlProofs!SnapshotsCorrect` | a snapshot is saved under the lock, or by an abandoned worker (action property) |
| `RunControlProofs!StopCorrect` | only a stopped run is cancelled (action property) |
| `RunControlProofs!CancelledCorrect` | a cancelled run says so |
| `RunControlProofs!Implements` | `RunControl` implements `RunLock` |
| `AccountLoginProofs!InductiveInvariant` | `IInv` |
| `AccountLoginProofs!ReportsCorrect` | a verify past its check is about the stored password |
| `AccountLoginProofs!PauseCorrect` | the pause follows the streak |
| `ScanPipelineProofs!InductiveInvariant` | `IInv` |
| `ScanPipelineProofs!DoublesCorrect` | a snapshot holds everyone once |
| `ScanPipelineProofs!DiffCorrect` | the diff is exact |
| `ScanPipelineProofs!PartialCorrect` | a partial fetch loses and reports no numbered registration |
| `ScanPipelineProofs!RemovedCorrect` | nobody who is still listed is reported as gone |
| `ScanPipelineProofs!CompleteCorrect` | a complete fetch of a list that stood still is a copy of it |
| `ScanPipelineProofs!ConsentCorrect` | an unconfirmed shrink costs a flag (action property) |
| `ScanPipelineProofs!SavedCorrect` | only an abandonment overwrites the outcome of a saved scan (action property) |
| `ScanPipelineProofs!AnnouncedCorrect` | saved changes are announced, or the run was stopped or gave up |
| `SettingsFileProofs!CacheInvariant` | `IInv` |
| `SettingsFileProofs!CachedReadsAreFresh` | a cached read is not older than its call |
| `SettingsFileProofs!NoSaveIsLost` | no save takes back another (action property) |
| `ArchiveProofs!ArchiveInvariant` | `IInv` |
| `ArchiveProofs!NoDocumentIsLost` | no step takes the last copy of a document, but a transfer back that lands on what a sync stored after its look (action property) |
| `ArchiveProofs!DeletedFilesAreMarked` | what was released is marked in `.sync.json` |
| `ArchiveProofs!ArchivedIsOnTheLaptop` | what is marked has its copy |
| `ArchiveProofs!SynchronisedIsShown` | what a finished sync asked for is shown, or held once the platform has a newer round, unless such a transfer overtook it |
| `ArchiveProofs!RoundsOnlyAdvance` | no older round comes back under the plain name but by such a transfer (action property) |
| `ConsoleUsersProofs!ConsoleInvariant` | `IInv` |
| `ConsoleUsersProofs!AcceptedSessionsAreCurrent` | who gets in is who they are now |
| `ConsoleUsersProofs!EndedSessionsStayEnded` | an ended session stays ended (action property) |
| `ConsoleUsersProofs!TheLastAdminStays` | administrators do not remove the last of them (action property) |
| `ConsoleUsersProofs!NewPasswordNeedsTheOld` | one's own new password needs the old one (action property) |
| `ConsoleUsersProofs!DeletedGroupsAreEmpty` | a deleted group was empty when it was counted (action property) |
| `OpsAlertsProofs!AlertsInvariant` | `IInv` |
| `OpsAlertsProofs!OneStory` | book, log and channels agree between refreshes |
| `OpsAlertsProofs!NoPageDeniesAnother` | the probe, the banner of what is visible and the lists of what is shown do not deny each other |
| `OpsAlertsProofs!BannersAreOwn` | a banner tells nothing of others' accounts, but the corrections in a shared directory (action property) |
| `EventLogProofs!LogInvariant` | `IInv` |
| `EventLogProofs!StreamsOrdered` | the lines that end are sent in their order and none twice; a group's page gets nothing else than its own whole lines |
| `EventLogProofs!PagesWhole` | what a page misses was followed by an older event or lay in an undecodable log, and it lists nothing twice |
| `EventLogProofs!CursorSkipsNothing` | before the first rotation, also after polls that failed, what the watcher's cursor passed was queued, or refused by a full queue, or read in two pieces |

Assumptions: `None` is not a member of the sets it is added to, accounts that
may hang are accounts, the bounds are naturals and `MaxFailures <= MaxStreak`
(the streak is not counted beyond `MaxStreak`, which has to reach the limit);
pages hold at least one row, and the platform's first list names nobody twice;
the default plan is a plan and there are file sizes; dated names are not plain
ones, and a review ends in a status; the `.env` administrator is in no file, and every user's own group is a group;
a log rotates at a positive size, one renamed log is kept at least and queues hold
something (`runtime_settings.py:191-192`, `sse.py`); an administrator may see every account;
an account is in one shared directory at most.

**RunControl.** The lock invariant is not inductive alone. That a cancelled run
says so needs to know that the request is still there when the coordinator
looks again (`CancelHasReason`): for that nobody but the run's own end may drop
it, which needs `LockIsHeldByItsRun`; a serial run has no second look, which
needs that it scans one account at a time and starts none after a cancelled one
(`SerialScansOne`); and workers that were not abandoned have returned by then
(`WorkBelongsToScan`). `Owned` ties runs to living processes. The refinement
uses the invariant in every step that ends a run. That `state.json` names the
scanning run needs that its status was read from a run that scans
(`StatusOfScan`), that whoever writes the file either holds the lock or is a worker,
which holds it until it is abandoned (`FileWriters`, `WorkerHoldsLock`), and that an
abandoned worker is never taken back (`NothingComesBack`).

**AccountLogin.** That a verify past its check is about the stored password
needs three facts. A generation is never ahead of the counter
(`GenerationsGrow`), so a new one is different from all in flight. A verify of
the current generation is about the stored password whenever no handler is in
the middle (`CurrentIsAboutStored`), because each handler that stores a
password ends by moving the generation on. And the handler that is in the
middle holds the stored password (`HandlerHoldsStored`). Deleting breaks none
of them: it only removes the password, and an account that is added again gets
a generation of its own.

**ScanPipeline.** The lemmas about `Differ` come first: among records that name
everyone once, looking a record up by number and then by row id finds the record
of the same registration and no other (`CounterpartIsSame`), hence a diff says
what it should (`DiffSays`), and a merge doubles nobody (`MergeProperties`),
provided a number in the old snapshot is still there in the new list. That
proviso is why `NumbersStay` is part of the invariant, and it relates snapshot,
pages and platform. `NamedOnce` needs that pages are rows of the platform's list
(`AnswersAreRows`) and that what may happen to the list keeps it free of doubles
(`RowsOfArrival`, `RowsOfWithdrawal`, `RowsOfProgress`). `Announced` follows what
a saved scan owes from stage to stage. That a complete fetch misses nobody relates the
pages to places in the list (`PagesSeen`): up to where the pages reach, whoever was there
all along has been fetched, and nobody who was fetched stands further behind than the
arrivals can have pushed them. A fetch is complete when a page brings nobody new: that page
is one beyond the last, or all of it stands where the arrivals pushed what was fetched, and as long as
fewer arrived than a page holds it is the former (`BeyondLastPage`, `UnseenAddsAll`).

**SettingsFile.** The history only grows, and so does what is known of it
(`Grows`): a twin stays a twin. The cache, and every read that is about to fill it,
holds the latest version the file had under the key it is kept under, ambiguous keys
excepted (`Fits`). A reader's key was the file's at some moment of the call, before
its text (`KeySeen`), and a key found unchanged after reading ties the text to it. So
what a call answers is not older than its beginning. One request at a time stands
between its strict read and its save, and only edits by hand fall in between
(`EditorOK`), which is why no save is lost.

**ArchiveHandOver.** What the laptop has only grows: rsync moves aside what it
overwrites (`OnLaptop`). Whatever is offered, marked, being deleted, on its way back or about to be
overwritten by a sync is on the laptop or nothing (`CopyInv`); deletions happen under the run lock of
the release only (`LockInv`), so a sync's copy of the marks has every name that is
gone (`GoneInv`), and writes it back. That rounds only advance needs that no file
of the plain name, here or on the laptop, is newer than the round a sync is about to
put there (`NewestInv`), and, for a transfer back, that what is under its name by the time
of the rename was put there since its look and is no older than what is under way (`SendingInv`):
so the rename fills an empty name or overtakes a document that `since` knows. That a finished
record shows its documents needs the reverse: a file is no older than its copy, and the copy
no older than any mark or offer of the name (`AgeInv`), documents that were overtaken excepted, so a name whose mark is the
platform's newest round carries that round or nothing, and neither a second mark nor
`--unarchive` loses it. The record of identities is true of the newest documents
(`Truthful`), which is what a sync relies on when it skips one, and a document that was asked for
is the one its name stands for until a newer round replaces it (`Answered`).

**ConsoleUsers.** Keys are never ahead of the counter of changes (`KeysAreDrawn`), so a
new key is on no credential, and a credential with its user's key is about the user
as they are (`KeyTellsTheRest`): every change either draws a key or keeps password and
role. What a request was checked for still holds unless its user was changed
meanwhile (`CallsAreCurrent`); for the last administrator it says that an edit of
oneself keeps the role and that no other change is of oneself. Every step has one of
three shapes (`StepShape`): one user changes and the others' requests notice, one request goes on,
or neither.

**OpsAlerts.** While nothing has gone wrong a refresh is the only one at work, and `Told`
says what log, book and channels hold at each of its steps: they go over from the
alerts before (`prev`) to those it found (`cur`) one after the other, and the order
decides what each is equal to (`RefreshStep`). That the pages agree holds in every
state, reachable or not, because they are functions of the same sources; the
proof needs that each source of a banner has a key of its own (`Keyed`). That a banner is its
viewer's own needs that a snapshot changes the records of one directory only.

**EventLog.** Lines are found by their places in a log (`Begins`), not by a recursion over
it, so the lemmas of places come first: `Nth` numbers a set of places in their order
(`Ranks`), and `Pick`, `Parsed`, `First` and `Reverse` hold what the sequence holds at
them. Logs only grow, and nothing that was in one moves (`Kept`). The piece that
ends a line lies in one log and there in the order in which lines were completed
(`LinesInv`). For the streams each event that was sent is *past*: its line ends under the
watcher's cursor, or every line of the live log was completed after it (`Past`).
What a group's page is sent was whole when it was read, and an administrator's fragments
take no place in the order. Neither half of `Past` alone is inductive: a rename leaves the cursor standing in a log that is not
there, the next log may have outgrown it before the watcher looks, and then what is under the
cursor was never sent. For a page the paths it has still to read are the
live one first and the others from the newest on (`TodoInv`); what it holds ends in a
log that is not among them (`FoundInv`), so nothing is listed twice; and what it owes
lies in one of them or was followed by an older event (`OwedInv`); a log that cannot be
decoded is taken off what it owes as it is read. That a walk stops
at the first event older than the window is sound for what is left because of the
order of the paths. `CursorSkipsNothing` is the safety half of `StreamDelivers`: until a
log is renamed the cursor never outruns the live log nor the pages' queues. That it
reaches the end of the log and the queues are emptied rests on fairness, which only TLC checks.

**Only model-checked.** Liveness: `DaemonFreesLock`, `RoundReleasesLock`, `ScheduleFollows`,
`AlertIsTold` and `StreamDelivers`. It is beyond the prover; every other property of a
passing run is stated by a theorem above.

## 5. Divergences met without a run

Read in the code while modelling and confirmed by the models where they reach;
listed for whoever maintains it. No property claims the contrary.

- `run_daemon.py:185`: a scheduled round refused by a single scan that ends before
  it is looked at is skipped.
- `main.py:406`, `accounts.py:947`: a scan or a verify under way may cache a token of a
  password that was edited, or of an account that was deleted, meanwhile; the next login
  with it fails and replaces it.
- `main.py:584` with `814-815`: a stop after the snapshot was saved loses the push of
  its changes.
- `attachments.py:160`: an answer to the document list that is no list counts as an empty
  one, and the record as synchronised; `attachments.py:498` takes the time of synchronisation at the
  end of a record, the lists at its beginning.
- `attachments.py:282`: a dated name whose file was released counts as free, and
  `archive_release.py:157` forgets the mark of any file that is back under its name, whatever is in
  it. With three rounds, the second of which was moved aside and released before the third
  arrived, and a restored copy of the first moved to the same dated name, the second's mark is
  gone: the laptop has it, the console does not show it.
- `release.py:189`: `rsync --ignore-existing` looks whether a name is free, transfers and renames
  without the run lock. A round that a sync stores under the name between the look and the rename
  is overwritten by the older one, and unless it was pulled meanwhile, it was the only copy;
  `.sync.json` goes on recording it as synchronised, so it is not fetched again. The comment at
  `release.py:187` speaks of times and owners only. `ArchiveHandOver` has the step.
- `groups.py:92`: with a `users.yaml` that cannot be parsed a group counts as empty.
- `users.py:247` (routes): editing oneself writes back the role read before the lock.
- `events.py:121` takes the order of lines for the order of their times; a time is
  taken at the fetch (`main.py:467`), the line is appended later.
- `sse.py`: lines appended just before a rotation, or to a new log that is already
  longer than the cursor, are not pushed; a page that is loaded again shows them.
- `main.py:217` with `events.py:58-61` and `sse.py:76-81`: a line torn inside a character by a full
  disk or a kill makes the log undecodable. Until it is rotated every page reads it as empty,
  although `tests/test_events_read.py:88` has corrupt lines skipped one by one (its fragment
  is ASCII), and the watcher fails at every poll: no event is pushed, nor, as the failed poll ends before
  it looks, any start or end of a run (`sse.py:87-92`).
- `sse.py:120`: an administrator's pages are sent every line unparsed, fragments of torn lines too.
- `main.py:280-288`, `ops_alerts.py:112-113`: companies whose names make one directory share their
  snapshots, so the banner of a group may show the corrections of another group's company, against the
  docstring at `ops_alerts.py:380-383`; the banner warns of the shared directory itself only to
  who sees both.
- `settings_cache.py:84`: a read under way across `invalidate()` may refill the cache
  with a twin of the new file.
- `run_once.py:42`: `--stop` reads the state and sets the flag in two steps and may
  stop a later run.
- `accounts.py:278`: a scan that hangs in the console's process is never freed.
- `main.py:402`, `main.py:591`, `accounts.py:778`, `differ.py:151`: whether a login will be
  real is decided before the cache is asked; a rejected login during the sync is
  swallowed; a console that dies between saving a password and dropping the token keeps
  the token; an empty previous snapshot is taken for none.

## 6. Not modelled

- **Login guard and pending sessions** (`web/login_guard.py`, `session.py`): counters in one
  process's memory under one lock; what they delay changes no state kept here.
- **Daily statistics** (`daily_stats.py`): one entry per day, replaced by each round under the
  run lock; only a page reads it.
- **Audit log**: append-only; nothing reads it back into a decision.
- **Pages, templates, report writer, mini program**: rendering without state of their own.
- **PDF text, the patterns that classify a login's message, the pages of the browser login**:
  parsing of foreign output.
- **Encryption and backup of `accounts.enc`, validation of single settings, import of account
  lists**: sequential transformations of one file.
- **The channels of the notifier and their texts**: requests whose outcome nothing reads.
- **The archive's database of snapshots and events, its search and reports**: derived from the
  files and rebuilt from them.
- **Deployment script**: only systemd's restart policy matters here (`RunControl`, `SettingsFile`).
