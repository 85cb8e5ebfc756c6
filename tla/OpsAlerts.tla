------------------------------ MODULE OpsAlerts ------------------------------
(***************************************************************************)
(* What tells the operator that something is wrong: the banner of the      *)
(* console (src/ops_alerts.py), the public probe (src/health.py), the      *)
(* deadlines (src/todo.py), and the daemon's bookkeeping of which alert    *)
(* was logged and pushed (data/control/ops_alerts.json).                   *)
(*                                                                         *)
(* The facts they read are written by others and change at any moment.  An *)
(* age is "fresh" up to the limit, "stale" beyond it, and "edge" when it   *)
(* is beyond the limit but rounds to it in the probe's two decimals.       *)
(***************************************************************************)
EXTENDS Naturals, FiniteSets

CONSTANTS Accounts,   \* the accounts of accounts.enc
          Shared,     \* sets of accounts whose companies share a directory
          MinFailed,  \* ops_alerts.min_failed_accounts
          Jobs        \* the cron jobs of the daemon, which may overlap

ASSUME AccountsAssumption == Accounts # {} /\ Shared \subseteq SUBSET Accounts
ASSUME SharedAssumption == \A s, t \in Shared : s # t => s \cap t = {}
ASSUME MinFailedAssumption == MinFailed \in Nat

VARIABLES status,     \* the last scan of each account in accounts_status.json
          lastOk,     \* the age of its last success
          record,     \* the record that matters in its directory: a 补正 or a certificate
          lowNow,     \* is the disk low, when it is asked
          stats,      \* disk_stats.json: {} or one measurement
          run,        \* what state.json says of the last run
          paused,     \* pause.flag
          unreadable, \* files that cannot be read at the moment
          book,       \* the keys in ops_alerts.json
          job,        \* the cron jobs inside refresh_and_log
          said,       \* keys whose last line in the log is their activation
          pushed,     \* keys pushed in their present activation
          mishaps     \* what went wrong with the refreshes so far

sources == <<status, lastOk, record, lowNow, stats, run, paused, unreadable>>
books == <<book, job, said, pushed, mishaps>>
vars == <<sources, books>>

-----------------------------------------------------------------------------
Statuses == {"absent", "never", "ok", "partial", "failed"}
Healthy == {"never", "ok", "partial"}
Ages == {"none", "fresh", "edge", "stale"}
Corrections == {"undated", "later", "soon", "overdue"}
Certificates == {"valid", "expiring", "expired"}
Measurement == [low : BOOLEAN, over : BOOLEAN]
Keys == {"failed_accounts", "no_recent_success", "correction_due", "disk_low",
         "attachments_over_limit", "run_wedged", "daemon_paused", "company_name_collision"}

\* An alert and the accounts it speaks of; none when it is about the system.
Alert(key, accs) == [key |-> key, accounts |-> accs]
When(condition, alert) == IF condition THEN {alert} ELSE {}

\* The rows of accounts_status.json a viewer may be told about; a file that
\* cannot be read has none.
EntriesOfAll(V) == IF "status" \in unreadable THEN {} ELSE {a \in Accounts : status[a] # "absent"}
Entries(V) == IF "status" \in unreadable THEN {} ELSE {a \in V : status[a] # "absent"}
Configured(V) == IF "accounts" \in unreadable THEN {} ELSE V
Stats == IF "stats" \in unreadable THEN {} ELSE stats

FailedAccounts(V) ==
  LET failed == {a \in Entries(V) : status[a] \notin Healthy}
  IN  When(failed # {} /\ Cardinality(failed) >= MinFailed, Alert("failed_accounts", failed))

NoRecentSuccess(V) ==
  When(/\ Entries(V) # {}
       /\ \A a \in Entries(V) : lastOk[a] # "fresh",
       Alert("no_recent_success", {}))

\* What the pages list of the accounts V visible: 我负责的, for a viewer who is
\* the owner of some of them and has not asked for all.
Shown(V, owned, mine) == IF mine /\ owned # {} THEN owned ELSE V

\* todo.build and todo.deadline_items: the lists of the dashboard and of the
\* calendar, which keeps what has no date apart.  The dashboard and the
\* calendar ask for the accounts shown, the banner for all that are visible.
ToCorrect(V) == {a \in Configured(V) : record[a] \in Corrections}
ToRenew(V) == {a \in Configured(V) : record[a] \in {"expiring", "expired"}}
Dated(V) == {a \in Configured(V) : record[a] \in (Corrections \cup Certificates) \ {"undated"}}
Undated(V) == {a \in Configured(V) : record[a] = "undated"}

CorrectionDue(V) ==
  LET due == {a \in ToCorrect(V) : record[a] \in {"soon", "overdue"}}
  IN  When(due # {}, Alert("correction_due", due))

\* The last run's measurement; only without one is the disk asked at once.
DiskLow == When(IF Stats = {} THEN lowNow ELSE \E s \in Stats : s.low, Alert("disk_low", {}))
AttachmentsOverLimit == When(\E s \in Stats : s.over, Alert("attachments_over_limit", {}))
RunWedged == When(run = "wedged", Alert("run_wedged", {}))
DaemonPaused == When(paused, Alert("daemon_paused", {}))

\* A collision is told to a viewer who sees both companies, or more of them.
CompanyCollision(V) ==
  LET seen == {s \cap Configured(V) : s \in Shared}
      told == UNION {s \in seen : Cardinality(s) >= 2}
  IN  When(told # {}, Alert("company_name_collision", told))

Banner(V) == FailedAccounts(V) \cup NoRecentSuccess(V) \cup CorrectionDue(V) \cup DiskLow
             \cup AttachmentsOverLimit \cup RunWedged \cup DaemonPaused \cup CompanyCollision(V)

\* The cards of the dashboard marked as failed, for the accounts it shows.
FailedCards(V) == {a \in Configured(V) \cap Entries(V) : status[a] \notin Healthy}

Standing == {a.key : a \in Banner(Accounts)}

-----------------------------------------------------------------------------
\* GET /health: the checks that fail.

AccountsCheck == When("accounts" \in unreadable, "accounts_configured")
\* The age of the last success of any account, rounded.
HoursSinceSuccess == {lastOk[a] : a \in Entries(Accounts)} \ {"none"}
RecentSuccessCheckLenient ==
  When(HoursSinceSuccess # {} /\ HoursSinceSuccess \cap {"fresh", "edge"} = {}, "recent_success")
RecentSuccessCheck == When(HoursSinceSuccess \cap {"fresh", "edge"} = {}, "recent_success")
RunCheck == When(run = "wedged", "run_not_wedged")
\* Free space is asked at once, the attachments are the last run's measurement.
Disk == {[low |-> lowNow, over |-> \E s \in Stats : s.over]}
DiskCheck == When(\E d \in Disk : d.low, "disk_free")
AttachmentsCheck == When(\E d \in Disk : d.over, "attachments_size")

Failing == AccountsCheck \cup RecentSuccessCheck \cup RunCheck \cup DiskCheck \cup AttachmentsCheck
Degraded == Failing # {}

-----------------------------------------------------------------------------
\* The accounts that read and write one directory of snapshots with a.
Sharing(a) == {a} \cup UNION {s \in Shared : a \in s}

Idle == [pc |-> "idle", cur |-> {}, prev |-> {}]
Off == [Idle EXCEPT !.pc = "absent"]     \* no daemon is deployed

Init ==
  /\ status \in [Accounts -> Statuses]
  /\ lastOk \in [Accounts -> Ages]
  /\ \A a \in Accounts : /\ status[a] \in {"absent", "never"} => lastOk[a] = "none"
                         /\ status[a] \in {"ok", "partial"} => lastOk[a] # "none"
  /\ record \in [Accounts -> {"none"} \cup Corrections \cup Certificates]
  /\ \A a \in Accounts : \A b \in Sharing(a) : record[b] = record[a]
  /\ lowNow \in BOOLEAN
  /\ stats \in {{}} \cup {{m} : m \in Measurement}
  /\ run \in {"none", "running", "wedged"}
  /\ paused \in BOOLEAN
  /\ unreadable = {}
  /\ book = {} /\ said = {} /\ pushed = {}
  /\ \E first \in {Idle, Off} : job = [j \in Jobs |-> first]
  /\ mishaps = {}

\* What the rest of the system does to the facts.

\* A writer that cannot read accounts_status.json starts afresh.
Known(f, nothing) == [a \in Accounts |-> IF "status" \in unreadable THEN nothing ELSE f[a]]

Scan(a) ==        \* record_scan; a failure keeps the time of the last success
  /\ \E s \in {"ok", "partial", "failed"} :
       /\ status' = [Known(status, "absent") EXCEPT ![a] = s]
       /\ lastOk' = IF s = "failed" THEN Known(lastOk, "none")
                    ELSE [Known(lastOk, "none") EXCEPT ![a] = "fresh"]
  /\ unreadable' = unreadable \ {"status"}
  /\ UNCHANGED <<record, lowNow, stats, run, paused, books>>

Forget(a) ==      \* forget_account
  /\ status' = [Known(status, "absent") EXCEPT ![a] = "absent"]
  /\ lastOk' = [Known(lastOk, "none") EXCEPT ![a] = "none"]
  /\ unreadable' = unreadable \ {"status"}
  /\ UNCHANGED <<record, lowNow, stats, run, paused, books>>

HoursPass ==
  /\ lastOk' = [a \in Accounts |-> IF lastOk[a] = "fresh" THEN "edge"
                                   ELSE IF lastOk[a] = "edge" THEN "stale" ELSE lastOk[a]]
  /\ UNCHANGED <<status, record, lowNow, stats, run, paused, unreadable, books>>

Later(r) == CASE r = "later" -> "soon" [] r = "soon" -> "overdue"
              [] r = "valid" -> "expiring" [] r = "expiring" -> "expired" [] OTHER -> r
DaysPass ==
  /\ record' = [a \in Accounts |-> Later(record[a])]
  /\ UNCHANGED <<status, lastOk, lowNow, stats, run, paused, unreadable, books>>

\* A new snapshot, or a notice parsed since: it lies in the directory of the
\* company's name, so it is the record of every account that shares the name.
Snapshot(a) ==
  /\ \E r \in {"none"} \cup Corrections \cup Certificates :
       record' = [b \in Accounts |-> IF b \in Sharing(a) THEN r ELSE record[b]]
  /\ UNCHANGED <<status, lastOk, lowNow, stats, run, paused, unreadable, books>>

DiskFills ==
  /\ lowNow' = ~lowNow
  /\ UNCHANGED <<status, lastOk, record, stats, run, paused, unreadable, books>>

WriteStats ==     \* at the end of a run; the write itself may fail
  /\ \E over \in BOOLEAN : stats' = {[low |-> lowNow, over |-> over]}
  /\ unreadable' = unreadable \ {"stats"}
  /\ UNCHANGED <<status, lastOk, record, lowNow, run, paused, books>>

RunMoves ==
  /\ \E r \in {"none", "running", "wedged"} : run' = r
  /\ UNCHANGED <<status, lastOk, record, lowNow, stats, paused, unreadable, books>>

TogglePause ==
  /\ paused' = ~paused
  /\ UNCHANGED <<status, lastOk, record, lowNow, stats, run, unreadable, books>>

FileBreaks ==
  /\ \E u \in SUBSET {"status", "accounts", "stats"} : unreadable' = u
  /\ UNCHANGED <<status, lastOk, record, lowNow, stats, run, paused, books>>

-----------------------------------------------------------------------------
\* refresh_and_log, once per round of the daemon.

Busy(j) == job[j].pc \notin {"idle", "absent"}

Collect(j) ==
  /\ job[j].pc = "idle"
  /\ job' = [job EXCEPT ![j] = [pc |-> "read", cur |-> Standing, prev |-> {}]]
  /\ mishaps' = mishaps \cup When(\E i \in Jobs : Busy(i), "overlap")
  /\ UNCHANGED <<sources, book, said, pushed>>

ReadActive(j) ==
  /\ job[j].pc = "read"
  /\ job' = [job EXCEPT ![j].pc = "log", ![j].prev = book]
  /\ UNCHANGED <<sources, book, said, pushed, mishaps>>

LogOnlyCritical(j) ==
  /\ job[j].pc = "log"
  /\ said' = (said \cup ((job[j].cur \ job[j].prev) \ {"daemon_paused"})) \ (job[j].prev \ job[j].cur)
  /\ pushed' = pushed \ (job[j].prev \ job[j].cur)
  /\ job' = [job EXCEPT ![j].pc = "write"]
  /\ UNCHANGED <<sources, book, mishaps>>
Log(j) ==
  /\ job[j].pc = "log"
  /\ said' = (said \cup (job[j].cur \ job[j].prev)) \ (job[j].prev \ job[j].cur)
  /\ pushed' = pushed \ (job[j].prev \ job[j].cur)
  /\ job' = [job EXCEPT ![j].pc = "write"]
  /\ UNCHANGED <<sources, book, mishaps>>

WriteActiveMerges(j) ==
  /\ job[j].pc = "write"
  /\ book' = book \cup job[j].cur
  /\ job' = [job EXCEPT ![j].pc = "push"]
  /\ UNCHANGED <<sources, said, pushed, mishaps>>
WriteActive(j) ==      \* a full disk keeps the old book: "never fatal"
  /\ job[j].pc = "write"
  /\ \/ book' = job[j].cur /\ UNCHANGED mishaps
     \/ "loss" \notin mishaps /\ mishaps' = mishaps \cup {"loss"} /\ UNCHANGED book
  /\ job' = [job EXCEPT ![j].pc = "push"]
  /\ UNCHANGED <<sources, said, pushed>>

NotifyOps(j) ==
  /\ job[j].pc = "push"
  /\ pushed' = pushed \cup (job[j].cur \ job[j].prev)
  /\ job' = [job EXCEPT ![j] = Idle]
  /\ UNCHANGED <<sources, book, said, mishaps>>

\* The daemon dies inside a refresh; bounded to once.
Crash ==
  /\ "crash" \notin mishaps
  /\ \E j \in Jobs : Busy(j)
  /\ mishaps' = mishaps \cup {"crash"}
  /\ job' = [j \in Jobs |-> IF Busy(j) THEN Idle ELSE job[j]]
  /\ UNCHANGED <<sources, book, said, pushed>>

\* A corrupt ops_alerts.json reads as no alert; a loss, too, is bounded to once.
LoseBook ==
  /\ book # {} /\ "loss" \notin mishaps
  /\ book' = {} /\ mishaps' = mishaps \cup {"loss"}
  /\ UNCHANGED <<sources, job, said, pushed>>

JobStep(j) == Collect(j) \/ ReadActive(j) \/ Log(j) \/ WriteActive(j) \/ NotifyOps(j)

Facts == \/ HoursPass \/ DaysPass \/ DiskFills \/ WriteStats \/ RunMoves \/ TogglePause \/ FileBreaks
         \/ \E a \in Accounts : Scan(a) \/ Forget(a) \/ Snapshot(a)

Next == Facts \/ Crash \/ LoseBook \/ \E j \in Jobs : JobStep(j)

Spec == Init /\ [][Next]_vars
\* Every cron job fires again, and a refresh that was begun goes on.
FairSpec == Spec /\ \A j \in Jobs : WF_vars(JobStep(j))

-----------------------------------------------------------------------------
\* What one page warns of no other page denies.  When the probe says "ok", the
\* banner of the administrator shows no wedged run and no attachments over the
\* limit, at most the rounding of an age, and a low disk only from a run that
\* measured it before it was freed.  The banner speaks of all accounts V the
\* viewer may see, the lists, the calendar and the cards of those that are
\* shown (S): of these, a correction the banner warns of is on the dashboard's
\* list and dated on the calendar, and the banner warns of every one that is
\* due on them; one without a deadline is listed as undated rather than
\* dropped; and an account the banner calls failed has its card marked.  Only
\* when all are shown is everything the banner warns of on the page.
PagesAgree ==
  /\ ~Degraded =>
       /\ Standing \cap {"run_wedged", "attachments_over_limit"} = {}
       /\ "no_recent_success" \in Standing => \E a \in Accounts : lastOk[a] = "edge"
       /\ "disk_low" \in Standing => \E s \in Stats : s.low
  /\ \A V \in SUBSET Accounts :
       LET warned == UNION {x.accounts : x \in CorrectionDue(V)}
       IN  \A S \in {Shown(V, owned, mine) : owned \in SUBSET V, mine \in BOOLEAN} :
             /\ warned \cap S \subseteq ToCorrect(S) \cap Dated(S)
             /\ {a \in ToCorrect(S) : record[a] \in {"soon", "overdue"}} \subseteq warned
             /\ ToCorrect(S) \subseteq Dated(S) \cup Undated(S)
             /\ ToRenew(S) \subseteq Dated(S)
             /\ \A x \in FailedAccounts(V) : x.accounts \cap Configured(S) = FailedCards(S)

\* A viewer's banner tells nothing of accounts outside the viewer's groups: no
\* scan, removal or snapshot of another account changes it.  The exception is
\* an account whose company shares a directory with one of the viewer's: a
\* snapshot of it overwrites theirs, and with it the corrections that are due.
BannerIsOwn ==
  [][\A a \in Accounts :
       /\ Scan(a) \/ Forget(a) =>
            \A V \in SUBSET (Accounts \ {a}) : Banner(V)' = Banner(V)
       /\ Snapshot(a) =>
            \A V \in SUBSET (Accounts \ {a}) :
              /\ (Banner(V) \ CorrectionDue(V))' = Banner(V) \ CorrectionDue(V)
              /\ Sharing(a) \cap V = {} => Banner(V)' = Banner(V)]_sources

\* The book, the log and the channels tell one story: between two refreshes
\* the book holds exactly the alerts whose last line in the log is their
\* activation, and these are the ones that were pushed, so that no alert is
\* announced twice and each gets its line of recovery.  What can break it is a
\* daemon that dies inside a refresh, a book that is lost or not written, and
\* two cron jobs that refresh at the same moment.
BookIsTold ==
  (\A j \in Jobs : ~Busy(j)) /\ mishaps = {} => said = book /\ pushed = book

\* An alert about the run or the pause that keeps standing comes into the
\* book, also after a crash, a lost book or an overlap, if a cron job is there
\* to refresh it; without such a mishap it is then in the log.
AlertIsTold ==
  \A k \in {"run_wedged", "daemon_paused"} :
    (k \in Standing) ~> \/ k \notin Standing
                        \/ k \in book /\ (k \in said \/ mishaps # {})
                        \/ \A j \in Jobs : job[j].pc = "absent"

-----------------------------------------------------------------------------
(* The inductive invariant.                                                  *)

Jobbing == [pc : {"absent", "idle", "read", "log", "write", "push"}, cur : SUBSET Keys, prev : SUBSET Keys]

TypeOK ==
  /\ status \in [Accounts -> Statuses] /\ lastOk \in [Accounts -> Ages]
  /\ record \in [Accounts -> {"none"} \cup Corrections \cup Certificates]
  /\ lowNow \in BOOLEAN /\ stats \in SUBSET Measurement
  /\ run \in {"none", "running", "wedged"} /\ paused \in BOOLEAN
  /\ unreadable \subseteq {"status", "accounts", "stats"}
  /\ book \subseteq Keys /\ said \subseteq Keys /\ pushed \subseteq Keys
  /\ job \in [Jobs -> Jobbing]
  /\ mishaps \subseteq {"overlap", "crash", "loss"}

\* What log, book and channels say while a refresh is at work: it is the only
\* one, and each of its steps brings one of them from the alerts before (prev)
\* to those it found (cur)
Told(j) ==
  /\ job[j].pc \in {"read", "log"} => said = book /\ pushed = book
  /\ job[j].pc \in {"log", "write"} => job[j].prev = book
  /\ job[j].pc \in {"write", "push"} => said = job[j].cur
  /\ job[j].pc = "write" => pushed = book \cap job[j].cur
  /\ job[j].pc = "push" => book = job[j].cur /\ pushed = job[j].prev \cap job[j].cur

RefreshTold ==
  mishaps = {} => /\ \A i, j \in Jobs : Busy(i) /\ Busy(j) => i = j
                  /\ (\A j \in Jobs : ~Busy(j)) => said = book /\ pushed = book
                  /\ \A j \in Jobs : Told(j)

IInv == TypeOK /\ RefreshTold
=============================================================================
