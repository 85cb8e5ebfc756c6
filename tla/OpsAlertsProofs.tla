---------------------------- MODULE OpsAlertsProofs ----------------------------
(* For any accounts, shared names and cron jobs: the pages never deny each    *)
(* other, a banner is its viewer's own, and log, book and channels agree      *)
(* between refreshes that nothing disturbed.                                  *)
EXTENDS OpsAlerts, TLAPS

-----------------------------------------------------------------------------
(* Types.                                                                    *)

\* Each source of a banner has a key of its own
LEMMA Keyed ==
  ASSUME NEW V
  PROVE  /\ \A x \in FailedAccounts(V) : x.key = "failed_accounts"
         /\ \A x \in NoRecentSuccess(V) : x.key = "no_recent_success"
         /\ \A x \in CorrectionDue(V) : x.key = "correction_due"
         /\ \A x \in DiskLow : x.key = "disk_low"
         /\ \A x \in AttachmentsOverLimit : x.key = "attachments_over_limit"
         /\ \A x \in RunWedged : x.key = "run_wedged"
         /\ \A x \in DaemonPaused : x.key = "daemon_paused"
         /\ \A x \in CompanyCollision(V) : x.key = "company_name_collision"
<1>1. \A x \in FailedAccounts(V) : x.key = "failed_accounts"
  BY DEF FailedAccounts, When, Alert
<1>2. \A x \in NoRecentSuccess(V) : x.key = "no_recent_success"
  BY DEF NoRecentSuccess, When, Alert
<1>3. \A x \in CorrectionDue(V) : x.key = "correction_due"
  BY DEF CorrectionDue, When, Alert
<1>4. \A x \in DiskLow : x.key = "disk_low"
  BY DEF DiskLow, When, Alert
<1>5. \A x \in AttachmentsOverLimit : x.key = "attachments_over_limit"
  BY DEF AttachmentsOverLimit, When, Alert
<1>6. \A x \in RunWedged : x.key = "run_wedged"
  BY DEF RunWedged, When, Alert
<1>7. \A x \in DaemonPaused : x.key = "daemon_paused"
  BY DEF DaemonPaused, When, Alert
<1>8. \A x \in CompanyCollision(V) : x.key = "company_name_collision"
  BY DEF CompanyCollision, When, Alert
<1> QED BY <1>1, <1>2, <1>3, <1>4, <1>5, <1>6, <1>7, <1>8

\* Every alert of a banner is one of the eight
LEMMA StandingTyped == Standing \subseteq Keys
BY Keyed DEF Standing, Banner, Keys

\* The facts keep their types, whoever writes them
LEMMA FactsTyped ==
  ASSUME TypeOK, Facts
  PROVE  TypeOK' /\ UNCHANGED books
<1> USE DEF TypeOK, books
<1>1. ASSUME NEW f \in [Accounts -> Statuses] PROVE Known(f, "absent") \in [Accounts -> Statuses]
  BY <1>1 DEF Known, Statuses
<1>2. ASSUME NEW f \in [Accounts -> Ages] PROVE Known(f, "none") \in [Accounts -> Ages]
  BY <1>2 DEF Known, Ages
<1>3. ASSUME NEW a \in Accounts, Scan(a) PROVE TypeOK' /\ UNCHANGED books
  <2>1. status' \in [Accounts -> Statuses]
    BY <1>1, <1>3 DEF Scan, Statuses
  <2>2. lastOk' \in [Accounts -> Ages]
    BY <1>2, <1>3 DEF Scan, Ages
  <2> QED BY <1>3, <2>1, <2>2 DEF Scan
<1>4. ASSUME NEW a \in Accounts, Forget(a) PROVE TypeOK' /\ UNCHANGED books
  <2>1. status' \in [Accounts -> Statuses]
    BY <1>1, <1>4 DEF Forget, Statuses
  <2>2. lastOk' \in [Accounts -> Ages]
    BY <1>2, <1>4 DEF Forget, Ages
  <2> QED BY <1>4, <2>1, <2>2 DEF Forget
<1>5. ASSUME NEW a \in Accounts, Snapshot(a) PROVE TypeOK' /\ UNCHANGED books
  BY <1>5 DEF Snapshot
<1>6. CASE HoursPass
  BY <1>6 DEF HoursPass, Ages
<1>7. CASE DaysPass
  <2>1. \A r \in {"none"} \cup Corrections \cup Certificates : Later(r) \in {"none"} \cup Corrections \cup Certificates
    BY DEF Later, Corrections, Certificates
  <2> QED BY <1>7, <2>1 DEF DaysPass
<1>8. CASE DiskFills \/ RunMoves \/ TogglePause \/ FileBreaks
  BY <1>8 DEF DiskFills, RunMoves, TogglePause, FileBreaks
<1>9. CASE WriteStats
  <2>1. \A over \in BOOLEAN : {[low |-> lowNow, over |-> over]} \in SUBSET Measurement
    BY DEF Measurement
  <2> QED BY <1>9, <2>1 DEF WriteStats
<1> QED BY <1>3, <1>4, <1>5, <1>6, <1>7, <1>8, <1>9 DEF Facts

LEMMA TypeStep == TypeOK /\ [Next]_vars => TypeOK'
<1> SUFFICES ASSUME TypeOK, [Next]_vars PROVE TypeOK'
  OBVIOUS
<1> USE DEF TypeOK
<1>1. ASSUME NEW j \in Jobs, Collect(j) PROVE TypeOK'
  BY <1>1, StandingTyped DEF Collect, Jobbing, sources, When
<1>2. ASSUME NEW j \in Jobs, ReadActive(j) PROVE TypeOK'
  BY <1>2 DEF ReadActive, Jobbing, sources
<1>3. ASSUME NEW j \in Jobs, Log(j) PROVE TypeOK'
  BY <1>3 DEF Log, Jobbing, sources
<1>4. ASSUME NEW j \in Jobs, WriteActive(j) PROVE TypeOK'
  BY <1>4 DEF WriteActive, Jobbing, sources
<1>5. ASSUME NEW j \in Jobs, NotifyOps(j) PROVE TypeOK'
  BY <1>5 DEF NotifyOps, Jobbing, Idle, sources
<1>6. CASE Crash
  BY <1>6 DEF Crash, Jobbing, Idle, sources
<1>7. CASE LoseBook
  BY <1>7 DEF LoseBook, sources
<1>8. CASE UNCHANGED vars
  BY <1>8 DEF vars, sources, books
<1> QED BY <1>1, <1>2, <1>3, <1>4, <1>5, <1>6, <1>7, <1>8, FactsTyped DEF Next, JobStep

-----------------------------------------------------------------------------
(* The book.                                                                 *)

LEMMA Start == Init => IInv
<1> SUFFICES ASSUME Init PROVE IInv
  OBVIOUS
<1>1. \A j \in Jobs : job[j].pc \in {"idle", "absent"}
  BY DEF Init, Idle, Off
<1>2. job \in [Jobs -> Jobbing]
  BY DEF Init, Idle, Off, Jobbing
<1>3. TypeOK
  BY <1>2 DEF Init, TypeOK
<1>4. RefreshTold
  BY <1>1 DEF Init, RefreshTold, Told, Busy
<1> QED BY <1>3, <1>4 DEF IInv

\* A step of the only refresh at work brings log, book and channels on
LEMMA RefreshStep ==
  ASSUME IInv, NEW j \in Jobs, JobStep(j), mishaps' = {}
  PROVE  RefreshTold'
<1> USE DEF IInv, TypeOK
<1>1. mishaps = {} /\ RefreshTold
  BY DEF JobStep, Collect, ReadActive, Log, WriteActive, NotifyOps
<1>2. \A i \in Jobs \ {j} : job'[i] = job[i]
  BY DEF JobStep, Collect, ReadActive, Log, WriteActive, NotifyOps
<1>3. job[j] \in Jobbing
  OBVIOUS
<1>4. \A i \in Jobs \ {j} : ~Busy(i) /\ Told(i)'
  <2>1. CASE Collect(j)
    <3>1. \A i \in Jobs : ~Busy(i)
      BY <1>1, <2>1 DEF Collect, When
    <3> QED BY <1>2, <3>1 DEF Busy, Told
  <2>2. CASE ~Collect(j)
    <3>1. Busy(j)
      BY <2>2 DEF JobStep, ReadActive, Log, WriteActive, NotifyOps, Busy
    <3>2. \A i \in Jobs \ {j} : ~Busy(i)
      BY <1>1, <3>1 DEF RefreshTold
    <3> QED BY <1>2, <3>2 DEF Busy, Told
  <2> QED BY <2>1, <2>2
<1>5. Told(j)' /\ (~Busy(j)' => said' = book' /\ pushed' = book')
  <2>1. CASE Collect(j)
    <3>1. \A i \in Jobs : ~Busy(i)
      BY <1>1, <2>1 DEF Collect, When
    <3>2. said = book /\ pushed = book
      BY <1>1, <3>1 DEF RefreshTold
    <3>3. job'[j].pc = "read" /\ said' = said /\ book' = book /\ pushed' = pushed
      BY <2>1 DEF Collect
    <3> QED BY <3>2, <3>3 DEF Told, Busy
  <2>2. CASE ReadActive(j)
    <3>1. said = book /\ pushed = book
      BY <1>1, <2>2 DEF RefreshTold, Told, ReadActive
    <3>2. job'[j].pc = "log" /\ job'[j].prev = book /\ said' = said /\ book' = book /\ pushed' = pushed
      BY <1>3, <2>2 DEF ReadActive, Jobbing
    <3> QED BY <3>1, <3>2 DEF Told, Busy
  <2>3. CASE Log(j)
    <3> DEFINE cur == job[j].cur
               prev == job[j].prev
    <3>1. said = book /\ pushed = book /\ prev = book
      BY <1>1, <2>3 DEF RefreshTold, Told, Log
    <3>2. /\ said' = (said \cup (cur \ prev)) \ (prev \ cur) /\ pushed' = pushed \ (prev \ cur)
          /\ job'[j].pc = "write" /\ job'[j].cur = cur /\ job'[j].prev = prev /\ book' = book
      BY <1>3, <2>3 DEF Log, Jobbing
    <3>3. said' = cur /\ pushed' = book \cap cur
      BY <3>1, <3>2
    <3> QED BY <3>1, <3>2, <3>3 DEF Told, Busy
  <2>4. CASE WriteActive(j)
    <3> DEFINE cur == job[j].cur
               prev == job[j].prev
    <3>1. prev = book /\ said = cur /\ pushed = book \cap cur
      BY <1>1, <2>4 DEF RefreshTold, Told, WriteActive
    <3>2. /\ book' = cur /\ said' = said /\ pushed' = pushed
          /\ job'[j].pc = "push" /\ job'[j].cur = cur /\ job'[j].prev = prev
      BY <1>3, <2>4 DEF WriteActive, Jobbing
    <3> QED BY <3>1, <3>2 DEF Told, Busy
  <2>5. CASE NotifyOps(j)
    <3> DEFINE cur == job[j].cur
               prev == job[j].prev
    <3>1. book = cur /\ said = cur /\ pushed = prev \cap cur
      BY <1>1, <2>5 DEF RefreshTold, Told, NotifyOps
    <3>2. /\ pushed' = pushed \cup (cur \ prev) /\ book' = book /\ said' = said
          /\ job'[j].pc = "idle"
      BY <2>5 DEF NotifyOps, Idle
    <3>3. pushed' = cur
      BY <3>1, <3>2
    <3> QED BY <3>1, <3>2, <3>3 DEF Told
  <2> QED BY <2>1, <2>2, <2>3, <2>4, <2>5 DEF JobStep
<1>6. \A i \in Jobs \ {j} : ~Busy(i)'
  BY <1>2, <1>4 DEF Busy
<1> QED BY <1>4, <1>5, <1>6 DEF RefreshTold

LEMMA Step == IInv /\ [Next]_vars => IInv'
<1> SUFFICES ASSUME IInv, [Next]_vars PROVE IInv'
  OBVIOUS
<1>1. TypeOK'
  BY TypeStep DEF IInv
<1>2. CASE UNCHANGED books
  BY <1>1, <1>2 DEF IInv, RefreshTold, Told, Busy, books
<1>3. CASE mishaps' # {}
  BY <1>1, <1>3 DEF IInv, RefreshTold
<1>4. CASE \E j \in Jobs : JobStep(j)
  BY <1>1, <1>3, <1>4, RefreshStep DEF IInv
<1>5. CASE Crash \/ LoseBook
  BY <1>3, <1>5 DEF Crash, LoseBook
<1> QED BY <1>2, <1>4, <1>5, FactsTyped DEF IInv, Next, vars, books

\* The inductive invariant: a refresh that nothing disturbs is the only one and
\* brings the log, the book and the channels on, one after the other.
THEOREM AlertsInvariant == Spec => []IInv
BY Start, Step, PTL DEF Spec

\* Between refreshes the book holds the alerts the log calls active, and these
\* are the ones that were pushed.
THEOREM OneStory == Spec => []BookIsTold
<1>1. IInv => BookIsTold
  BY DEF IInv, RefreshTold, BookIsTold
<1> QED BY <1>1, AlertsInvariant, PTL

-----------------------------------------------------------------------------
(* The pages.                                                                *)

\* When the probe says "ok"
LEMMA ProbeAgrees ==
  ASSUME ~Degraded
  PROVE  /\ Standing \cap {"run_wedged", "attachments_over_limit"} = {}
         /\ "no_recent_success" \in Standing => \E a \in Accounts : lastOk[a] = "edge"
         /\ "disk_low" \in Standing => \E s \in Stats : s.low
<1> USE DEF When, Alert
<1>1. /\ run # "wedged" /\ HoursSinceSuccess \cap {"fresh", "edge"} # {}
      /\ ~(\E d \in Disk : d.low) /\ ~(\E d \in Disk : d.over)
  BY DEF Degraded, Failing, RecentSuccessCheck, RunCheck, DiskCheck, AttachmentsCheck
<1>2. ~lowNow /\ ~(\E s \in Stats : s.over)
  BY <1>1 DEF Disk
<1>3. "run_wedged" \notin Standing /\ "attachments_over_limit" \notin Standing
  <2>1. RunWedged = {} /\ AttachmentsOverLimit = {}
    BY <1>1, <1>2 DEF RunWedged, AttachmentsOverLimit, When
  <2> QED BY <2>1, Keyed DEF Standing, Banner
<1>4. "no_recent_success" \in Standing => NoRecentSuccess(Accounts) # {}
  BY Keyed DEF Standing, Banner
<1>5. "disk_low" \in Standing => DiskLow # {}
  BY Keyed DEF Standing, Banner
<1>6. NoRecentSuccess(Accounts) # {} => \E a \in Accounts : lastOk[a] = "edge"
  <2> SUFFICES ASSUME NoRecentSuccess(Accounts) # {} PROVE \E a \in Accounts : lastOk[a] = "edge"
    OBVIOUS
  <2>1. PICK a \in Entries(Accounts) : lastOk[a] \in {"fresh", "edge"}
    BY <1>1 DEF HoursSinceSuccess
  <2>2. lastOk[a] # "fresh" /\ a \in Accounts
    BY DEF NoRecentSuccess, Entries
  <2> QED BY <2>1, <2>2
<1>7. DiskLow # {} => \E s \in Stats : s.low
  BY <1>2 DEF DiskLow
<1> QED BY <1>3, <1>4, <1>5, <1>6, <1>7

\* What the banner of all accounts V warns of is on the pages of those shown
LEMMA ListsAgree ==
  ASSUME NEW V \in SUBSET Accounts, NEW S \in SUBSET V
  PROVE  LET warned == UNION {x.accounts : x \in CorrectionDue(V)}
         IN  /\ warned \cap S \subseteq ToCorrect(S) \cap Dated(S)
             /\ {a \in ToCorrect(S) : record[a] \in {"soon", "overdue"}} \subseteq warned
             /\ ToCorrect(S) \subseteq Dated(S) \cup Undated(S)
             /\ ToRenew(S) \subseteq Dated(S)
             /\ \A x \in FailedAccounts(V) : x.accounts \cap Configured(S) = FailedCards(S)
<1> DEFINE warned == UNION {x.accounts : x \in CorrectionDue(V)}
           due == {a \in ToCorrect(V) : record[a] \in {"soon", "overdue"}}
<1>1. warned = due
  <2>1. CorrectionDue(V) = IF due # {} THEN {[key |-> "correction_due", accounts |-> due]} ELSE {}
    BY DEF CorrectionDue, When, Alert
  <2>2. CASE due # {}
    <3>1. \A x \in CorrectionDue(V) : x.accounts = due
      BY <2>1, <2>2
    <3> QED BY <2>1, <2>2, <3>1
  <2>3. CASE due = {}
    BY <2>1, <2>3
  <2> QED BY <2>2, <2>3
<1>2. Configured(S) = Configured(V) \cap S
  BY DEF Configured
<1>3. ToCorrect(S) = ToCorrect(V) \cap S
  BY <1>2 DEF ToCorrect
<1>4. warned \cap S \subseteq ToCorrect(S) \cap Dated(S)
  BY <1>1, <1>3 DEF ToCorrect, Dated, Corrections
<1>5. {a \in ToCorrect(S) : record[a] \in {"soon", "overdue"}} \subseteq warned
  BY <1>1, <1>3
<1>6. ToCorrect(S) \subseteq Dated(S) \cup Undated(S)
  BY DEF ToCorrect, Dated, Undated
<1>7. ToRenew(S) \subseteq Dated(S)
  BY DEF ToRenew, Dated, Corrections, Certificates
<1>8. ASSUME NEW x \in FailedAccounts(V) PROVE x.accounts \cap Configured(S) = FailedCards(S)
  <2>1. x.accounts = {a \in Entries(V) : status[a] \notin Healthy}
    BY <1>8 DEF FailedAccounts, When, Alert
  <2>2. Entries(S) = Entries(V) \cap S /\ Configured(S) \subseteq S
    BY DEF Entries, Configured
  <2> QED BY <2>1, <2>2 DEF FailedCards
<1> QED BY <1>4, <1>5, <1>6, <1>7, <1>8

\* No page denies what another warns of: the probe, the banner of all accounts
\* a viewer may see, and the lists, calendar and cards of those that are shown.
THEOREM NoPageDeniesAnother == Spec => []PagesAgree
<1>1. ASSUME NEW V \in SUBSET Accounts, NEW owned \in SUBSET V, NEW mine \in BOOLEAN
      PROVE  Shown(V, owned, mine) \in SUBSET V
  BY DEF Shown
<1>2. PagesAgree
  BY <1>1, ProbeAgrees, ListsAgree DEF PagesAgree
<1> QED BY <1>2, PTL

-----------------------------------------------------------------------------
(* The banner.                                                               *)

\* The alerts of a banner other than the corrections that are due
Others(V) == FailedAccounts(V) \cup NoRecentSuccess(V) \cup DiskLow \cup AttachmentsOverLimit
             \cup RunWedged \cup DaemonPaused \cup CompanyCollision(V)

\* What a viewer may see of the scans makes these alerts
LEMMA OthersOfOwn ==
  ASSUME NEW V \in SUBSET Accounts,
         Entries(V)' = Entries(V),
         \A b \in Entries(V) : status'[b] = status[b] /\ lastOk'[b] = lastOk[b],
         Configured(V)' = Configured(V), Stats' = Stats,
         UNCHANGED <<lowNow, run, paused>>
  PROVE  Others(V)' = Others(V)
<1>1. FailedAccounts(V)' = FailedAccounts(V)
  <2>1. {b \in Entries(V)' : status'[b] \notin Healthy} = {b \in Entries(V) : status[b] \notin Healthy}
    OBVIOUS
  <2> QED BY <2>1 DEF FailedAccounts
<1>2. NoRecentSuccess(V)' = NoRecentSuccess(V)
  <2>1. (\A b \in Entries(V)' : lastOk'[b] # "fresh") <=> \A b \in Entries(V) : lastOk[b] # "fresh"
    OBVIOUS
  <2> QED BY <2>1 DEF NoRecentSuccess, When
<1>3. DiskLow' = DiskLow /\ AttachmentsOverLimit' = AttachmentsOverLimit
  BY DEF DiskLow, AttachmentsOverLimit
<1>4. RunWedged' = RunWedged /\ DaemonPaused' = DaemonPaused
  BY DEF RunWedged, DaemonPaused
<1>5. CompanyCollision(V)' = CompanyCollision(V)
  BY DEF CompanyCollision
<1> QED BY <1>1, <1>2, <1>3, <1>4, <1>5 DEF Others

\* ... and the records of the viewer's accounts the rest
LEMMA CorrectionsOfOwn ==
  ASSUME NEW V \in SUBSET Accounts,
         \A b \in V : record'[b] = record[b],
         Configured(V)' = Configured(V)
  PROVE  CorrectionDue(V)' = CorrectionDue(V)
<1>1. Configured(V) \subseteq V
  BY DEF Configured
<1>2. ToCorrect(V)' = ToCorrect(V) /\ ToCorrect(V) \subseteq V
  BY <1>1 DEF ToCorrect
<1>3. {b \in ToCorrect(V)' : record'[b] \in {"soon", "overdue"}} = {b \in ToCorrect(V) : record[b] \in {"soon", "overdue"}}
  BY <1>2
<1> QED BY <1>3 DEF CorrectionDue

\* A scan or a removal of another account leaves the scans a viewer may see,
\* also when it makes a status file that could not be read
LEMMA OthersScanned ==
  ASSUME TypeOK, NEW a \in Accounts, Scan(a) \/ Forget(a), NEW V \in SUBSET (Accounts \ {a})
  PROVE  Banner(V)' = Banner(V)
<1>1. /\ \A b \in V : status'[b] = Known(status, "absent")[b]
      /\ \A b \in V : lastOk'[b] = Known(lastOk, "none")[b]
      /\ unreadable' = unreadable \ {"status"}
      /\ UNCHANGED <<record, lowNow, stats, run, paused>>
  <2>1. Known(status, "absent") \in [Accounts -> Statuses] /\ Known(lastOk, "none") \in [Accounts -> Ages]
    BY DEF TypeOK, Known, Statuses, Ages
  <2>2. CASE Scan(a)
    BY <2>1, <2>2 DEF Scan
  <2>3. CASE Forget(a)
    BY <2>1, <2>3 DEF Forget
  <2> QED BY <2>2, <2>3
<1>2. \A b \in V : /\ Known(status, "absent")[b] = IF "status" \in unreadable THEN "absent" ELSE status[b]
                   /\ Known(lastOk, "none")[b] = IF "status" \in unreadable THEN "none" ELSE lastOk[b]
  BY DEF Known
<1>3. Configured(V)' = Configured(V) /\ Stats' = Stats
  BY <1>1 DEF Configured, Stats
<1>4. Entries(V)' = Entries(V) /\ \A b \in Entries(V) : status'[b] = status[b] /\ lastOk'[b] = lastOk[b]
  <2>1. CASE "status" \in unreadable
    <3>1. Entries(V) = {} /\ \A b \in V : status'[b] = "absent"
      BY <1>1, <1>2, <2>1 DEF Entries
    <3>2. Entries(V)' = {}
      BY <1>1, <3>1 DEF Entries
    <3> QED BY <3>1, <3>2
  <2>2. CASE "status" \notin unreadable
    <3>1. \A b \in V : status'[b] = status[b] /\ lastOk'[b] = lastOk[b]
      BY <1>1, <1>2, <2>2
    <3>2. Entries(V)' = {b \in V : status'[b] # "absent"} /\ Entries(V) = {b \in V : status[b] # "absent"}
      BY <1>1, <2>2 DEF Entries
    <3> QED BY <3>1, <3>2
  <2> QED BY <2>1, <2>2
<1>5. Others(V)' = Others(V)
  BY <1>1, <1>3, <1>4, OthersOfOwn
<1>6. CorrectionDue(V)' = CorrectionDue(V)
  BY <1>1, <1>3, CorrectionsOfOwn
<1> QED BY <1>5, <1>6 DEF Banner, Others

\* A snapshot of another account changes at most the corrections that are due,
\* and these only when it lies in a directory of the viewer's
LEMMA OthersSaved ==
  ASSUME NEW a \in Accounts, Snapshot(a), NEW V \in SUBSET (Accounts \ {a})
  PROVE  /\ (Banner(V) \ CorrectionDue(V))' = Banner(V) \ CorrectionDue(V)
         /\ Sharing(a) \cap V = {} => Banner(V)' = Banner(V)
<1>1. UNCHANGED <<status, lastOk, lowNow, stats, run, paused, unreadable>>
  BY DEF Snapshot
<1>2. Configured(V)' = Configured(V) /\ Stats' = Stats /\ Entries(V)' = Entries(V)
  BY <1>1 DEF Configured, Stats, Entries
<1>3. Others(V)' = Others(V)
  BY <1>1, <1>2, OthersOfOwn
<1>4. (\A x \in Others(V) : x.key # "correction_due") /\ \A x \in CorrectionDue(V) : x.key = "correction_due"
  BY Keyed DEF Others
<1>5. \A x \in CorrectionDue(V)' : x.key = "correction_due"
  BY DEF CorrectionDue, When, Alert
<1>6. Banner(V) = Others(V) \cup CorrectionDue(V) /\ Banner(V)' = Others(V)' \cup CorrectionDue(V)'
  BY DEF Banner, Others
<1>7. Banner(V) \ CorrectionDue(V) = Others(V)
  BY <1>4, <1>6
<1>8. Banner(V)' \ CorrectionDue(V)' = Others(V)
  BY <1>3, <1>4, <1>5, <1>6
<1>9. ASSUME Sharing(a) \cap V = {} PROVE Banner(V)' = Banner(V)
  <2>1. \A b \in V : record'[b] = record[b]
    BY <1>9 DEF Snapshot
  <2>2. CorrectionDue(V)' = CorrectionDue(V)
    BY <1>2, <2>1, CorrectionsOfOwn
  <2> QED BY <1>3, <1>6, <2>2
<1> QED BY <1>7, <1>8, <1>9

\* A viewer's banner tells nothing of accounts outside the viewer's groups,
\* except where their company shares a directory with one of the viewer's.
THEOREM BannersAreOwn == Spec => BannerIsOwn
<1> DEFINE Own ==
      \A a \in Accounts :
        /\ Scan(a) \/ Forget(a) =>
             \A V \in SUBSET (Accounts \ {a}) : Banner(V)' = Banner(V)
        /\ Snapshot(a) =>
             \A V \in SUBSET (Accounts \ {a}) :
               /\ (Banner(V) \ CorrectionDue(V))' = Banner(V) \ CorrectionDue(V)
               /\ Sharing(a) \cap V = {} => Banner(V)' = Banner(V)
<1>1. TypeOK => Own
  BY OthersScanned, OthersSaved
<1>2. IInv /\ [Next]_vars => [Own]_sources
  BY <1>1 DEF IInv
<1> QED BY <1>2, AlertsInvariant, PTL DEF Spec, BannerIsOwn
=============================================================================
