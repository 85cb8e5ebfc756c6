---------------------------- MODULE ScanPipeline ----------------------------
(***************************************************************************)
(* What a scan does with one account once it is logged in                  *)
(* (src/main.py, scan_account_and_notify; src/scraper.py): it fetches the  *)
(* list of registrations page by page while the platform goes on changing, *)
(* lays a partial list over the previous snapshot, refuses a suspicious    *)
(* one, saves the snapshot, tells what has changed and synchronises        *)
(* attachments.  Scans follow each other under the run lock (RunControl)   *)
(* and may be stopped, given up on or killed.                              *)
(*                                                                         *)
(* A snapshot is the set of its records; no snapshot and an empty one are  *)
(* the same to the code.  Rounds are followed for this account only.       *)
(***************************************************************************)
EXTENDS Integers, Sequences, FiniteSets, Differ

CONSTANTS PageSize,   \* rows the platform answers per page
          Cap,        \* values scraper.max_pages may have
          ShrinkMin,  \* a snapshot this large is guarded (10 in the code)
          Initial,    \* lists the platform may begin with
          MaxChanges, \* bound: changes of the platform's list
          MaxScans,   \* bound: scans
          MaxCredit   \* bound: force_save flags not yet used

\* Nobody has two records in a list.
NoTwice(s) == \A i, j \in 1..Len(s) : s[i].who = s[j].who => i = j

ASSUME PageAssumption == PageSize \in Nat \ {0}
ASSUME CapAssumption == Cap \subseteq Nat \ {0}
ASSUME BoundsAssumption ==
  MaxChanges \in Nat /\ MaxScans \in Nat /\ MaxCredit \in Nat /\ ShrinkMin \in Nat
ASSUME InitialAssumption ==
  Initial \subseteq {s \in Seq(Record) : NoTwice(s)}

VARIABLES
  platform,  \* the list the platform would answer, in its order
  snapshot,  \* records of the latest data/snapshots/<company>_*.json
  force,     \* data/control/force_save/<account>.flag
  stop,      \* whether the run has been told to stop
  pc,        \* where the scan is
  run,       \* what kind of run it belongs to, None between scans
  cap,       \* scraper.max_pages as this fetch read it, 0 between scans
  page,      \* the page to ask for next
  retried,   \* the token expired once and the fetch began again
  fetched,   \* FetchResult.records
  complete,  \* FetchResult.complete
  total,     \* FetchResult.reported_total, 0: not from the server
  records,   \* what is to be saved
  diff,      \* the DiffResult
  collected, \* whether the round has a result with that diff
  outcome,   \* what this scan has left in accounts_status.json, None: nothing
  \* history
  changes, scans, \* how many there were
  ever,      \* registrations that have been on the platform
  present,   \* those on the platform since the fetch began
  blemish,   \* what disturbed the scan
  arrivals,  \* registrations that arrived during the fetch
  saved,     \* this scan has saved its snapshot
  owed,      \* ... and what it changed has not been announced
  credit     \* force_save flags set and not yet used up

outVars == <<platform, changes, ever>>
fileVars == <<snapshot, force>>
fetchVars == <<cap, page, retried, fetched, complete, total>>
fetchHistory == <<present, blemish, arrivals>>
resultVars == <<records, diff, collected>>
tellVars == <<saved, owed, credit, outcome>>
vars == <<outVars, fileVars, stop, pc, run, fetchVars, fetchHistory, resultVars,
          scans, tellVars>>

Stage == {"idle", "fetch", "judge", "save", "record", "notify", "event", "sync",
          "batch", "finish"}
\* Rounds run their accounts one by one or in a pool.
Kind == {"round", "single"}
\* What may disturb a scan.
Blemish == {"arrival", "withdrawal", "progress", "degraded", "abandoned"}
Outcome == {"ok", "partial", "failed", "refused", "error", "timeout"}

Rows(s) == {s[i] : i \in 1..Len(s)}
Smaller(a, b) == IF a < b THEN a ELSE b

Init ==
  /\ platform \in Initial
  /\ snapshot \in {{}, Rows(platform)}
  /\ force = FALSE /\ stop = FALSE
  /\ pc = "idle" /\ run = None
  /\ cap = 0 /\ page = 1 /\ retried = FALSE
  /\ fetched = {} /\ complete = TRUE /\ total = 0
  /\ records = {} /\ diff = NoDiff /\ collected = FALSE
  /\ changes = 0 /\ scans = 0 /\ ever = Who(Rows(platform))
  /\ present = {} /\ blemish = {} /\ arrivals = 0
  /\ saved = FALSE /\ owed = FALSE /\ credit = 0 /\ outcome = None

-----------------------------------------------------------------------------
(* The platform and the operator *)

Fetching == pc = "fetch"
Changed(kind) == blemish' = IF Fetching THEN blemish \cup {kind} ELSE blemish

\* Nothing after the fetch looks at the list, so that a change then is one
\* between two scans.
PlatformFrame ==
  /\ pc \in {"idle", "fetch"}
  /\ changes < MaxChanges
  /\ changes' = changes + 1
  /\ UNCHANGED <<fileVars, stop, pc, run, fetchVars, resultVars, scans, tellVars>>

\* A new registration appears at the head or at the end of the list.
Arrive ==
  /\ PlatformFrame
  /\ \E r \in Record :
       /\ r.who \notin ever
       /\ platform' \in {<<r>> \o platform, Append(platform, r)}
       /\ ever' = ever \cup {r.who}
  /\ Changed("arrival")
  /\ arrivals' = IF Fetching THEN arrivals + 1 ELSE arrivals
  /\ UNCHANGED present

Withdraw ==
  /\ PlatformFrame
  /\ \E i \in 1..Len(platform) :
       /\ platform' = SubSeq(platform, 1, i - 1) \o SubSeq(platform, i + 1, Len(platform))
       /\ present' = present \ {platform[i].who}
  /\ Changed("withdrawal")
  /\ UNCHANGED <<ever, arrivals>>

\* A registration changes its status, is given its number, or both.
Progress ==
  /\ PlatformFrame
  /\ \E i \in 1..Len(platform), r \in Record :
       /\ r.who = platform[i].who
       /\ platform[i].numbered => r.numbered
       /\ r # platform[i]
       /\ platform' = [platform EXCEPT ![i] = r]
  /\ Changed("progress")
  /\ UNCHANGED <<ever, present, arrivals>>

\* touch data/control/force_save/<account>.flag, as late as a scan may see it
PressForce ==
  /\ pc \in {"idle", "judge"}
  /\ ~force /\ credit < MaxCredit
  /\ force' = TRUE
  /\ credit' = credit + 1
  /\ UNCHANGED <<outVars, snapshot, stop, pc, run, fetchVars, fetchHistory, resultVars,
                 scans, saved, owed, outcome>>

\* The stop button, as late as a scan may notice it.
RequestStop ==
  /\ pc \in {"fetch", "sync"} /\ ~stop
  /\ stop' = TRUE
  /\ UNCHANGED <<outVars, fileVars, pc, run, fetchVars, fetchHistory, resultVars,
                 scans, tellVars>>

-----------------------------------------------------------------------------
(* Ends of a scan *)

\* record_scan: never raises, so the outcome may be lost.
Record_scan(s) == outcome' \in {s, outcome}

\* Where a run goes when the account is done: a round announces, then ends.
AfterAccount == IF run = "single" THEN "finish" ELSE "batch"

\* A large shrink that neither the server's total nor anything else confirms.
Suspicious(R) ==
  /\ complete
  /\ Cardinality(snapshot) >= ShrinkMin
  /\ 2 * Cardinality(R) < Cardinality(snapshot)
Confirmed(R) == total > 0 /\ Cardinality(R) = total
NeedsForce(R) == Suspicious(R) /\ ~Confirmed(R)

\* History: the flag taken for the list in hand is used up, saved or not.
Spend ==
  credit' = IF pc = "save" /\ NeedsForce(records) THEN credit - 1 ELSE credit

\* What is not read any more is forgotten: the variables of the loop over the
\* pages, then the list and its history.
ForgetLoop == cap' = 0 /\ page' = 1 /\ retried' = FALSE
ForgetHistory == present' = {} /\ blemish' = {} /\ arrivals' = 0
ForgetList ==
  /\ fetched' = {} /\ complete' = TRUE /\ total' = 0 /\ ForgetHistory
  /\ records' = {}
ForgetScan == ForgetLoop /\ ForgetList /\ diff' = NoDiff

\* The account is given up with an outcome before anything was saved.
Fail(s) ==
  /\ Record_scan(s)
  /\ pc' = AfterAccount
  /\ ForgetScan
  /\ UNCHANGED <<outVars, fileVars, stop, run, collected, scans, saved, owed, credit>>

-----------------------------------------------------------------------------
(* Fetching *)

BeginFetch ==
  /\ page' = 1 /\ fetched' = {} /\ complete' = TRUE /\ total' = 0
  /\ cap' \in Cap
  /\ present' = Who(Rows(platform)) /\ blemish' = {} /\ arrivals' = 0

\* A run takes the account up and has a token (AccountLogin).
Start ==
  /\ pc = "idle" /\ scans < MaxScans
  /\ scans' = scans + 1
  /\ run' \in Kind
  /\ pc' = "fetch"
  /\ BeginFetch
  /\ UNCHANGED <<outVars, fileVars, stop, retried, resultVars, tellVars>>

\* The platform's answer for page n: its rows, or, degraded, only the first of
\* them; beyond the end nothing or the last page again.
Page(n) == SubSeq(platform, (n - 1) * PageSize + 1, Smaller(n * PageSize, Len(platform)))
LastPage == (Len(platform) + PageSize - 1) \div PageSize
Answers(n) ==
  {SubSeq(Page(n), 1, k) : k \in 0..Len(Page(n))}
    \cup (IF n > LastPage /\ LastPage > 0 THEN {Page(LastPage)} ELSE {})
Degraded(n, rows) == Len(rows) < Len(Page(n))

\* totalSize, where there is one, may under-report.
Totals == {n \in {0, Len(platform) - 1, Len(platform)} : n >= 0}

\* The run is told to stop before the first page and in the pause before each
\* further one, but not between a second login and its first page.
InLoop == Fetching /\ (page = 1 \/ page <= cap)
Cancellable == stop /\ ~(retried /\ page = 1)
Asking == InLoop /\ ~Cancellable

FetchPage ==
  /\ Asking
  /\ \E rows \in Answers(page) :
       LET new == Unseen(Rows(rows), fetched) IN
       /\ fetched' = fetched \cup new
       /\ \/ new = {} /\ pc' = "judge" /\ ForgetLoop
          \/ new # {} /\ pc' = pc /\ page' = page + 1 /\ UNCHANGED <<cap, retried>>
       /\ blemish' = IF Degraded(page, rows) THEN blemish \cup {"degraded"} ELSE blemish
  /\ IF page = 1 THEN total' \in Totals ELSE total' = total
  /\ UNCHANGED <<outVars, fileVars, stop, run, complete, present, arrivals, resultVars,
                 scans, tellVars>>

EndFetch(whole) ==
  /\ complete' = whole
  /\ pc' = "judge"
  /\ ForgetLoop
  /\ UNCHANGED <<outVars, fileVars, stop, run, fetched, total, fetchHistory, resultVars,
                 scans, tellVars>>

\* Mutants of the two ways a fetch ends early: the result passes for complete.
CapReachedAsComplete == Fetching /\ ~InLoop /\ EndFetch(TRUE)
LaterPageFailsAsComplete == Asking /\ page > 1 /\ EndFetch(TRUE)

\* Both keep what was fetched as a partial result.
CapReached == Fetching /\ ~InLoop /\ EndFetch(FALSE)
LaterPageFails == Asking /\ page > 1 /\ EndFetch(FALSE)

FirstPageFails == Asking /\ page = 1 /\ Fail("failed")

\* A 401: log in again and fetch from page 1, once.
TokenExpires ==
  /\ Asking /\ ~retried
  /\ retried' = TRUE
  /\ BeginFetch
  /\ UNCHANGED <<outVars, fileVars, stop, pc, run, resultVars, scans, tellVars>>
LoginAgainFails ==
  /\ Asking
  /\ Fail("failed") \/ Fail("error")

-----------------------------------------------------------------------------
(* Judging and saving *)

\* Nothing to lay a partial list over: no baseline is made of it.
RefuseBaseline == pc = "judge" /\ ~complete /\ snapshot = {} /\ Fail("failed")

RefuseShrink == pc = "judge" /\ NeedsForce(fetched) /\ ~force /\ Fail("refused")

Take ==
  /\ records' = (IF complete THEN fetched ELSE Merge(snapshot, fetched))
  /\ diff' = Diff(records', snapshot)
  /\ fetched' = {}
  /\ pc' = "save"
  /\ UNCHANGED <<outVars, snapshot, stop, run, cap, page, retried, complete, total,
                 fetchHistory, collected, scans, tellVars>>

\* Mutant: the flag is left in place.
AcceptKeepsFlag ==
  /\ pc = "judge"
  /\ complete \/ snapshot # {}
  /\ NeedsForce(fetched) => force
  /\ Take
  /\ UNCHANGED force

Accept ==
  /\ pc = "judge"
  /\ complete \/ snapshot # {}
  /\ NeedsForce(fetched) => force
  /\ force' = (force /\ ~NeedsForce(fetched))
  /\ Take

\* What a change is about: which registrations there are, and their status.
Content(R) == {[who |-> r.who, st |-> r.st] : r \in R}

SaveSnapshot ==
  /\ pc = "save"
  /\ snapshot' = records
  /\ saved' = TRUE
  /\ owed' = (snapshot # {} /\ Content(records) # Content(snapshot))
  /\ Spend
  /\ pc' = "record"
  /\ records' = {} /\ total' = 0 /\ ForgetHistory
  /\ UNCHANGED <<outVars, outcome, force, stop, run, cap, page, retried, fetched, complete,
                 diff, collected, scans>>

\* save_snapshot raises: a round goes on (without a pool it records the error),
\* a single scan ends.
SaveFails ==
  /\ pc = "save"
  /\ IF run = "round" THEN Record_scan("error") ELSE outcome' = outcome
  /\ Spend
  /\ pc' = AfterAccount
  /\ ForgetScan
  /\ UNCHANGED <<outVars, fileVars, stop, run, collected, scans, saved, owed>>

-----------------------------------------------------------------------------
(* After the snapshot *)

AfterSave == <<outVars, snapshot, force, stop, run, fetchVars, fetchHistory, records, diff,
               scans, saved, credit>>

RecordOutcome ==
  /\ pc = "record"
  /\ Record_scan(IF complete THEN "ok" ELSE "partial")
  /\ pc' = IF run = "single" /\ HasChanges(diff) THEN "notify" ELSE "event"
  /\ UNCHANGED <<AfterSave, collected, owed>>

\* notify(): the push is tried once; whether it arrives is not known here.
Notify ==
  /\ pc = "notify"
  /\ owed' = FALSE
  /\ pc' = "event"
  /\ UNCHANGED <<AfterSave, outcome, collected>>

\* Mutant: a failed append to events.jsonl is an error of the account.
AppendEventRaises ==
  /\ pc = "event"
  /\ \/ pc' = "sync" /\ outcome' = outcome
     \/ pc' = AfterAccount /\ Record_scan("error")
  /\ UNCHANGED <<AfterSave, collected, owed>>

\* The append may fail; the scan goes on all the same.
AppendEvent ==
  /\ pc = "event"
  /\ pc' = "sync"
  /\ UNCHANGED <<AfterSave, outcome, collected, owed>>

\* Attachments synchronised or failed, the result reaches the round.
SyncAttachments ==
  /\ pc = "sync" /\ ~stop
  /\ collected' = TRUE
  /\ pc' = AfterAccount
  /\ UNCHANGED <<AfterSave, outcome, owed>>

\* RunCancelled, before a page or at the attachments: no result.
Cancel ==
  /\ \/ InLoop /\ Cancellable
     \/ pc = "sync" /\ stop
  /\ pc' = AfterAccount
  /\ ForgetScan
  /\ UNCHANGED <<outVars, fileVars, outcome, stop, run, collected, scans, saved, owed,
                 credit>>

\* A pooled account is over its budget while it downloads attachments.
Abandon ==
  /\ pc = "sync" /\ run = "round"
  /\ Record_scan("timeout")
  /\ blemish' = blemish \cup {"abandoned"}
  /\ pc' = "batch"
  /\ UNCHANGED <<outVars, fileVars, stop, run, fetchVars, present, arrivals, resultVars,
                 scans, saved, owed, credit>>

NotifyBatch ==
  /\ pc = "batch"
  /\ owed' = (owed /\ ~(collected /\ HasChanges(diff)))
  /\ pc' = "finish"
  /\ UNCHANGED <<AfterSave, outcome, collected>>

\* The scan's variables and the stop flag do not outlive the run.
EndRun ==
  /\ pc' = "idle" /\ run' = None /\ stop' = FALSE
  /\ ForgetScan /\ collected' = FALSE
  /\ saved' = FALSE /\ owed' = FALSE /\ outcome' = None
  /\ Spend
  /\ UNCHANGED <<outVars, fileVars, scans>>

\* _finalize_run keeps the latest snapshot and frees the run lock.
Finish == pc = "finish" /\ EndRun

\* The process dies; the next run drops the stop flag it leaves.
Crash == pc \notin {"idle", "finish"} /\ EndRun

Next ==
  \/ Arrive \/ Withdraw \/ Progress \/ PressForce \/ RequestStop
  \/ Start \/ FetchPage \/ CapReached \/ LaterPageFails \/ FirstPageFails
  \/ TokenExpires \/ LoginAgainFails
  \/ RefuseBaseline \/ RefuseShrink \/ Accept \/ SaveSnapshot \/ SaveFails
  \/ RecordOutcome \/ Notify \/ AppendEvent \/ SyncAttachments \/ Cancel \/ Abandon
  \/ NotifyBatch \/ Finish \/ Crash

Spec == Init /\ [][Next]_vars

-----------------------------------------------------------------------------
(* Properties *)

TypeOK ==
  /\ platform \in Seq(Record)
  /\ snapshot \subseteq Record
  /\ outcome \in Outcome \cup {None} /\ force \in BOOLEAN /\ stop \in BOOLEAN
  /\ pc \in Stage /\ run \in Kind \cup {None}
  /\ cap \in Cap \cup {0} /\ page \in Nat \ {0} /\ retried \in BOOLEAN
  /\ fetched \subseteq Record /\ complete \in BOOLEAN /\ total \in Nat
  /\ records \subseteq Record /\ collected \in BOOLEAN
  /\ diff \in DiffResult
  /\ changes \in 0..MaxChanges /\ scans \in 0..MaxScans
  /\ ever \subseteq Reg /\ present \subseteq Reg
  /\ blemish \subseteq Blemish
  /\ arrivals \in Nat /\ saved \in BOOLEAN /\ owed \in BOOLEAN
  /\ credit \in Int

\* However the pages overlap and however often partial lists are laid over old
\* ones, a snapshot holds each registration once.
OneRecordEach(R) == \A a, b \in R : a.who = b.who => a = b
SnapshotHasNoDoubles == OneRecordEach(snapshot)

\* The diff of a scan says which registrations appeared, went and changed their
\* status between the two snapshots, although the code recognises them by a
\* number they may have been given in between.
DiffIsExact ==
  pc = "save" /\ snapshot # {} =>
    /\ Who(diff.added) = Who(records) \ Who(snapshot)
    /\ Who(diff.removed) = Who(snapshot) \ Who(records)
    /\ Who(diff.changed) =
         {w \in Who(records) \cap Who(snapshot) :
            \E p \in snapshot, c \in records : p.who = w /\ c.who = w /\ p.st # c.st}

\* The platform answered every page in full and took nobody off its list.
Undisturbed == blemish \cap {"degraded", "withdrawal"} = {}

\* A numbered registration that was on the platform all through the fetch is
\* not reported as gone: not after a failed page, a cap or overlapping pages
\* (README: no false removals).  Degraded answers and withdrawals, which shift
\* the pages, are beyond the code, and so is a whole page of arrivals.
RemovedAreGone ==
  /\ pc = "save"
  /\ Undisturbed
  /\ arrivals < PageSize
  => \A p \in diff.removed : p.numbered => p.who \notin present

\* Whatever the platform answers, a partial fetch reports no numbered
\* registration as gone and loses none from the snapshot.
PartialKeepsNumbered ==
  pc = "save" /\ ~complete =>
    /\ \A p \in diff.removed : ~p.numbered
    /\ \A p \in snapshot : p.numbered => p.who \in Who(records)

\* A fetch that calls itself complete is a copy of a platform that stood still.
CompleteMeansAll ==
  pc = "save" /\ complete /\ blemish = {} => records = Rows(platform)

\* A complete fetch less than half as large as the previous snapshot replaces it only if
\* the server's own total says so, or for one force_save flag each.
ShrinkNeedsConsent ==
  [][snapshot' # snapshot /\ NeedsForce(snapshot') => credit > 0]_vars

\* Once the snapshot is saved nothing that fails afterwards makes the account's
\* recorded outcome an error (main.py: a failed event write must not flip it).
SavedIsNotAnError ==
  [][saved' /\ outcome' # outcome
       => outcome' \in {IF complete THEN "ok" ELSE "partial", "timeout"}]_vars

\* A run that was not stopped and has not given the account up announces every
\* change of the snapshot it saved: later runs will not see it any more.
ChangesAreAnnounced ==
  pc = "finish" /\ owed => stop \/ "abandoned" \in blemish

\* README: the merge with the previous snapshot lets no failed page produce a
\* false removal.
PartialRemovesNothing ==
  pc = "save" /\ ~complete /\ blemish = {} =>
    \A p \in diff.removed : p.who \notin present

\* The inductive invariant.  Nobody appears twice in a list, and everyone in one
\* has been on the platform; a number once seen is kept; a flag on disk or in
\* hand is credited; the diff in hand is that of the list in hand; what is owed
\* is still on its way, or was stopped or given up; and the list is what the
\* pages asked for so far held.
NamedOnce ==
  /\ NoTwice(platform)
  /\ OneRecordEach(snapshot) /\ OneRecordEach(fetched) /\ OneRecordEach(records)
  /\ Who(Rows(platform)) \cup Who(snapshot) \cup Who(fetched) \cup Who(records) \subseteq ever

Keeps(P, Q) == \A p \in P, q \in Q : p.who = q.who /\ p.numbered => q.numbered
NumbersStay ==
  /\ Keeps(snapshot \cup fetched \cup records, Rows(platform))
  /\ Keeps(snapshot, fetched)

ForceIsCredited ==
  credit = (IF force THEN 1 ELSE 0)
           + (IF pc = "save" /\ NeedsForce(records) THEN 1 ELSE 0)

InHand ==
  /\ pc # "save" => records = {}
  /\ pc \notin {"fetch", "judge"} => fetched = {}
  /\ pc = "save" =>
       /\ diff = Diff(records, snapshot)
       /\ ~complete => \E F \in SUBSET Record : records = Merge(snapshot, F)

Announced ==
  /\ saved => pc \in {"record", "notify", "event", "sync", "batch", "finish"}
  /\ owed => saved
  /\ owed /\ pc \in {"record", "notify", "event", "sync"} => HasChanges(diff)
  /\ owed /\ pc \in {"event", "sync"} => run = "round"
  /\ owed /\ pc = "batch" /\ collected => HasChanges(diff)
  /\ owed /\ (pc = "finish" \/ (pc = "batch" /\ ~collected))
       => stop \/ "abandoned" \in blemish
  /\ pc # "idle" => run \in Kind
  /\ collected => pc \in {"batch", "finish"}
  /\ pc = "notify" => run = "single"
  /\ pc = "batch" => run = "round"

\* As far as the pages reach nobody is missing, and arrivals can have pushed
\* what was fetched only that far behind them.
PagesSeen ==
  Fetching /\ Undisturbed =>
    \A i \in 1..Len(platform) :
      /\ i <= (page - 1) * PageSize /\ platform[i].who \in present
           => platform[i].who \in Who(fetched)
      /\ platform[i].who \in Who(fetched) => i <= (page - 1) * PageSize + arrivals

\* Whom the scan may expect to find.
Expected ==
  pc \in {"fetch", "judge", "save"} =>
    /\ present \subseteq Who(Rows(platform))
    /\ blemish = {} =>
         /\ arrivals = 0
         /\ present = Who(Rows(platform))
         /\ Fetching => fetched \subseteq Rows(platform)

\* The list R of a fetch that came to its end misses nobody.
Whole(R) ==
  /\ Undisturbed /\ arrivals < PageSize => present \subseteq Who(R)
  /\ blemish = {} => R = Rows(platform)
CompleteIsWhole ==
  /\ pc = "judge" /\ complete => Whole(fetched)
  /\ pc = "save" /\ complete => Whole(records)

IInv ==
  /\ TypeOK /\ NamedOnce /\ NumbersStay /\ ForceIsCredited /\ InHand /\ Announced
  /\ PagesSeen /\ Expected /\ CompleteIsWhole
=============================================================================
