---------------------------- MODULE AccountLogin ----------------------------
(***************************************************************************)
(* One platform account: its password in accounts.enc, its cached token    *)
(* under data/sessions/, its entry in accounts_status.json (the lockout    *)
(* streak), and everyone who touches them at the same time: the handlers   *)
(* of the console's event loop, their background verifies, the thread of   *)
(* delete_account and the scans of this or another process                 *)
(* (src/status_store.py, src/login.py, src/main.py,                        *)
(* web/routes/accounts.py).                                                *)
(*                                                                         *)
(* A token is the password it was minted with; one that looks expired is   *)
(* None, because nothing tells the two apart.  A login is answered by the  *)
(* platform at some later moment.  Accounts do not share any of this, so   *)
(* one is enough.                                                          *)
(***************************************************************************)
EXTENDS Naturals

CONSTANTS Password,    \* what may be stored here or accepted there
          Verify,      \* background verifies the console has in flight
          Scan,        \* scans of the account
          MaxFailures, \* login.max_consecutive_failures, 0: never pause
          MaxStreak,   \* bound: the streak is not counted beyond it
          MaxGen,      \* bound: no handler starts once this generation is reached
          MayOverlap,  \* whether a worker may have been abandoned by its run
          DiskMayFail, \* whether a write may raise OSError
          MayRestart,  \* whether the console may be restarted
          None

ASSUME NoneAssumption == None \notin Password
ASSUME BoundAssumption ==
  /\ MaxFailures \in Nat /\ MaxStreak \in Nat /\ MaxGen \in Nat
  /\ MaxFailures <= MaxStreak

VARIABLES
  platform, \* the password the platform accepts
  stored,   \* accounts.enc: the password of the account, None: not held
  session,  \* data/sessions/<account>.json
  streak,   \* accounts_status.json: consecutive_login_failures, 0 without entry
  paused,   \* ... login_paused, FALSE without entry
  gen,      \* _verify_seq[username]
  handler,  \* where the async handler on the event loop is
  inHand,   \* the password that handler will have verified
  deleting, \* where the thread of delete_account is
  verify,   \* verify[j]: one _verify_async
  scan      \* scan[s]: one scan_account_and_notify

statusVars == <<streak, paused>>
webVars == <<gen, handler, inHand, deleting>>
vars == <<platform, stored, session, statusVars, webVars, verify, scan>>

Answer == {"accepted", "rejected", "unavailable"}
VerifyRecord ==
  [at : {"idle", "asking", "answered", "passed", "cached"},
   pw : Password \cup {None}, seq : Nat, answer : Answer]
ScanRecord ==
  [at : {"idle", "start", "password", "token", "asking", "rejected", "minted",
         "hit", "got", "fetch", "sync"},
   kind : {"round", "single"}, part : {"login", "fetch", "sync"},
   ram : Password \cup {None}, pw : Password \cup {None},
   force : BOOLEAN, fresh : BOOLEAN]

NoVerify == [at |-> "idle", pw |-> None, seq |-> 0, answer |-> "unavailable"]
NoScan == [at |-> "idle", kind |-> "round", part |-> "login", ram |-> None,
           pw |-> None, force |-> FALSE, fresh |-> FALSE]

Init ==
  /\ platform \in Password
  /\ stored \in Password \cup {None}
  /\ session = None
  /\ streak = 0 /\ paused = FALSE
  /\ gen = 0
  /\ handler = "none" /\ inHand = None /\ deleting = "none"
  /\ verify = [j \in Verify |-> NoVerify]
  /\ scan = [s \in Scan |-> NoScan]

-----------------------------------------------------------------------------
(* src/status_store.py: every write is a read-modify-write under a lock    *)
(* between processes, and none of them raises.                             *)

Persist(n, p) ==
  \/ streak' = n /\ paused' = p
  \/ DiskMayFail /\ UNCHANGED statusVars

\* record_login(ok=True)
RecordOk == Persist(0, FALSE)

\* Mutant: the pause is decided on the streak as it was before this failure.
RecordFailLate ==
  LET n == IF streak < MaxStreak THEN streak + 1 ELSE streak
  IN Persist(n, paused \/ (MaxFailures > 0 /\ streak >= MaxFailures))

\* record_login(ok=False)
RecordFail ==
  LET n == IF streak < MaxStreak THEN streak + 1 ELSE streak
  IN Persist(n, paused \/ (MaxFailures > 0 /\ n >= MaxFailures))

-----------------------------------------------------------------------------
(* The console's event loop.  A handler without an await keeps the loop    *)
(* until it returns; scans and delete_account run beside it.               *)

LoopFree == handler = "none" /\ \A j \in Verify : verify[j].at \notin {"passed", "cached"}

Startable == gen < MaxGen /\ \E j \in Verify : verify[j].at = "idle"

Handle(to, pw) == handler' = to /\ inHand' = pw

\* add_account_core saves the new account ...
AddAccount(pw) ==
  /\ LoopFree /\ Startable
  /\ stored = None
  /\ stored' = pw
  /\ Handle("spawn", pw)
  /\ UNCHANGED <<platform, session, statusVars, gen, deleting, verify, scan>>

\* relogin reads the stored password ...
Relogin ==
  /\ LoopFree /\ Startable
  /\ stored # None
  /\ Handle("spawn", stored)
  /\ UNCHANGED <<platform, stored, session, statusVars, gen, deleting, verify, scan>>

\* edit_account with a new password: save, drop the token, reset the streak ...
EditSave(pw) ==
  /\ LoopFree /\ Startable
  /\ stored # None
  /\ stored' = pw
  /\ Handle("saved", pw)
  /\ UNCHANGED <<platform, session, statusVars, gen, deleting, verify, scan>>

EditUnlink ==
  /\ handler = "saved"
  /\ session' = None
  /\ Handle("unlinked", inHand)
  /\ UNCHANGED <<platform, stored, statusVars, gen, deleting, verify, scan>>

\* Mutant: the new password starts with a clean streak but stays paused.
EditResetKeepsPause ==
  /\ handler = "unlinked"
  /\ Persist(0, paused)
  /\ Handle("reset", inHand)
  /\ UNCHANGED <<platform, stored, session, gen, deleting, verify, scan>>

\* record_password_changed
EditReset ==
  /\ handler = "unlinked"
  /\ Persist(0, FALSE)
  /\ Handle("reset", inHand)
  /\ UNCHANGED <<platform, stored, session, gen, deleting, verify, scan>>

\* Mutant: the spawned verify does not get a generation of its own.
SpawnSameGeneration(j) ==
  /\ handler \in {"spawn", "reset"}
  /\ verify[j].at = "idle"
  /\ verify' = [verify EXCEPT ![j] =
                  [at |-> "asking", pw |-> inHand, seq |-> gen, answer |-> "unavailable"]]
  /\ Handle("none", None)
  /\ UNCHANGED <<platform, stored, session, statusVars, gen, deleting, scan>>

\* ... and each of the three ends by spawning a verify of a new generation.
Spawn(j) ==
  /\ handler \in {"spawn", "reset"}
  /\ verify[j].at = "idle"
  /\ gen' = gen + 1
  /\ verify' = [verify EXCEPT ![j] =
                  [at |-> "asking", pw |-> inHand, seq |-> gen + 1, answer |-> "unavailable"]]
  /\ Handle("none", None)
  /\ UNCHANGED <<platform, stored, session, statusVars, deleting, scan>>

\* An edit whose caller has no login left in this window: the generation
\* moves on all the same.
SpawnRefused ==
  /\ handler = "reset"
  /\ gen' = gen + 1
  /\ Handle("none", None)
  /\ UNCHANGED <<platform, stored, session, statusVars, deleting, verify, scan>>

\* The platform's answer to a login with pw; "unavailable" is everything that
\* is not about the password (network, captcha, throttling, browser).
Answers(pw) == {"unavailable", IF pw = platform THEN "accepted" ELSE "rejected"}

\* verify_credentials, in a thread of the verify executor.
VerifyAnswer(j) ==
  /\ verify[j].at = "asking"
  /\ \E a \in Answers(verify[j].pw) :
       verify' = [verify EXCEPT ![j].at = "answered", ![j].answer = a]
  /\ UNCHANGED <<platform, stored, session, statusVars, webVars, scan>>

\* Mutant: the outcome is used whatever happened meanwhile.
VerifyCheckNothing(j) ==
  /\ LoopFree
  /\ verify[j].at = "answered"
  /\ verify[j].answer # "unavailable"
  /\ verify' = [verify EXCEPT ![j].at = "passed"]
  /\ UNCHANGED <<platform, stored, session, statusVars, webVars, scan>>

\* _verify_async continues on the loop: is it still the current generation?
VerifyCheck(j) ==
  /\ LoopFree
  /\ verify[j].at = "answered"
  /\ verify' = [verify EXCEPT ![j] =
       IF verify[j].seq = gen /\ verify[j].answer # "unavailable"
       THEN [verify[j] EXCEPT !.at = "passed"] ELSE NoVerify]
  /\ UNCHANGED <<platform, stored, session, statusVars, webVars, scan>>

\* _save_token; an OSError ends the coroutine.
VerifyCache(j) ==
  /\ verify[j].at = "passed"
  /\ verify[j].answer = "accepted"
  /\ \/ /\ session' = verify[j].pw
        /\ verify' = [verify EXCEPT ![j].at = "cached"]
     \/ /\ DiskMayFail
        /\ verify' = [verify EXCEPT ![j] = NoVerify]
        /\ UNCHANGED session
  /\ UNCHANGED <<platform, stored, statusVars, webVars, scan>>

VerifyAccepted(j) ==
  /\ verify[j].at = "cached"
  /\ RecordOk
  /\ verify' = [verify EXCEPT ![j] = NoVerify]
  /\ UNCHANGED <<platform, stored, session, gen, handler, inHand, deleting, scan>>

VerifyRejected(j) ==
  /\ verify[j].at = "passed"
  /\ verify[j].answer = "rejected"
  /\ RecordFail
  /\ verify' = [verify EXCEPT ![j] = NoVerify]
  /\ UNCHANGED <<platform, stored, session, gen, handler, inHand, deleting, scan>>

-----------------------------------------------------------------------------
(* delete_account is a plain function: it runs in a thread of its own.     *)

DeleteSave ==
  /\ deleting = "none"
  /\ gen < MaxGen
  /\ stored # None
  /\ stored' = None
  /\ deleting' = "saved"
  /\ UNCHANGED <<platform, session, statusVars, gen, handler, inHand, verify, scan>>

\* forget_account
DeleteForget ==
  /\ deleting = "saved"
  /\ Persist(0, FALSE)
  /\ deleting' = "forgotten"
  /\ UNCHANGED <<platform, stored, session, gen, handler, inHand, verify, scan>>

DeleteBump ==
  /\ deleting = "forgotten"
  /\ gen' = gen + 1
  /\ deleting' = "bumped"
  /\ UNCHANGED <<platform, stored, session, statusVars, handler, inHand, verify, scan>>

DeleteUnlink ==
  /\ deleting = "bumped"
  /\ session' = None
  /\ deleting' = "none"
  /\ UNCHANGED <<platform, stored, statusVars, gen, handler, inHand, verify, scan>>

-----------------------------------------------------------------------------
(* scan_account_and_notify, as far as it logs in; what a scan will not     *)
(* read again goes back to its first value.                                *)

ScanFrame == UNCHANGED <<platform, stored, webVars, verify>>
SetScan(s, r) == scan' = [scan EXCEPT ![s] = r]

\* A run has loaded the accounts (the run lock admits one run at a time, but
\* the workers it abandoned are still there).
StartScan(s) ==
  /\ scan[s].at = "idle"
  /\ stored # None
  /\ MayOverlap \/ \A t \in Scan : scan[t].at = "idle"
  /\ \E k \in {"round", "single"}, f \in BOOLEAN :
       /\ f => k = "round"
       /\ SetScan(s, [at |-> "start", kind |-> k, part |-> "login", ram |-> stored,
                      pw |-> None, force |-> f, fresh |-> FALSE])
  /\ UNCHANGED <<session, statusVars>> /\ ScanFrame

\* A paused account is skipped by a round; then: will this be a real login?
CheckPause(s) ==
  /\ scan[s].at = "start"
  /\ IF scan[s].kind = "round" /\ paused
     THEN SetScan(s, NoScan)
     ELSE SetScan(s, [scan[s] EXCEPT !.at = "password", !.kind = "single",
                                     !.fresh = scan[s].force \/ session = None])
  /\ UNCHANGED <<session, statusVars>> /\ ScanFrame

\* _current_password: the stored one, or the copy of a deleted account.
CurrentPassword(s) ==
  /\ scan[s].at = "password"
  /\ SetScan(s, [scan[s] EXCEPT !.at = "token",
                                !.pw = IF stored # None THEN stored ELSE scan[s].ram])
  /\ UNCHANGED <<session, statusVars>> /\ ScanFrame

\* get_token: the cached one unless a refresh is forced.
GetToken(s) ==
  /\ scan[s].at = "token"
  /\ SetScan(s, [scan[s] EXCEPT !.force = FALSE,
                   !.at = IF ~scan[s].force /\ session # None THEN "hit" ELSE "asking"])
  /\ UNCHANGED <<session, statusVars>> /\ ScanFrame

\* _fresh_login.  What goes wrong while attachments are synchronised is
\* logged and nothing else; otherwise a rejection counts and the rest does not.
LoginAnswer(s) ==
  /\ scan[s].at = "asking"
  /\ \E a \in Answers(scan[s].pw) :
       SetScan(s, IF a = "accepted" THEN [scan[s] EXCEPT !.at = "minted"]
                  ELSE IF a = "rejected" /\ scan[s].part # "sync"
                  THEN [scan[s] EXCEPT !.at = "rejected"]
                  ELSE NoScan)
  /\ UNCHANGED <<session, statusVars>> /\ ScanFrame

\* _record_login_failure
LoginRejected(s) ==
  /\ scan[s].at = "rejected"
  /\ RecordFail
  /\ SetScan(s, NoScan)
  /\ UNCHANGED session /\ ScanFrame

\* _save_token
CacheToken(s) ==
  /\ scan[s].at = "minted"
  /\ session' = scan[s].pw
  /\ SetScan(s, [scan[s] EXCEPT !.at = "got"])
  /\ UNCHANGED statusVars /\ ScanFrame

\* record_login(ok=True) unless the token was expected to be a cached one.
LoginSucceeded(s) ==
  /\ scan[s].at \in {"hit", "got"}
  /\ IF scan[s].fresh THEN RecordOk ELSE UNCHANGED statusVars
  /\ SetScan(s, [scan[s] EXCEPT !.at = IF scan[s].part = "sync" THEN "sync" ELSE "fetch",
                                 !.pw = None, !.force = FALSE, !.fresh = FALSE])
  /\ UNCHANGED session /\ ScanFrame

\* forget_cached_token, which swallows an OSError, and a login with
\* force_refresh=True
LoginAgain(s, part) ==
  /\ \/ session' = None
     \/ DiskMayFail /\ UNCHANGED session
  /\ SetScan(s, [scan[s] EXCEPT !.at = "password", !.part = part,
                                !.force = TRUE, !.fresh = TRUE])

\* fetch_all_records: done, refused once with a 401, or failed.
Fetch(s) ==
  /\ scan[s].at = "fetch"
  /\ \/ /\ \E r \in {NoScan, [scan[s] EXCEPT !.at = "sync"]} : SetScan(s, r)
        /\ UNCHANGED session
     \/ /\ scan[s].part = "login"
        /\ LoginAgain(s, "fetch")
  /\ UNCHANGED statusVars /\ ScanFrame

\* sync_attachments: over, or refused once with a 401.
SyncAttachments(s) ==
  /\ scan[s].at = "sync"
  /\ \/ /\ SetScan(s, NoScan)
        /\ UNCHANGED session
     \/ /\ scan[s].part # "sync"
        /\ LoginAgain(s, "sync")
  /\ UNCHANGED statusVars /\ ScanFrame

\* The run is cancelled at a checkpoint, or its process dies.
ScanEnds(s) ==
  /\ scan[s].at # "idle"
  /\ SetScan(s, NoScan)
  /\ UNCHANGED <<session, statusVars>> /\ ScanFrame

-----------------------------------------------------------------------------
(* Outside *)

\* The client changes the password at the platform.
PlatformChanges ==
  /\ platform' \in Password \ {platform}
  /\ UNCHANGED <<stored, session, statusVars, webVars, verify, scan>>

TokenExpires ==
  /\ session # None
  /\ session' = None
  /\ UNCHANGED <<platform, stored, statusVars, webVars, verify, scan>>

\* The console is restarted: generations, tasks and verifies are in memory.
WebDies ==
  /\ MayRestart
  /\ gen' = 0 /\ deleting' = "none"
  /\ Handle("none", None)
  /\ verify' = [j \in Verify |-> NoVerify]
  /\ UNCHANGED <<platform, stored, session, statusVars, scan>>

LoopStep ==
  \/ \E pw \in Password : AddAccount(pw) \/ EditSave(pw)
  \/ Relogin \/ EditUnlink \/ EditReset \/ SpawnRefused
  \/ \E j \in Verify : Spawn(j)

VerifyStep(j) ==
  VerifyAnswer(j) \/ VerifyCheck(j) \/ VerifyCache(j) \/ VerifyAccepted(j) \/ VerifyRejected(j)

DeleteStep == DeleteSave \/ DeleteForget \/ DeleteBump \/ DeleteUnlink

ScanStep(s) ==
  \/ StartScan(s) \/ CheckPause(s) \/ CurrentPassword(s) \/ GetToken(s)
  \/ LoginAnswer(s) \/ LoginRejected(s) \/ CacheToken(s) \/ LoginSucceeded(s)
  \/ Fetch(s) \/ SyncAttachments(s) \/ ScanEnds(s)

Next ==
  \/ LoopStep
  \/ \E j \in Verify : VerifyStep(j)
  \/ DeleteStep
  \/ \E s \in Scan : ScanStep(s)
  \/ PlatformChanges \/ TokenExpires \/ WebDies

Spec == Init /\ [][Next]_vars

-----------------------------------------------------------------------------
(* Safety *)

\* Every variable keeps its type; a generation goes past its bound only by
\* the handlers that were under way when it was reached.
TypeOK ==
  /\ platform \in Password
  /\ stored \in Password \cup {None}
  /\ session \in Password \cup {None}
  /\ streak \in 0..MaxStreak /\ paused \in BOOLEAN
  /\ gen \in Nat
  /\ handler \in {"none", "spawn", "saved", "unlinked", "reset"}
  /\ inHand \in Password \cup {None}
  /\ deleting \in {"none", "saved", "forgotten", "bumped"}
  /\ verify \in [Verify -> VerifyRecord]
  /\ scan \in [Scan -> ScanRecord]

\* A verify that has passed the generation check caches its token and counts
\* its rejection for the password that is stored: one that was edited, or
\* deleted and added again, meanwhile has been discarded (_verify_seq).
ReportsOnStoredPassword ==
  \A j \in Verify :
    verify[j].at \in {"passed", "cached"} /\ stored # None => verify[j].pw = stored

\* Scheduled scans skip the account exactly while max_consecutive_failures
\* rejections stand against it, whoever counted, reset or forgot them
\* (status_store.record_login and its peers).
PauseMatchesStreak == paused <=> MaxFailures > 0 /\ streak >= MaxFailures

\* The inductive invariant: generations only grow while their verifies are in
\* flight, the handler on the loop holds the stored password, and a verify of
\* the current generation is about it.
GenerationsGrow == \A j \in Verify : verify[j].at # "idle" => verify[j].seq <= gen

HandlerHoldsStored == handler # "none" /\ stored # None => inHand = stored

CurrentIsAboutStored ==
  \A j \in Verify :
    verify[j].at # "idle" /\ verify[j].seq = gen /\ handler = "none" /\ stored # None
      => verify[j].pw = stored

IInv ==
  /\ TypeOK
  /\ GenerationsGrow
  /\ HandlerHoldsStored
  /\ CurrentIsAboutStored
  /\ ReportsOnStoredPassword
  /\ PauseMatchesStreak
=============================================================================
