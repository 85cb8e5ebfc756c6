---------------------------- MODULE SettingsFile ----------------------------
(***************************************************************************)
(* config/settings.yaml, its readers and its writers.  The console's       *)
(* threads read it through a cache keyed on (mtime, size), kept by         *)
(* src/settings_cache.py; the console saves one section at a time as a     *)
(* strict read-modify-write under a lock (web/services/settings_svc.py);   *)
(* someone with a shell replaces the file under everybody; and the daemon  *)
(* polls it once a minute for a new schedule (run_daemon.py).              *)
(*                                                                         *)
(* A version of the file is its position in "hist".  A reader is judged by *)
(* the version it returns, so the parsed data is left out; only the two    *)
(* sections that a save and the schedule watch tell apart are kept, and a  *)
(* missing file counts as one that sets nothing.                           *)
(* "style" tells the caches apart: "bracketed" is the stat-read-stat loop  *)
(* of settings.yaml and accounts.enc, "single" the stat-read of the users  *)
(* file, the account status, the disk figures and the snapshots.           *)
(***************************************************************************)
EXTENDS Integers, Sequences, FiniteSets

CONSTANTS Threads,      \* the console's threads: each reads or saves, one at a time
          Plans,        \* schedules with at least one valid expression
          Default,      \* the plan that applies when none is configured
          Sizes,        \* file sizes in bytes, as far as they are told apart
          HandContents, \* what someone with a shell may leave in the file
          Attempts,     \* _MAX_READ_ATTEMPTS
          MaxVersions, MaxTick, MaxDeaths   \* bounds of the instance

ASSUME PlansAssumption == Default \in Plans /\ {"unset", "invalid"} \cap Plans = {}
ASSUME SizesAssumption == Sizes # {}
ASSUME BoundsAssumption == /\ Attempts \in Nat \ {0}
                           /\ MaxVersions \in Nat \ {0}
                           /\ MaxTick \in Nat /\ MaxDeaths \in Nat

VARIABLES hist,     \* every version the file has had, the current one last
          tick,     \* the clock of the file system, at its granularity
          style,    \* how the cache reads: bracketed or single
          cache,    \* what the cache holds: {} or one [key, ver]
          reader,   \* the threads inside a cached read
          editor,   \* the requests inside a save
          lock,     \* the editor that holds _LOCK: at most one
          watch,    \* the daemon: its program counter, its key, its plan
          deaths    \* how often the daemon was restarted

vars == <<hist, tick, style, cache, reader, editor, lock, watch, deaths>>

-----------------------------------------------------------------------------
Stamp == (0..MaxTick) \X Sizes
Content == [ok : BOOLEAN, schedule : Plans \cup {"unset", "invalid"}, login : BOOLEAN]
Broken == [ok |-> FALSE, schedule |-> "unset", login |-> FALSE]
Contents == {c \in Content : c.ok \/ c = Broken}
Version == 1..MaxVersions

Now == Len(hist)
Current == hist[Now]
KeyOf(n) == hist[n].key

\* Two versions bear the key: mtime and size of the file cannot tell them apart.
Twin(key) == \E m, n \in 1..Now : m # n /\ KeyOf(m) = key /\ KeyOf(n) = key

\* The plan a readable file asks for: none configured means the default.
Configured(c) == IF c.schedule = "unset" THEN Default ELSE c.schedule

ASSUME HandAssumption == HandContents \subseteq Contents /\ HandContents # {}

NoReader == [pc |-> "idle", key |-> <<>>, ver |-> 0, tries |-> 0, from |-> 0]
NoEditor == [pc |-> "idle", section |-> "login", base |-> 0]
DaemonDown == [pc |-> "down", key |-> <<>>, plan |-> Default]
Done(ver, from) == [pc |-> "done", key |-> <<>>, ver |-> ver, tries |-> 0, from |-> from]

Init ==
  /\ \E c \in HandContents, s \in Sizes : hist = <<[key |-> <<0, s>>, content |-> c, by |-> "hand"]>>
  /\ tick = 0
  /\ style \in {"bracketed", "single"}
  /\ cache = {}
  /\ \E off \in SUBSET Threads :          \* those that make no cached read
       reader = [r \in Threads |-> IF r \in off THEN [NoReader EXCEPT !.pc = "absent"] ELSE NoReader]
  /\ editor = [e \in Threads |-> NoEditor]
  /\ lock = {}
  /\ watch \in {DaemonDown, [DaemonDown EXCEPT !.pc = "off"]}   \* is there a daemon at all
  /\ deaths = 0

\* The file is replaced as a whole and gets the time of the moment.
Replace(c, by) ==
  /\ Now < MaxVersions
  /\ \E s \in Sizes : hist' = Append(hist, [key |-> <<tick, s>>, content |-> c, by |-> by])

Tick == /\ tick < MaxTick
        /\ tick' = tick + 1
        /\ UNCHANGED <<hist, style, cache, reader, editor, lock, watch, deaths>>

HandEdit == /\ \E c \in HandContents : Replace(c, "hand")
            /\ UNCHANGED <<tick, style, cache, reader, editor, lock, watch, deaths>>

-----------------------------------------------------------------------------
\* get_settings, load_accounts, and the single-read caches.

Hit(key) == \E c \in cache : c.key = key

Stat(r) ==
  /\ reader[r].pc = "idle" /\ editor[r].pc = "idle"
  /\ reader' = [reader EXCEPT ![r] =
       IF Hit(Current.key)
       THEN Done((CHOOSE c \in cache : TRUE).ver, Now)
       ELSE [pc |-> "read", key |-> Current.key, ver |-> 0, tries |-> 0, from |-> Now]]
  /\ UNCHANGED <<hist, tick, style, cache, editor, lock, watch, deaths>>

ReadText(r) ==
  /\ reader[r].pc = "read"
  /\ reader' = [reader EXCEPT ![r] =
       IF style = "bracketed" THEN [@ EXCEPT !.pc = "check", !.ver = Now, !.tries = reader[r].tries + 1]
       ELSE [@ EXCEPT !.pc = "store", !.ver = Now]]
  /\ UNCHANGED <<hist, tick, style, cache, editor, lock, watch, deaths>>

\* The second stat: the same key as before the read, and the text may be kept.
CheckAcceptsNewKey(r) ==
  /\ reader[r].pc = "check"
  /\ reader' = [reader EXCEPT ![r].key = Current.key, ![r].pc = "store"]
  /\ UNCHANGED <<hist, tick, style, cache, editor, lock, watch, deaths>>
Check(r) ==
  /\ reader[r].pc = "check"
  /\ reader' = [reader EXCEPT ![r] =
       IF Current.key = reader[r].key THEN [@ EXCEPT !.pc = "store", !.tries = 0]
       ELSE IF reader[r].tries = Attempts THEN Done(reader[r].ver, reader[r].from)
       ELSE [@ EXCEPT !.pc = "read", !.key = Current.key]]
  /\ UNCHANGED <<hist, tick, style, cache, editor, lock, watch, deaths>>

Store(r) ==
  /\ reader[r].pc = "store"
  /\ cache' = {[key |-> reader[r].key, ver |-> reader[r].ver]}
  /\ reader' = [reader EXCEPT ![r] = Done(reader[r].ver, reader[r].from)]
  /\ UNCHANGED <<hist, tick, style, editor, lock, watch, deaths>>

Return(r) ==
  /\ reader[r].pc = "done"
  /\ reader' = [reader EXCEPT ![r] = NoReader]
  /\ UNCHANGED <<hist, tick, style, cache, editor, lock, watch, deaths>>

-----------------------------------------------------------------------------
\* A save of the console: with editing() as data: ... save_settings(data).

EnterWithoutLock(e) ==
  /\ reader[e].pc \in {"idle", "absent"} /\ editor[e].pc = "idle"
  /\ lock' = {e}
  /\ \E s \in {"schedule", "login"} : editor' = [editor EXCEPT ![e] = [NoEditor EXCEPT !.pc = "read", !.section = s]]
  /\ UNCHANGED <<hist, tick, style, cache, reader, watch, deaths>>
Enter(e) ==
  /\ lock = {}
  /\ reader[e].pc \in {"idle", "absent"} /\ editor[e].pc = "idle"
  /\ lock' = {e}
  /\ \E s \in {"schedule", "login"} : editor' = [editor EXCEPT ![e] = [NoEditor EXCEPT !.pc = "read", !.section = s]]
  /\ UNCHANGED <<hist, tick, style, cache, reader, watch, deaths>>

\* load_for_update: a file that cannot be parsed is refused, never replaced.
StrictRead(e) ==
  /\ editor[e].pc = "read"
  /\ IF Current.content.ok
     THEN /\ editor' = [editor EXCEPT ![e].pc = "write", ![e].base = Now]
          /\ UNCHANGED lock
     ELSE /\ editor' = [editor EXCEPT ![e] = NoEditor]
          /\ lock' = lock \ {e}
  /\ UNCHANGED <<hist, tick, style, cache, reader, watch, deaths>>

\* The whole document goes back with one section changed: the schedule form
\* sends valid expressions only, the other forms (login, thresholds, notify)
\* whatever their own section may hold.
ScheduleForm(c, base) == c.schedule \in Plans /\ c.login = base.login
OtherForm(c, base) == c.schedule = base.schedule
Saved(e) == {c \in Contents :
              /\ c.ok
              /\ editor[e].section = "schedule" => ScheduleForm(c, hist[editor[e].base].content)
              /\ editor[e].section = "login" => OtherForm(c, hist[editor[e].base].content)}

Save(e) ==
  /\ editor[e].pc = "write"
  /\ \E c \in Saved(e) : Replace(c, "console")
  /\ editor' = [editor EXCEPT ![e].pc = "invalidate"]
  /\ UNCHANGED <<tick, style, cache, reader, lock, watch, deaths>>

\* The write failed, or the form was refused for what it lacks when merged with
\* what is stored: nothing changed, and nothing is invalidated.
SaveFails(e) ==
  /\ editor[e].pc = "write"
  /\ editor' = [editor EXCEPT ![e] = NoEditor]
  /\ lock' = lock \ {e}
  /\ UNCHANGED <<hist, tick, style, cache, reader, watch, deaths>>

Invalidate(e) ==
  /\ editor[e].pc = "invalidate"
  /\ cache' = {}
  /\ editor' = [editor EXCEPT ![e] = NoEditor]
  /\ lock' = lock \ {e}
  /\ UNCHANGED <<hist, tick, style, reader, watch, deaths>>

-----------------------------------------------------------------------------
\* The daemon: main() and _ScheduleWatch.

\* The key is taken before the file is read, so that an edit in between shows.
StartStat == /\ watch.pc = "down"
             /\ watch' = [watch EXCEPT !.pc = "load", !.key = Current.key]
             /\ UNCHANGED <<hist, tick, style, cache, reader, editor, lock, deaths>>

\* _load_crons and _valid: what cannot be read or holds nothing valid starts
\* the daemon on the default plan.  --cron pins the plan and adds no watch.
Start ==
  /\ watch.pc = "load"
  /\ \/ watch' = [watch EXCEPT !.pc = "idle", !.plan =
                    IF Current.content.ok /\ Configured(Current.content) \in Plans
                    THEN Configured(Current.content) ELSE Default]
     \/ \E p \in Plans : watch' = [watch EXCEPT !.pc = "pinned", !.plan = p]
  /\ UNCHANGED <<hist, tick, style, cache, reader, editor, lock, deaths>>

WatchStatBySize ==
  /\ watch.pc = "idle"
  /\ Current.key[2] # watch.key[2]
  /\ watch' = [watch EXCEPT !.pc = "look", !.key = Current.key]
  /\ UNCHANGED <<hist, tick, style, cache, reader, editor, lock, deaths>>
WatchStat ==
  /\ watch.pc = "idle"
  /\ Current.key # watch.key
  /\ watch' = [watch EXCEPT !.pc = "look", !.key = Current.key]
  /\ UNCHANGED <<hist, tick, style, cache, reader, editor, lock, deaths>>

\* An unreadable file, or a list with nothing valid, keeps the running plan.
WatchRead ==
  /\ watch.pc = "look"
  /\ watch' = [watch EXCEPT !.pc = "idle", !.plan =
                 IF Current.content.ok /\ Configured(Current.content) \in Plans
                 THEN Configured(Current.content) ELSE @]
  /\ UNCHANGED <<hist, tick, style, cache, reader, editor, lock, deaths>>

Die == /\ watch.pc \notin {"down", "off"}
       /\ deaths < MaxDeaths
       /\ deaths' = deaths + 1
       /\ watch' = DaemonDown
       /\ UNCHANGED <<hist, tick, style, cache, reader, editor, lock>>

-----------------------------------------------------------------------------
ReaderStep(r) == Stat(r) \/ ReadText(r) \/ Check(r) \/ Store(r) \/ Return(r)
EditorStep(e) == Enter(e) \/ StrictRead(e) \/ Save(e) \/ SaveFails(e) \/ Invalidate(e)
WatchStep == StartStat \/ Start \/ WatchStat \/ WatchRead

Next == \/ Tick \/ HandEdit \/ WatchStep \/ Die
        \/ \E r \in Threads : ReaderStep(r)
        \/ \E e \in Threads : EditorStep(e)

Spec == Init /\ [][Next]_vars

\* systemd restarts the daemon and its scheduler fires the watch every minute.
FairSpec == Spec /\ WF_vars(WatchStep)

-----------------------------------------------------------------------------
Entry == [key : Stamp, content : Contents, by : {"hand", "console"}]
Reading == [pc : {"absent", "idle", "read", "check", "store", "done"}, key : Stamp \cup {<<>>},
            ver : Nat, tries : Nat, from : Nat]
Saving == [pc : {"idle", "read", "write", "invalidate"}, section : {"schedule", "login"}, base : Nat]
Watching == [pc : {"off", "down", "load", "idle", "look", "pinned"}, key : Stamp \cup {<<>>}, plan : Plans]

\* Every variable keeps its type.
TypeOK ==
  /\ hist \in Seq(Entry) /\ Now \in Version
  /\ tick \in 0..MaxTick
  /\ style \in {"bracketed", "single"}
  /\ cache \subseteq [key : Stamp, ver : Nat]
  /\ reader \in [Threads -> Reading]
  /\ editor \in [Threads -> Saving]
  /\ lock \subseteq Threads
  /\ watch \in Watching
  /\ deaths \in 0..MaxDeaths

\* The text of version "ver" is the latest the file had under the key, unless
\* the key is ambiguous.
Fits(key, ver) == /\ ver <= Now
                  /\ \E n \in 1..Now : KeyOf(n) = key
                  /\ \A n \in 1..Now : KeyOf(n) = key => n <= ver \/ Twin(key)

\* A reader's key was the file's at some moment of the call, before its text.
KeySeen(r) == \E m \in 1..Now :
                 /\ reader[r].from <= m
                 /\ KeyOf(m) = reader[r].key
                 /\ reader[r].pc # "read" => m <= reader[r].ver

ReaderOK(r) ==
  /\ reader[r].pc \in {"read", "check", "store", "done"} => reader[r].from \in 1..Now /\ reader[r].ver <= Now
  /\ reader[r].pc \in {"read", "check", "store"} => KeySeen(r)
  /\ reader[r].pc = "store" => Fits(reader[r].key, reader[r].ver)
  /\ reader[r].pc = "done" => reader[r].ver >= reader[r].from \/ Twin(KeyOf(reader[r].from))

CacheOK == \A c, d \in cache : Fits(c.key, c.ver) /\ c = d

\* What a save goes by: the lock, and a version that could be parsed, on which
\* no other save was built meanwhile.
EditorOK(e) ==
  /\ editor[e].pc # "idle" => e \in lock
  /\ editor[e].pc = "write" => /\ editor[e].base \in 1..Now
                               /\ hist[editor[e].base].content.ok
                               /\ \A n \in 1..Now : editor[e].base < n => hist[n].by = "hand"

\* The invariant behind the properties below: what lies in the cache, or is
\* about to be stored, is the latest text of its key, and one save at a time
\* stands between the read and the write of the file.
IInv ==
  /\ TypeOK
  /\ CacheOK
  /\ \A r \in Threads : ReaderOK(r)
  /\ \A e, f \in lock : e = f
  /\ \A e \in Threads : EditorOK(e)

\* A cached read never answers with a version older than the file was when
\* the read began, although the file is replaced between its stat, its text
\* and its second stat, unless mtime and size failed to tell two versions
\* apart.
ReadIsFresh == \A r \in Threads : reader[r].pc = "done" =>
                 reader[r].ver >= reader[r].from \/ Twin(KeyOf(reader[r].from))

\* A save of one section neither replaces a file it could not parse nor takes
\* back what another save of the console wrote meanwhile; only an edit by hand
\* between its read and its write can be lost.
SavesKeepTheRest ==
  [][\A e \in Threads :
       /\ editor[e].pc = "write" /\ editor'[e].pc = "invalidate"
       /\ \A n \in editor[e].base + 1..Now : hist[n].by = "console"
       => /\ Current.content.ok
          /\ editor[e].section = "schedule" => hist'[Now + 1].content.login = Current.content.login
          /\ editor[e].section = "login" => hist'[Now + 1].content.schedule = Current.content.schedule]_vars

\* The daemon comes to run the schedule a usable file asks for, unless the
\* file is replaced again, its stamp is ambiguous, or --cron pins another.
Usable == Current.content.ok /\ Configured(Current.content) \in Plans /\ ~Twin(Current.key)
ScheduleFollows ==
  \A n \in Version :
    (Now = n /\ Usable) ~>
      \/ Now > n
      \/ watch.pc \in {"pinned", "off"}
      \/ watch.pc = "idle" /\ watch.plan = Configured(Current.content)
=============================================================================
