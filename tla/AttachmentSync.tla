--------------------------- MODULE AttachmentSync ---------------------------
(* src/src/attachments.py: the documents of one registration.  The platform *)
(* lists the current notice (rounds 1, 2, ... of the same type, hence the    *)
(* same file name) and, once registered, a certificate.  A sync copies them  *)
(* to data/attachments/<company>/<number>/ and describes the directory in    *)
(* .sync.json, written once at the end and only when every item succeeded.   *)
(* A document stands for its bytes, its identity and its sha256; .part files *)
(* are seen by nobody and are left out.  The run lock is RunLock's.          *)
EXTENDS Integers, Sequences, FiniteSets

CONSTANTS
    Rounds,      \* how many notices the platform issues, one after another
    Dated,       \* the dated names an older round can move to
    Reviews,     \* the statuses a review can end in
    Readable,    \* the notices whose PDF yields facts
    Certificates, \* settings.yaml -> attachments.certificates_enabled
    MaxTicks,    \* bound on the platform's updates
    None

Cert   == 0
Notice == 1 .. Rounds
Doc    == 0 .. Rounds
Plain  == {"notice", "cert"}
Name   == Plain \cup Dated
Status == {"waiting", "correcting", "registered"}

ASSUME RoundsAssumption == Rounds \in Nat
ASSUME DatedAssumption == Dated \cap Plain = {}
ASSUME ReviewsAssumption == Reviews \subseteq Status
ASSUME ReadableAssumption == Readable \subseteq Notice
ASSUME CertificatesAssumption == Certificates \in BOOLEAN
ASSUME TicksAssumption == MaxTicks \in Nat
ASSUME NoneAssumption == None \notin Doc /\ None \notin Status /\ None \notin {"sync", "release"}

VARIABLES
    platform,   \* the registration there: its current notice (0: none yet), status, updateTime
    clock,      \* the last moment at which the platform updated it
    rec,        \* the registration in the server's latest snapshot
    disk,       \* file name -> document, or None
    manifest,   \* .sync.json; a missing file reads like an empty one
    lock,       \* who holds the run lock, or None
    pc,         \* where the sync is
    work,       \* its local variables
    stored      \* history: every document that ever was a file on the server

siteVars == <<platform, clock>>
syncVars == <<pc, work>>
vars == <<platform, clock, rec, disk, manifest, lock, pc, work, stored>>

File(d) == IF d = Cert THEN "cert" ELSE "notice"
Empty == [n \in Name |-> None]
NoManifest == [status |-> None, synced |-> 0, asked |-> {},
               sources |-> Empty, archived |-> Empty, facts |-> Empty]
NoWork == [todo |-> <<>>, asked |-> {}, ok |-> TRUE, mode |-> None, aside |-> None,
           sources |-> Empty, archived |-> Empty, facts |-> Empty]

\* _note_facts: what the console will show of the document under a name
NoteFacts(facts, n, d) == [facts EXCEPT ![n] = IF d \in Readable THEN d ELSE None]

Init ==
    /\ platform = [notice |-> 0, status |-> "waiting", updated |-> 0]
    /\ clock = 0
    /\ rec = [status |-> "waiting", updated |-> 0]
    /\ disk = Empty
    /\ manifest = NoManifest
    /\ lock = None
    /\ pc = "idle"
    /\ work = NoWork
    /\ stored = {}

-----------------------------------------------------------------------------
(* The platform: a review ends, a new round replaces the notice, or both.    *)

PlatformUpdates ==
    /\ clock < MaxTicks
    /\ clock' = clock + 1
    /\ \E s \in Reviews, k \in {platform.notice, platform.notice + 1} \cap Doc :
          platform' = [notice |-> k, status |-> s, updated |-> clock']
    /\ UNCHANGED <<rec, disk, manifest, lock, pc, work, stored>>

-----------------------------------------------------------------------------
(* A scan saves its snapshot and synchronises the registration.              *)

\* NOTIFY_STATUSES: every status past the review
Eligible(s) == s # "waiting"

\* The record is skipped: synced at this status and not touched since
UpToDate(r) == manifest.status = r.status /\ r.updated <= manifest.synced

SaveSnapshot ==
    /\ lock = None
    /\ rec' = [status |-> platform.status, updated |-> platform.updated]
    /\ lock' = "sync" /\ pc' = "record"
    /\ UNCHANGED <<siteVars, disk, manifest, work, stored>>

\* The record needs nothing, or attachments are off, or the disk is low, or a
\* stop is noticed: the scan ends
SkipRecord ==
    /\ pc = "record"
    /\ pc' = "idle" /\ lock' = None
    /\ UNCHANGED <<siteVars, rec, disk, manifest, work, stored>>

\* The two lists of documents; a platform error reads as an empty list, and a
\* rejected token starts the whole sync again after a new login
Lookup(notices, certificates) ==
    /\ pc = "record"
    /\ Eligible(rec.status) /\ ~ UpToDate(rec)
    /\ LET listed == (IF notices /\ platform.notice # 0 THEN <<platform.notice>> ELSE <<>>)
                     \o (IF Certificates /\ certificates /\ rec.status = "registered" THEN <<Cert>> ELSE <<>>)
       IN  work' = [NoWork EXCEPT !.todo = listed, !.asked = {listed[i] : i \in DOMAIN listed},
                                  !.sources = manifest.sources,
                                  !.archived = manifest.archived,
                                  !.facts = manifest.facts]
    /\ pc' = "items"
    /\ UNCHANGED <<siteVars, rec, disk, manifest, lock, stored>>

Item == Head(work.todo)
HeldUnder(d) == {n \in Name : work.sources[n] = d /\ (disk[n] # None \/ work.archived[n] # None)}
NextItem(w) == [w EXCEPT !.todo = Tail(w.todo), !.mode = None, !.aside = None]
\* a bug the checks must find: a failed item does not keep the record open
FailedQuietly(w) == NextItem(w)
Failed(w) == [NextItem(w) EXCEPT !.ok = FALSE]

\* This very document is on disk or in the archive
SkipHeld ==
    /\ pc = "items" /\ work.todo # <<>>
    /\ \E n \in HeldUnder(Item) :
          work' = IF work.facts[n] = None /\ disk[n] # None
                  THEN [NextItem(work) EXCEPT !.facts = NoteFacts(work.facts, n, disk[n])]
                  ELSE NextItem(work)
    /\ UNCHANGED <<siteVars, rec, disk, manifest, lock, pc, stored>>

\* The disk crossed the floor: nothing more for this record
StopOnLowDisk ==
    /\ pc = "items" /\ work.todo # <<>> /\ HeldUnder(Item) = {}
    /\ work' = [work EXCEPT !.todo = <<>>, !.ok = FALSE]
    /\ UNCHANGED <<siteVars, rec, disk, manifest, lock, pc, stored>>

\* What is there under the name decides how the download is used
BeginDownload ==
    /\ pc = "items" /\ work.todo # <<>> /\ HeldUnder(Item) = {}
    /\ LET n == File(Item) IN
       work' = [work EXCEPT !.mode = IF disk[n] # None THEN "refresh"
                                     ELSE IF work.archived[n] # None THEN "compare"
                                     ELSE "new"]
    /\ pc' = "arriving"
    /\ UNCHANGED <<siteVars, rec, disk, manifest, lock, stored>>

DownloadFails ==
    /\ pc = "arriving"
    /\ work' = Failed(work)
    /\ pc' = "items"
    /\ UNCHANGED <<siteVars, rec, disk, manifest, lock, stored>>

\* No file of this name: the download becomes it
ArriveNew ==
    /\ pc = "arriving" /\ work.mode = "new"
    /\ LET n == File(Item) IN
       /\ disk' = [disk EXCEPT ![n] = Item]
       /\ work' = [NextItem(work) EXCEPT !.sources[n] = Item,
                                         !.facts = NoteFacts(work.facts, n, Item)]
    /\ stored' = stored \cup {Item}
    /\ pc' = "items"
    /\ UNCHANGED <<siteVars, rec, manifest, lock>>

\* The file was released before its identity was known: keep the download only
\* if it is another document
ArriveCompared ==
    /\ pc = "arriving" /\ work.mode = "compare"
    /\ LET n == File(Item) IN
       \/ /\ work.archived[n] = Item
          /\ work' = [NextItem(work) EXCEPT !.sources[n] = Item]
          /\ UNCHANGED <<disk, stored>>
       \/ /\ work.archived[n] # Item
          /\ disk' = [disk EXCEPT ![n] = Item]
          /\ work' = [NextItem(work) EXCEPT !.sources[n] = Item, !.archived[n] = None,
                                            !.facts = NoteFacts(work.facts, n, Item)]
          /\ stored' = stored \cup {Item}
    /\ pc' = "items"
    /\ UNCHANGED <<siteVars, rec, manifest, lock>>

\* The platform served the bytes that are there already
ArriveSame ==
    /\ pc = "arriving" /\ work.mode = "refresh"
    /\ LET n == File(Item) IN
       /\ disk[n] = Item
       /\ work' = [NextItem(work) EXCEPT
                     !.sources[n] = Item,
                     !.facts = IF @[n] = None THEN NoteFacts(@, n, Item) ELSE @]
    /\ pc' = "items"
    /\ UNCHANGED <<siteVars, rec, disk, manifest, lock, stored>>

\* A newer round: the older file first moves to a dated name that is free ...
MoveAside ==
    /\ pc = "arriving" /\ work.mode = "refresh"
    /\ LET n == File(Item) IN
       /\ disk[n] # Item
       /\ \E old \in Dated :
             /\ disk[old] = None
             /\ disk' = [disk EXCEPT ![old] = disk[n], ![n] = None]
             /\ work' = [work EXCEPT !.aside = old]
    /\ pc' = "swapping"
    /\ UNCHANGED <<siteVars, rec, manifest, lock, stored>>

\* What is known of the moved file goes with it
MoveKey(f, from, to) == IF f[from] # None THEN [f EXCEPT ![to] = f[from]] ELSE f

\* ... then the download takes the plain name
Swap ==
    /\ pc = "swapping"
    /\ LET n == File(Item) IN
       /\ disk' = [disk EXCEPT ![n] = Item]
       /\ work' = [NextItem(work) EXCEPT
                     !.sources = [MoveKey(work.sources, n, work.aside) EXCEPT ![n] = Item],
                     !.facts = NoteFacts(MoveKey(work.facts, n, work.aside), n, Item)]
    /\ stored' = stored \cup {Item}
    /\ pc' = "items"
    /\ UNCHANGED <<siteVars, rec, manifest, lock>>

\* The end of the record: .sync.json is written only when everything succeeded
EndRecord ==
    /\ pc = "items" /\ work.todo = <<>>
    /\ manifest' = IF work.ok
                   THEN [status |-> rec.status, synced |-> clock, asked |-> work.asked,
                         sources |-> work.sources, archived |-> work.archived,
                         facts |-> work.facts]
                   ELSE manifest
    /\ pc' = "idle" /\ lock' = None /\ work' = NoWork
    /\ UNCHANGED <<siteVars, rec, disk, stored>>

\* The process dies, or the token expires and the new login fails
Die ==
    /\ pc # "idle"
    /\ pc' = "idle" /\ lock' = None /\ work' = NoWork
    /\ UNCHANGED <<siteVars, rec, disk, manifest, stored>>

Sync ==
    \/ SaveSnapshot \/ SkipRecord
    \/ \E notices, certificates \in BOOLEAN : Lookup(notices, certificates)
    \/ SkipHeld \/ StopOnLowDisk \/ BeginDownload \/ DownloadFails
    \/ ArriveNew \/ ArriveCompared \/ ArriveSame \/ MoveAside \/ Swap
    \/ EndRecord \/ Die

=============================================================================
