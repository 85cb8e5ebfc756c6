-------------------------- MODULE ArchiveHandOver ---------------------------
(* The operator's laptop and the server: `python -m archive` pulls the files *)
(* append-only, indexes them, asks the server to delete what it holds a      *)
(* verified copy of, and can send files back (src/archive/,                  *)
(* src/scripts/archive_release.py, src/scripts/backfill_notice_facts.py,     *)
(* src/src/archive_policy.py).  Composed with AttachmentSync, which runs on  *)
(* the server meanwhile: rsync takes no lock and, when it sends a file back,  *)
(* looks first and renames later; the scripts take the run lock; and either  *)
(* machine, or the connection between them, may fail at any step.            *)
EXTENDS AttachmentSync

CONSTANT Restores    \* bound: the transfers back under way, and the documents they overtook

ASSUME RestoresAssumption == Restores \in Nat

VARIABLES
    copies,     \* ARCHIVE_DIR/attachments: name -> document
    moved,      \* .overwritten: the older versions rsync put aside
    pulled,     \* the names that the pulled .sync.json calls archived
    index,      \* archive.sqlite: name -> [sha, released]
    offer,      \* what the laptop asked the server to release: name -> sha256
    answer,     \* the release script: the names it will report as released
    unlinking,  \* ... and those of them it has not deleted yet
    sending,    \* rsync's transfers back: name -> [doc: what is under way, since: history,
                \* the documents a sync put under the name after rsync had looked]
    gone,       \* history: names the script deleted and nothing filled again
    overtaken   \* history: documents under whose name a later restore put another one

laptopVars == <<copies, moved, pulled, index, offer>>
scriptVars == <<answer, unlinking>>
restoreVars == <<sending, overtaken>>
archiveVars == <<laptopVars, scriptVars, restoreVars, gone>>
allVars == <<vars, archiveVars>>

NoRow == [sha |-> None, released |-> FALSE]
NoIndex == [n \in Name |-> NoRow]
NoTransfer == [doc |-> None, since |-> {}]

ArchiveInit ==
    /\ Init
    /\ copies = Empty /\ moved = {}
    /\ pulled = {}
    /\ index = NoIndex
    /\ offer = Empty
    /\ answer = {} /\ unlinking = {}
    /\ sending = [n \in Name |-> NoTransfer]
    /\ gone = {} /\ overtaken = {}

\* Every older round, and a terminal record whose last update is old enough;
\* how many days make it old is the operator's choice, and left open
Releasable(n, status, old) == n \in Dated \/ (status = "registered" /\ old)

-----------------------------------------------------------------------------
(* The laptop.  A pull is any number of the three transfers, in rsync's order *)
(* or cut short.                                                             *)

\* (a bug the checks must find: rsync without --backup)
PullWithoutBackup(n) ==
    /\ disk[n] # None /\ copies[n] # disk[n]
    /\ copies' = [copies EXCEPT ![n] = disk[n]]
    /\ UNCHANGED <<vars, moved, pulled, index, offer, scriptVars, restoreVars, gone>>

PullDocument(n) ==
    /\ disk[n] # None /\ copies[n] # disk[n]
    /\ copies' = [copies EXCEPT ![n] = disk[n]]
    /\ moved' = moved \cup ({copies[n]} \ {None})
    /\ UNCHANGED <<vars, pulled, index, offer, scriptVars, restoreVars, gone>>

PullManifest ==
    /\ pulled' = {n \in Name : manifest.archived[n] # None}
    /\ UNCHANGED <<vars, copies, moved, index, offer, scriptVars, restoreVars, gone>>

\* python -m archive index: everything in the database follows from the files
Index ==
    /\ index' = [n \in Name |-> IF copies[n] = None THEN NoRow
                                ELSE [sha |-> copies[n], released |-> n \in pulled]]
    /\ UNCHANGED <<vars, copies, moved, pulled, offer, scriptVars, restoreVars, gone>>

\* run_release: what the database says is still on the server and whose local
\* copy still has the hash; its own opinion on the policy (select) is left
\* open, as the server judges again
Candidates == {n \in Name : /\ index[n].sha # None /\ ~ index[n].released
                            /\ copies[n] = index[n].sha}

Offer ==
    /\ offer = Empty /\ Candidates # {}
    /\ offer' = [n \in Name |-> IF n \in Candidates THEN index[n].sha ELSE None]
    /\ UNCHANGED <<vars, copies, moved, pulled, index, scriptVars, restoreVars, gone>>

\* The connection or the laptop fails, or the server answers that it is busy
OfferLost ==
    /\ offer # Empty
    /\ offer' = Empty
    /\ UNCHANGED <<vars, copies, moved, pulled, index, scriptVars, restoreVars, gone>>

-----------------------------------------------------------------------------
(* scripts/archive_release.py, under the run lock.                           *)

\* (a bug the checks must find: no comparison with the hash the laptop verified)
CheckedBlind(old) == {n \in Name : disk[n] # None /\ Releasable(n, rec.status, old) /\ offer[n] # None}

Checked(old) == {n \in Name : disk[n] # None /\ Releasable(n, rec.status, old) /\ disk[n] = offer[n]}

\* (a bug the checks must find: the script does not take the run lock, and a sync is at work)
MarkUnlocked(old) ==
    /\ lock # "release" /\ offer # Empty /\ Checked(old) # {}
    /\ manifest' = [manifest EXCEPT
                      !.archived = [n \in Name |-> IF n \in Checked(old) THEN disk[n] ELSE @[n]]]
    /\ disk' = [n \in Name |-> IF n \in Checked(old) THEN None ELSE disk[n]]
    /\ gone' = gone \cup Checked(old)
    /\ UNCHANGED <<siteVars, rec, lock, pc, work, stored, laptopVars, scriptVars, restoreVars>>

\* The marks go into .sync.json before any file goes
MarkArchived(old) ==
    /\ lock = None /\ offer # Empty /\ Checked(old) # {}
    /\ lock' = "release"
    /\ manifest' = [manifest EXCEPT
                      !.archived = [n \in Name |-> IF n \in Checked(old) THEN disk[n] ELSE @[n]]]
    /\ answer' = Checked(old) /\ unlinking' = Checked(old)
    /\ UNCHANGED <<siteVars, rec, disk, pc, work, stored, laptopVars, restoreVars, gone>>

Unlink(n) ==
    /\ lock = "release" /\ n \in unlinking
    /\ disk' = [disk EXCEPT ![n] = None]
    /\ unlinking' = unlinking \ {n}
    /\ gone' = gone \cup {n}
    /\ UNCHANGED <<siteVars, rec, manifest, lock, pc, work, stored, laptopVars, answer, restoreVars>>

\* The answer: the laptop notes what it lists, unless the answer is lost
ReleaseDone(answered) ==
    /\ lock = "release" /\ unlinking = {}
    /\ lock' = None
    /\ answer' = {} /\ offer' = Empty
    /\ index' = IF answered
                THEN [n \in Name |->
                        IF n \in answer THEN [index[n] EXCEPT !.released = TRUE] ELSE index[n]]
                ELSE index
    /\ UNCHANGED <<siteVars, rec, disk, manifest, pc, work, stored,
                   copies, moved, pulled, unlinking, restoreVars, gone>>

\* The script dies between two deletions
ReleaseDies ==
    /\ lock = "release"
    /\ lock' = None /\ answer' = {} /\ unlinking' = {} /\ offer' = Empty
    /\ UNCHANGED <<siteVars, rec, disk, manifest, pc, work, stored,
                   copies, moved, pulled, index, restoreVars, gone>>

-----------------------------------------------------------------------------
(* run_restore.  Its first half is rsync --ignore-existing, without a lock:  *)
(* it looks whether the name is free, receives the file under a temporary    *)
(* name, and renames that over whatever is there by then.                    *)

UnderWay == {n \in Name : sending[n] # NoTransfer}

\* (a bug the checks must find: rsync without --ignore-existing)
RestoreLookPast(n) ==
    /\ index[n].released /\ copies[n] # None /\ sending[n] = NoTransfer
    /\ Cardinality(UnderWay) + Cardinality(overtaken) < Restores
    /\ sending' = [sending EXCEPT ![n].doc = copies[n]]
    /\ UNCHANGED <<vars, laptopVars, scriptVars, gone, overtaken>>

RestoreLook(n) ==
    /\ index[n].released /\ copies[n] # None /\ sending[n] = NoTransfer
    /\ disk[n] = None
    /\ Cardinality(UnderWay) + Cardinality(overtaken) < Restores
    /\ sending' = [sending EXCEPT ![n].doc = copies[n]]
    /\ UNCHANGED <<vars, laptopVars, scriptVars, gone, overtaken>>

RestoreRename(n) ==
    /\ sending[n] # NoTransfer
    /\ disk' = [disk EXCEPT ![n] = sending[n].doc]
    /\ gone' = gone \ {n}
    /\ overtaken' = overtaken \cup (sending[n].since \ {sending[n].doc})
    /\ sending' = [sending EXCEPT ![n] = NoTransfer]
    /\ UNCHANGED <<siteVars, rec, manifest, lock, pc, work, stored, laptopVars, scriptVars>>

\* The transfer is cut off, and the temporary file with it
RestoreCut(n) ==
    /\ sending[n] # NoTransfer
    /\ sending' = [sending EXCEPT ![n] = NoTransfer]
    /\ UNCHANGED <<vars, laptopVars, scriptVars, gone, overtaken>>

\* Its second half: the server forgets the marks of the files that are back, and the laptop the release of those it is told of
Unarchive(answered) ==
    /\ lock = None
    /\ \E n \in Name : index[n].released
    /\ LET restored == {n \in Name : manifest.archived[n] # None /\ disk[n] # None} IN
       /\ restored # {}
       /\ manifest' = [manifest EXCEPT
                         !.archived = [n \in Name |-> IF n \in restored THEN None ELSE @[n]]]
       /\ index' = IF answered
                   THEN [n \in Name |->
                           IF n \in restored THEN [index[n] EXCEPT !.released = FALSE] ELSE index[n]]
                   ELSE index
    /\ UNCHANGED <<siteVars, rec, disk, lock, pc, work, stored,
                   copies, moved, pulled, offer, scriptVars, restoreVars, gone>>

\* backfill_notice_facts.py --from-stdin, driven by push-facts: facts for what
\* is on the disk, and for the released notices the laptop has parsed
BackfillFacts ==
    /\ lock = None
    /\ LET parsed(n) == IF disk[n] \in Readable THEN disk[n] ELSE None
           sent(n) == IF index[n].released /\ index[n].sha \in Readable
                      THEN index[n].sha ELSE None
       IN  manifest' = [manifest EXCEPT
                          !.facts = [n \in Name |-> IF @[n] # None THEN @[n]
                                                    ELSE IF parsed(n) # None THEN parsed(n)
                                                    ELSE sent(n)]]
    /\ manifest' # manifest
    /\ UNCHANGED <<siteVars, rec, disk, lock, pc, work, stored, archiveVars>>

-----------------------------------------------------------------------------

\* A sync that stores a file again takes its name off the history, and what it
\* puts under a name while a file for it is on its way is noted
SyncStep == /\ Sync \/ PlatformUpdates
            /\ gone' = {n \in gone : disk'[n] = None}
            /\ sending' = [n \in Name |->
                  IF sending[n].doc = None THEN sending[n]
                  ELSE [sending[n] EXCEPT !.since = @ \cup ({disk'[n]} \ {disk[n], None})]]
            /\ UNCHANGED <<laptopVars, scriptVars, overtaken>>

Next ==
    \/ SyncStep
    \/ \E n \in Name : PullDocument(n) \/ Unlink(n)
    \/ \E n \in Name : RestoreLook(n) \/ RestoreRename(n) \/ RestoreCut(n)
    \/ PullManifest \/ Index
    \/ Offer \/ OfferLost \/ ReleaseDies
    \/ \E old \in BOOLEAN : MarkArchived(old)
    \/ \E answered \in BOOLEAN : ReleaseDone(answered) \/ Unarchive(answered)
    \/ BackfillFacts

Spec == ArchiveInit /\ [][Next]_allVars

-----------------------------------------------------------------------------
(* Properties                                                                *)

OnLaptop == ({copies[n] : n \in Name} \ {None}) \cup moved
Held == ({disk[n] : n \in Name} \ {None}) \cup OnLaptop

Names == [Name -> Doc \cup {None}]
Manifests == [status : Status \cup {None}, synced : Nat, asked : SUBSET Doc,
              sources : Names, archived : Names, facts : Names]
Works == [todo : Seq(Doc), asked : SUBSET Doc, ok : BOOLEAN,
          mode : {None, "new", "compare", "refresh"}, aside : Dated \cup {None},
          sources : Names, archived : Names, facts : Names]
Transfers == [Name -> [doc : Doc \cup {None}, since : SUBSET Doc]]

TypeOK ==
    /\ platform \in [notice : Doc, status : Status, updated : Nat]
    /\ rec \in [status : Status, updated : Nat]
    /\ clock \in Nat
    /\ disk \in Names
    /\ manifest \in Manifests
    /\ lock \in {None, "sync", "release"}
    /\ pc \in {"idle", "record", "items", "arriving", "swapping"}
    /\ work \in Works
    /\ stored \subseteq Doc
    /\ copies \in Names /\ moved \subseteq Doc /\ pulled \subseteq Name
    /\ index \in [Name -> [sha : Doc \cup {None}, released : BOOLEAN]]
    /\ offer \in Names
    /\ answer \subseteq Name /\ unlinking \subseteq Name
    /\ sending \in Transfers
    /\ gone \subseteq Name /\ overtaken \subseteq Doc

\* This step ends a restore: its file is under the name now
Landed(n) == /\ sending[n].doc # None /\ sending'[n].doc = None
             /\ disk'[n] = sending[n].doc

\* Whatever is interrupted, a document that is a file on the server or on the
\* laptop stays one on one of the two: the hash checks at both ends, the order
\* of pull, index and release, and rsync's --backup together
\* (archive_release.py:10-18, pull.py:3-6).  The one way to lose a document is a
\* restore that lands on what a sync stored after rsync had looked (release.py:189).
NothingIsLost ==
    [][\A d \in Held \ Held' :
          \E n \in Name : Landed(n) /\ disk[n] = d /\ d \in sending[n].since]_allVars

\* A file the release script deleted, and nothing put back, is marked in
\* .sync.json, so that no sync takes it for missing (archive_release.py:16-18):
\* neither a death between mark and deletion nor a sync that writes its own
\* copy of the marks may drop one.
GoneIsMarked ==
    \A n \in gone : manifest.archived[n] # None

\* What .sync.json calls archived really is on the laptop: the console's grey
\* marker and the sync's "safe in the local archive" (attachments.py:422) hold.
ArchivedHasCopy ==
    \A n \in Name : manifest.archived[n] # None =>
        manifest.archived[n] \in OnLaptop

\* The documents the platform shows now, and where the server has one of them
Current == {Cert, platform.notice}
Shown(d, marks) == disk[File(d)] = d \/ marks[File(d)] = d

\* When .sync.json says that a registration is synchronised, every document the
\* platform listed then is the file of its name or marked as archived under it
\* for as long as the platform has no newer one, and on one of the two machines
\* afterwards, whatever failed, moved, was released or came back since, unless a
\* restore begun earlier landed under its name: a failure must keep the record
\* open, or the document is never asked for again (attachments.py:488-489), and
\* no release, restore or unarchive may drop the mark of a document that is not
\* back (archive_release.py:157-164).
RecordedIsShown ==
    \A d \in manifest.asked \ overtaken :
        IF d \in Current THEN Shown(d, manifest.archived) ELSE d \in Held

\* Nothing puts an older round back under the plain name (attachments.py:16-18)
\* but a restore that lands where a sync stored a newer one meanwhile.
NoStepBack ==
    [][disk["notice"] # None /\ disk'["notice"] # None =>
          \/ disk'["notice"] >= disk["notice"]
          \/ Landed("notice") /\ disk["notice"] \in sending["notice"].since]_<<disk, sending>>

-----------------------------------------------------------------------------
\* What the sources say, and the code does not do.

\* The facts a finished record leaves for the console are those of the document
\* it asked for and has under that name (attachments.py:413-414, 255-258).
FactsAreOfTheFile ==
    [][manifest'.synced # manifest.synced =>
         \A d \in manifest'.asked :
             manifest'.facts[File(d)] # None /\ disk'[File(d)] = d => manifest'.facts[File(d)] = d]_vars

-----------------------------------------------------------------------------
(* The inductive invariant.                                                  *)

\* One holder of the run lock at a time, and what each may be in the middle of
LockInv ==
    /\ pc # "idle" <=> lock = "sync"
    /\ unlinking # {} => lock = "release"
    /\ pc \in {"arriving", "swapping"} => work.todo # <<>>
    /\ pc = "swapping" => work.aside \in Dated

\* Only what the laptop has is offered, marked, deleted, overwritten or sent back
CopyInv ==
    /\ \A n \in Name : offer[n] # None => offer[n] \in OnLaptop
    /\ \A n \in Name : work.archived[n] # None => work.archived[n] \in OnLaptop
    /\ \A n \in Name : sending[n].doc # None => sending[n].doc \in OnLaptop
    /\ \A n \in unlinking : disk[n] \in OnLaptop /\ manifest.archived[n] # None
    /\ pc = "swapping" \/ (pc = "arriving" /\ work.mode # "refresh") =>
          disk[File(Item)] = None \/ disk[File(Item)] \in OnLaptop

\* A deleted name is empty, and marked in the copy a sync will write back, too
GoneInv ==
    /\ \A n \in gone : disk[n] = None
    /\ pc \in {"items", "arriving", "swapping"} =>
          \A n \in gone : work.archived[n] # None

\* No round was stored that is newer than the platform's, or than the one a sync
\* is about to store, and only the first item of a sync can be a notice
NewestInv ==
    /\ \A d \in stored : d <= platform.notice
    /\ work.todo # <<>> =>
          /\ Item <= platform.notice
          /\ Item # Cert => \A d \in stored : d <= Item
    /\ \A i \in DOMAIN work.todo : i > 1 => work.todo[i] = Cert

\* The rounds that are no newer than d, or that a restore overtook
NotAfter(f, d) == f["notice"] # None => f["notice"] <= d \/ f["notice"] \in overtaken

\* Under the plain names, a file is no older than its copy, and a copy no older
\* than what is offered or marked; what is being deleted is marked
AgeInv ==
    /\ disk["notice"] # None =>
          \A f \in {copies, offer, manifest.archived, work.archived} : NotAfter(f, disk["notice"])
    /\ \A f \in {offer, manifest.archived, work.archived} :
          f["notice"] # None => copies["notice"] # None /\ NotAfter(f, copies["notice"])
    /\ disk["cert"] \in {Cert, None} /\ copies["cert"] \in {Cert, None}
    /\ "notice" \in unlinking => disk["notice"] <= manifest.archived["notice"]
    /\ "cert" \in unlinking => manifest.archived["cert"] = Cert

\* What is under a name while a file for it is on its way was put there since,
\* and is no older; what the laptop has, offered or marked by then is older
\* than the file under way, or will have been overtaken by it
SendingInv ==
    /\ \A n \in Name : sending[n].doc = None => sending[n].since = {}
    /\ \A n \in Name : sending[n].doc # None /\ disk[n] # None => disk[n] \in sending[n].since
    /\ sending["cert"].doc \in {Cert, None}
    /\ sending["notice"].doc # None =>
          /\ disk["notice"] # None => sending["notice"].doc <= disk["notice"]
          /\ \A f \in {copies, offer, manifest.archived, work.archived} :
                f["notice"] # None /\ f["notice"] \notin sending["notice"].since =>
                    NotAfter(f, sending["notice"].doc)

\* What a record of identities says: plain names carry documents of their own
\* kind and dated names older rounds, and what the platform shows now is there
Truthful(sources, marks) ==
    /\ sources["cert"] \in {Cert, None}
    /\ sources["notice"] \in (1 .. platform.notice) \cup {None}
    /\ \A n \in Dated : sources[n] \in (1 .. platform.notice - 1) \cup {None}
    /\ \A d \in Current \ overtaken : sources[File(d)] = d => Shown(d, marks)

SourcesInv ==
    /\ Truthful(manifest.sources, manifest.archived)
    /\ Truthful(work.sources, work.archived)
    /\ work.todo # <<>> /\ Item # Cert /\ work.sources["notice"] # None =>
          work.sources["notice"] <= Item
    /\ pc = "swapping" => work.mode = "refresh"
    /\ pc \in {"arriving", "swapping"} /\ work.mode = "refresh" => work.sources[File(Item)] # Item
    /\ pc \in {"idle", "record"} => work = NoWork

\* A document that was asked for is the one its name stands for, unless the
\* platform has a newer round, and it was a file once; in a sync that has not
\* failed, the documents still to be handled excepted
Answered(d, sources) == sources[File(d)] = d \/ (d # Cert /\ d < platform.notice)
Handled == {d \in work.asked : \A i \in DOMAIN work.todo : work.todo[i] # d}

AskedInv ==
    /\ \A d \in manifest.asked : Answered(d, manifest.sources) /\ d \in stored
    /\ work.ok => \A d \in Handled : Answered(d, work.sources) /\ d \in stored

\* Nothing is anywhere that was not a file on the server once, and it still is
\* somewhere, unless a restore overtook it
StoredInv ==
    /\ \A f \in {disk, copies, offer, manifest.archived, work.archived, manifest.sources, work.sources} :
          \A n \in Name : f[n] # None => f[n] \in stored
    /\ \A n \in Name : sending[n].doc # None => sending[n].doc \in stored
    /\ stored \subseteq Held \cup overtaken

IInv == TypeOK /\ LockInv /\ CopyInv /\ GoneInv /\ NewestInv
          /\ GoneIsMarked /\ ArchivedHasCopy
          /\ AgeInv /\ SendingInv /\ SourcesInv /\ AskedInv /\ StoredInv
=============================================================================
