---------------------------- MODULE ArchiveProofs -----------------------------
(* For any number of rounds, names and moments: the hand-over to the laptop   *)
(* loses no document, forgets no released file, and puts no older round back. *)
EXTENDS ArchiveHandOver, SequenceTheorems, TLAPS

USE RoundsAssumption, NoneAssumption DEF Doc, Notice, Cert

-----------------------------------------------------------------------------
(* The documents of one registration.                                        *)

\* A document is kept under a plain name
LEMMA FileIsPlain == \A d \in Doc : File(d) \in Plain /\ File(d) \in Name
BY DEF File, Plain, Name

\* What a look-up lists: the current notice at most once and first, then the
\* certificate
InOrder(l, p) ==
  /\ l \in Seq(Doc)
  /\ l # <<>> => Head(l) \in {p, Cert}
  /\ \A i \in DOMAIN l : i > 1 => l[i] = Cert

LEMMA ListedInOrder ==
  ASSUME NEW p \in Doc, NEW noticed \in BOOLEAN, NEW certified \in BOOLEAN
  PROVE  InOrder((IF noticed THEN <<p>> ELSE <<>>) \o (IF certified THEN <<Cert>> ELSE <<>>), p)
<1>1. InOrder(<<p, Cert>>, p)
  <2>1. \A i \in DOMAIN <<p, Cert>> : i > 1 => <<p, Cert>>[i] = Cert
    OBVIOUS
  <2>2. <<p, Cert>> \in Seq(Doc)
    OBVIOUS
  <2>3. Head(<<p, Cert>>) \in {p, Cert}
    OBVIOUS
  <2> QED BY <2>1, <2>2, <2>3 DEF InOrder
<1>2. InOrder(<<p>>, p)
  <2>1. \A i \in DOMAIN <<p>> : i > 1 => <<p>>[i] = Cert
    OBVIOUS
  <2>2. <<p>> \in Seq(Doc)
    OBVIOUS
  <2>3. Head(<<p>>) \in {p, Cert}
    OBVIOUS
  <2> QED BY <2>1, <2>2, <2>3 DEF InOrder
<1>3. InOrder(<<Cert>>, p)
  <2>1. \A i \in DOMAIN <<Cert>> : i > 1 => <<Cert>>[i] = Cert
    OBVIOUS
  <2>2. <<Cert>> \in Seq(Doc)
    OBVIOUS
  <2>3. Head(<<Cert>>) \in {p, Cert}
    OBVIOUS
  <2> QED BY <2>1, <2>2, <2>3 DEF InOrder
<1>4. InOrder(<<>>, p)
  BY DEF InOrder
<1>5. <<p>> \o <<Cert>> = <<p, Cert>>
  <2>1. /\ <<p>> \in Seq(Doc) /\ <<Cert>> \in Seq(Doc) /\ <<p, Cert>> \in Seq(Doc)
        /\ Len(<<p>>) = 1 /\ Len(<<Cert>>) = 1 /\ Len(<<p, Cert>>) = 2
    OBVIOUS
  <2>2. /\ <<p>> \o <<Cert>> \in Seq(Doc)
        /\ Len(<<p>> \o <<Cert>>) = 2
        /\ (<<p>> \o <<Cert>>)[1] = p
        /\ (<<p>> \o <<Cert>>)[2] = Cert
    BY <2>1, ConcatProperties
  <2>3. \A i \in 1 .. 2 : (<<p>> \o <<Cert>>)[i] = <<p, Cert>>[i]
    BY <2>2
  <2> QED BY <2>1, <2>2, <2>3, SeqEqual
<1>6. /\ <<p>> \o <<>> = <<p>>
      /\ <<>> \o <<Cert>> = <<Cert>>
      /\ <<>> \o <<>> = <<>>
  <2>1. <<p>> \in Seq(Doc) /\ <<Cert>> \in Seq(Doc) /\ <<>> \in Seq(Doc)
    OBVIOUS
  <2> QED BY <2>1, ConcatEmptySeq
<1> QED BY <1>1, <1>2, <1>3, <1>4, <1>5, <1>6

\* The first item of a list, and what follows it
LEMMA FirstItem ==
  ASSUME NEW todo \in Seq(Doc), todo # <<>>
  PROVE  /\ Head(todo) \in Doc
         /\ Tail(todo) \in Seq(Doc)
         /\ \A i \in DOMAIN Tail(todo) : i + 1 \in DOMAIN todo /\ Tail(todo)[i] = todo[i + 1]
         /\ Tail(todo) # <<>> => Head(Tail(todo)) = todo[2] /\ 2 \in DOMAIN todo
OBVIOUS

-----------------------------------------------------------------------------
(* Types, and who is at work.                                                *)

LEMMA TypeStart == ArchiveInit => TypeOK /\ LockInv
BY DatedAssumption DEF ArchiveInit, Init, TypeOK, LockInv, Names, Manifests, Works, Transfers, Status, Empty,
  NoManifest, NoWork, NoIndex, NoRow, NoTransfer

\* The documents a sync is about to handle, one less after each
LEMMA NextItemTyped ==
  ASSUME NEW w \in Works, w.todo # <<>>
  PROVE  NextItem(w) \in Works /\ Failed(w) \in Works
<1>1. Tail(w.todo) \in Seq(Doc)
  BY FirstItem DEF Works
<1> QED BY <1>1 DEF NextItem, Failed, Works

LEMMA NoWorkTyped == NoWork \in Works
<1>1. <<>> \in Seq(Doc)
  OBVIOUS
<1> QED BY <1>1 DEF NoWork, Works, Names, Empty

LEMMA FactsTyped ==
  ASSUME NEW f \in Names, NEW n \in Name, NEW d \in Doc
  PROVE  NoteFacts(f, n, d) \in Names
BY DEF NoteFacts, Names

LEMMA MoveKeyTyped ==
  ASSUME NEW f \in Names, NEW from \in Name, NEW to \in Name
  PROVE  MoveKey(f, from, to) \in Names
BY DEF MoveKey, Names

\* What each step of a sync leaves of the files
LEMMA FilesTyped == TypeOK /\ LockInv /\ Sync => disk' \in Names
<1> SUFFICES ASSUME TypeOK, LockInv, Sync PROVE disk' \in Names
  OBVIOUS
<1>1. disk \in Names /\ work \in Works
  BY DEF TypeOK
<1>2. CASE ArriveNew \/ ArriveCompared \/ MoveAside \/ Swap
  <2>1. work.todo # <<>>
    BY <1>2 DEF LockInv, ArriveNew, ArriveCompared, MoveAside, Swap
  <2>2. Item \in Doc /\ File(Item) \in Name
    BY <1>1, <2>1, FirstItem, FileIsPlain DEF Item, Works
  <2> QED BY <1>1, <1>2, <2>2 DEF ArriveNew, ArriveCompared, MoveAside, Swap, Names, Name
<1> QED BY <1>1, <1>2 DEF Sync, SaveSnapshot, SkipRecord, Lookup, SkipHeld, StopOnLowDisk,
      BeginDownload, DownloadFails, ArriveSame, EndRecord, Die

\* ... and of its local variables
LEMMA SyncTyped ==
  ASSUME TypeOK, LockInv, Sync, UNCHANGED <<laptopVars, scriptVars, overtaken>>,
         gone' \subseteq gone, sending' \in Transfers
  PROVE  TypeOK' /\ LockInv'
<1> USE DEF TypeOK, LockInv, siteVars, laptopVars, scriptVars
<1>0. work \in Works /\ manifest \in Manifests /\ disk \in Names
  OBVIOUS
<1>1. CASE SaveSnapshot
  BY <1>1 DEF SaveSnapshot
<1>2. CASE SkipRecord
  BY <1>2 DEF SkipRecord
<1>3. ASSUME NEW notices \in BOOLEAN, NEW certificates \in BOOLEAN, Lookup(notices, certificates)
      PROVE  TypeOK' /\ LockInv'
  <2> DEFINE noticed == notices /\ platform.notice # 0
             certified == Certificates /\ certificates /\ rec.status = "registered"
             listed == (IF noticed THEN <<platform.notice>> ELSE <<>>) \o (IF certified THEN <<Cert>> ELSE <<>>)
  <2>1. noticed \in BOOLEAN /\ certified \in BOOLEAN /\ platform.notice \in Doc
    BY CertificatesAssumption
  <2>2. listed \in Seq(Doc)
    BY <2>1, ListedInOrder DEF InOrder
  <2>3. {listed[i] : i \in DOMAIN listed} \subseteq Doc
    BY <2>2
  <2>4. work' \in Works
    <3>1. work' = [NoWork EXCEPT !.todo = listed, !.asked = {listed[i] : i \in DOMAIN listed},
                                 !.sources = manifest.sources, !.archived = manifest.archived,
                                 !.facts = manifest.facts]
      BY <1>3 DEF Lookup
    <3> HIDE DEF listed
    <3> QED BY <3>1, <2>2, <2>3, <1>0 DEF NoWork, Works, Manifests
  <2> QED BY <1>3, <2>4 DEF Lookup
<1>4. CASE SkipHeld
  <2>1. work' \in Works
    <3>1. PICK n \in HeldUnder(Item) :
             work' = IF work.facts[n] = None /\ disk[n] # None
                     THEN [NextItem(work) EXCEPT !.facts = NoteFacts(work.facts, n, disk[n])]
                     ELSE NextItem(work)
      BY <1>4 DEF SkipHeld
    <3>2. NextItem(work) \in Works
      BY <1>4, NextItemTyped DEF SkipHeld
    <3>3. disk[n] # None => NoteFacts(work.facts, n, disk[n]) \in Names
      BY FactsTyped DEF HeldUnder, Names, Works
    <3> QED BY <3>1, <3>2, <3>3 DEF Works
  <2> QED BY <1>4, <2>1 DEF SkipHeld
<1>5. CASE StopOnLowDisk
  <2>1. <<>> \in Seq(Doc)
    OBVIOUS
  <2>2. work' \in Works
    BY <1>0, <1>5, <2>1 DEF StopOnLowDisk, Works
  <2> QED BY <1>5, <2>2 DEF StopOnLowDisk
<1>6. CASE BeginDownload
  <2>1. work' \in Works /\ work'.todo = work.todo
    BY <1>6 DEF BeginDownload, Works
  <2> QED BY <1>6, <2>1 DEF BeginDownload
<1>7. CASE DownloadFails
  <2>1. work' \in Works
    BY <1>7, NextItemTyped DEF DownloadFails
  <2> QED BY <1>7, <2>1 DEF DownloadFails
<1>8. ASSUME pc \in {"arriving", "swapping"} 
      PROVE  /\ Item \in Doc /\ File(Item) \in Name /\ File(Item) \notin Dated
             /\ NextItem(work) \in Works
             /\ NoteFacts(work.facts, File(Item), Item) \in Names
  <2>1. Item \in Doc
    BY <1>8, FirstItem DEF Item, Works
  <2> QED BY <1>8, <2>1, NextItemTyped, FileIsPlain, FactsTyped, DatedAssumption DEF Works
<1>9. CASE ArriveNew
  <2>1. work' \in Works
    BY <1>8, <1>9 DEF ArriveNew, Works, Names
  <2>2. disk' \in Names /\ stored' \subseteq Doc
    BY <1>8, <1>9 DEF ArriveNew, Names
  <2> QED BY <1>9, <2>1, <2>2 DEF ArriveNew
<1>10. CASE ArriveCompared
  <2> DEFINE w == NextItem(work)
             source == [work.sources EXCEPT ![File(Item)] = Item]
             archived == [work.archived EXCEPT ![File(Item)] = None]
             facts == NoteFacts(work.facts, File(Item), Item)
  <2>1. /\ w \in Works
        /\ w.sources = work.sources /\ w.archived = work.archived
    BY <1>8, <1>10 DEF ArriveCompared, NextItem, Works
  <2>2. disk' \in Names /\ stored' \subseteq Doc
    BY <1>8, <1>10 DEF ArriveCompared, Names
  <2>3. \/ work' = [w EXCEPT !.sources = source]
        \/ work' = [w EXCEPT !.sources = source, !.archived = archived, !.facts = facts]
    BY <1>10, <2>1 DEF ArriveCompared
  <2>4. source \in Names /\ archived \in Names /\ facts \in Names
    BY <1>8, <1>10 DEF ArriveCompared, Works, Names
  <2>5. work' \in Works
    <3> HIDE DEF w, source, archived, facts
    <3>1. CASE work' = [w EXCEPT !.sources = source]
      BY <2>1, <2>4, <3>1 DEF Works
    <3>2. CASE work' = [w EXCEPT !.sources = source, !.archived = archived, !.facts = facts]
      BY <2>1, <2>4, <3>2 DEF Works
    <3> QED BY <2>3, <3>1, <3>2
  <2> QED BY <1>10, <2>2, <2>5 DEF ArriveCompared
<1>11. CASE ArriveSame
  <2> DEFINE w == NextItem(work)
  <2>1. w \in Works /\ w.facts = work.facts
    BY <1>8, <1>11 DEF ArriveSame, NextItem, Works
  <2>2. \/ work' = [w EXCEPT !.sources[File(Item)] = Item, !.facts = NoteFacts(w.facts, File(Item), Item)]
        \/ work' = [w EXCEPT !.sources[File(Item)] = Item, !.facts = w.facts]
    BY <1>11, <2>1 DEF ArriveSame, Works
  <2>3. work' \in Works
    <3>1. [w.sources EXCEPT ![File(Item)] = Item] \in Names
      BY <1>8, <1>11, <2>1 DEF ArriveSame, Works, Names
    <3>2. NoteFacts(w.facts, File(Item), Item) \in Names
      BY <1>8, <1>11, <2>1 DEF ArriveSame
    <3> HIDE DEF w
    <3> QED BY <2>1, <2>2, <3>1, <3>2 DEF Works
  <2> QED BY <1>11, <2>3 DEF ArriveSame
<1>12. CASE MoveAside
  <2>1. work' \in Works /\ work'.todo = work.todo /\ work'.aside \in Dated
    BY <1>12 DEF MoveAside, Works
  <2>2. disk' \in Names
    BY <1>8, <1>12 DEF MoveAside, Names, Name
  <2> QED BY <1>12, <2>1, <2>2 DEF MoveAside
<1>13. CASE Swap
  <2>1. work.aside \in Name
    BY <1>13 DEF Swap, Name
  <2>2. MoveKey(work.sources, File(Item), work.aside) \in Names /\ MoveKey(work.facts, File(Item), work.aside) \in Names
    BY <1>8, <1>13, <2>1, MoveKeyTyped DEF Swap, Works
  <2>3. NoteFacts(MoveKey(work.facts, File(Item), work.aside), File(Item), Item) \in Names
    BY <1>8, <1>13, <2>2, FactsTyped DEF Swap
  <2>4. work' \in Works
    BY <1>8, <1>13, <2>2, <2>3 DEF Swap, Works, Names
  <2>5. disk' \in Names /\ stored' \subseteq Doc
    BY <1>8, <1>13 DEF Swap, Names
  <2> QED BY <1>13, <2>4, <2>5 DEF Swap
<1>14. CASE EndRecord
  <2>1. work' \in Works
    BY <1>14, NoWorkTyped DEF EndRecord
  <2>2. manifest' \in Manifests
    <3>1. CASE work.ok
      <4>1. manifest' = [status |-> rec.status, synced |-> clock, asked |-> work.asked,
                         sources |-> work.sources, archived |-> work.archived, facts |-> work.facts]
        BY <1>14, <3>1 DEF EndRecord
      <4> QED BY <1>0, <4>1 DEF Manifests, Works
    <3>2. CASE ~work.ok
      BY <1>14, <3>2 DEF EndRecord
    <3> QED BY <3>1, <3>2
  <2> QED BY <1>14, <2>1, <2>2 DEF EndRecord, NoWork
<1>15. CASE Die
  <2>1. work' \in Works
    BY <1>15, NoWorkTyped DEF Die
  <2> QED BY <1>15, <2>1 DEF Die, NoWork
<1> QED BY <1>1, <1>2, <1>3, <1>4, <1>5, <1>6, <1>7, <1>9, <1>10, <1>11, <1>12, <1>13, <1>14, <1>15 DEF Sync

LEMMA TypeStep == TypeOK /\ LockInv /\ [Next]_allVars => TypeOK' /\ LockInv'
<1> SUFFICES ASSUME TypeOK, LockInv, [Next]_allVars PROVE TypeOK' /\ LockInv'
  OBVIOUS
<1> USE DEF TypeOK, LockInv, siteVars, laptopVars, scriptVars, restoreVars, vars
<1>1. CASE SyncStep
  <2>0. disk' \in Names => sending' \in Transfers
    BY <1>1 DEF SyncStep, Transfers, Names
  <2>1. CASE Sync
    BY <1>1, <2>0, <2>1, FilesTyped, SyncTyped DEF SyncStep
  <2>2. CASE PlatformUpdates
    BY <1>1, <2>0, <2>2, ReviewsAssumption DEF SyncStep, PlatformUpdates
  <2> QED BY <1>1, <2>1, <2>2 DEF SyncStep
<1>2. ASSUME NEW n \in Name, PullDocument(n) PROVE TypeOK' /\ LockInv'
  <2>1. copies' \in Names /\ moved' \subseteq Doc
    BY <1>2 DEF PullDocument, Names
  <2> QED BY <1>2, <2>1 DEF PullDocument
<1>3. ASSUME NEW n \in Name, Unlink(n) PROVE TypeOK' /\ LockInv'
  BY <1>3 DEF Unlink, Names
<1>4. ASSUME NEW n \in Name, RestoreLook(n) \/ RestoreRename(n) \/ RestoreCut(n) PROVE TypeOK' /\ LockInv'
  <2>0. NoTransfer \in [doc : Doc \cup {None}, since : SUBSET Doc]
    BY DEF NoTransfer
  <2>1. CASE RestoreLook(n)
    <3>1. copies[n] \in Doc \cup {None}
      BY DEF Names
    <3>2. sending' = [sending EXCEPT ![n].doc = copies[n]]
      BY <2>1 DEF RestoreLook
    <3>3. sending' \in Transfers
      BY <3>1, <3>2 DEF Transfers
    <3> QED BY <2>1, <3>3 DEF RestoreLook
  <2>2. CASE RestoreRename(n)
    <3>1. sending' \in Transfers
      BY <2>0, <2>2 DEF RestoreRename, Transfers
    <3>2. disk' \in Names
      BY <2>2 DEF RestoreRename, Transfers, Names
    <3>3. overtaken' \subseteq Doc
      BY <2>2 DEF RestoreRename, Transfers
    <3> QED BY <2>2, <3>1, <3>2, <3>3 DEF RestoreRename
  <2>3. CASE RestoreCut(n)
    <3>1. sending' \in Transfers
      BY <2>0, <2>3 DEF RestoreCut, Transfers
    <3> QED BY <2>3, <3>1 DEF RestoreCut
  <2> QED BY <1>4, <2>1, <2>2, <2>3
<1>5. CASE PullManifest
  BY <1>5 DEF PullManifest, Manifests
<1>6. CASE Index
  <2>1. index' \in [Name -> [sha : Doc \cup {None}, released : BOOLEAN]]
    BY <1>6 DEF Index, NoRow, Names
  <2> QED BY <1>6, <2>1 DEF Index
<1>7. CASE Offer
  <2>1. offer' \in Names
    BY <1>7 DEF Offer, Names
  <2> QED BY <1>7, <2>1 DEF Offer
<1>8. CASE OfferLost
  BY <1>8 DEF OfferLost, Empty, Names
<1>9. CASE ReleaseDies
  BY <1>9 DEF ReleaseDies, Empty, Names
<1>10. ASSUME NEW old \in BOOLEAN, MarkArchived(old) PROVE TypeOK' /\ LockInv'
  <2>1. manifest' \in Manifests
    BY <1>10 DEF MarkArchived, Manifests, Names
  <2>2. unlinking' \subseteq Name
    BY <1>10 DEF MarkArchived, Checked
  <2>3. answer' = unlinking'
    BY <1>10 DEF MarkArchived
  <2> QED BY <1>10, <2>1, <2>2, <2>3 DEF MarkArchived
<1>11. ASSUME NEW answered \in BOOLEAN, ReleaseDone(answered) PROVE TypeOK' /\ LockInv'
  <2>1. index' \in [Name -> [sha : Doc \cup {None}, released : BOOLEAN]]
    BY <1>11 DEF ReleaseDone
  <2>2. offer' \in Names
    BY <1>11 DEF ReleaseDone, Empty, Names
  <2> QED BY <1>11, <2>1, <2>2 DEF ReleaseDone
<1>12. ASSUME NEW answered \in BOOLEAN, Unarchive(answered) PROVE TypeOK' /\ LockInv'
  <2>1. index' \in [Name -> [sha : Doc \cup {None}, released : BOOLEAN]]
    BY <1>12 DEF Unarchive
  <2>2. manifest' \in Manifests
    BY <1>12 DEF Unarchive, Manifests, Names
  <2> QED BY <1>12, <2>1, <2>2 DEF Unarchive
<1>13. CASE BackfillFacts
  <2>1. manifest' \in Manifests
    BY <1>13 DEF BackfillFacts, Manifests, Names
  <2> QED BY <1>13, <2>1 DEF BackfillFacts, archiveVars
<1>14. CASE UNCHANGED allVars
  BY <1>14 DEF allVars, archiveVars
<1> QED BY <1>1, <1>2, <1>3, <1>4, <1>5, <1>6, <1>7, <1>8, <1>9, <1>10, <1>11, <1>12, <1>13, <1>14 DEF Next

-----------------------------------------------------------------------------
(* The laptop.                                                               *)

\* The laptop only ever gains documents: what rsync replaces is put aside
LEMMA LaptopKeeps == TypeOK /\ [Next]_allVars => OnLaptop \subseteq OnLaptop'
<1> SUFFICES ASSUME TypeOK, [Next]_allVars PROVE OnLaptop \subseteq OnLaptop'
  OBVIOUS
<1>1. CASE UNCHANGED <<copies, moved>>
  BY <1>1 DEF OnLaptop
<1>2. ASSUME NEW n \in Name, PullDocument(n) PROVE OnLaptop \subseteq OnLaptop'
  <2> SUFFICES ASSUME NEW d \in OnLaptop PROVE d \in OnLaptop'
    OBVIOUS
  <2>1. copies' = [copies EXCEPT ![n] = disk[n]] /\ moved' = moved \cup ({copies[n]} \ {None})
    BY <1>2 DEF PullDocument
  <2>2. CASE d \in moved
    BY <2>1, <2>2 DEF OnLaptop
  <2>3. ASSUME NEW m \in Name, d = copies[m], d # None PROVE d \in OnLaptop'
    <3>1. CASE m = n
      BY <2>1, <2>3, <3>1 DEF OnLaptop, TypeOK
    <3>2. CASE m # n
      BY <2>1, <2>3, <3>2 DEF OnLaptop, TypeOK, Names
    <3> QED BY <2>3, <3>1, <3>2
  <2> QED BY <2>2, <2>3 DEF OnLaptop
<1> QED BY <1>1, <1>2 DEF Next, SyncStep, Unlink, RestoreLook, RestoreRename, RestoreCut, PullManifest, Index, Offer, OfferLost,
      ReleaseDies, MarkArchived, ReleaseDone, Unarchive, BackfillFacts, allVars, archiveVars, laptopVars, scriptVars, restoreVars

-----------------------------------------------------------------------------
(* What a step may do to the files, to the marks and to a sync's copy of     *)
(* them.                                                                     *)

LEMMA ItemTyped ==
  ASSUME TypeOK, work.todo # <<>>
  PROVE  Item \in Doc /\ File(Item) \in Plain /\ File(Item) \in Name /\ File(Item) \notin Dated
<1>1. Item \in Doc
  BY FirstItem DEF TypeOK, Item, Works
<1> QED BY <1>1, FileIsPlain, DatedAssumption

\* A transfer that is under way has a document
LEMMA UnderWayTyped ==
  ASSUME TypeOK, SendingInv, NEW n \in Name, sending[n] # NoTransfer
  PROVE  sending[n].doc \in Doc /\ sending[n].doc # None
BY DEF TypeOK, SendingInv, Transfers, NoTransfer

\* A sync stores a download: whatever was under the name is on the laptop
Puts ==
  LET n == File(Item) IN
  /\ pc \in {"arriving", "swapping"} /\ n \in Name /\ Item \in Doc
  /\ disk[n] = None \/ disk[n] \in OnLaptop
  /\ disk' = [disk EXCEPT ![n] = Item]
  /\ stored' = stored \cup {Item}

SyncOther == UNCHANGED <<laptopVars, scriptVars, overtaken>> /\ gone' = {n \in gone : disk'[n] = None}

LEMMA DiskStep ==
  ASSUME IInv, [Next]_allVars
  PROVE  \/ UNCHANGED <<disk, stored, gone>>
         \/ SyncOther /\ (UNCHANGED <<disk, stored>> \/ Puts \/ MoveAside)
         \/ \E n \in Name : Unlink(n) \/ RestoreRename(n)
<1> USE DEF IInv
<1>1. CASE SyncStep
  <2>1. CASE ArriveNew \/ ArriveCompared \/ Swap
    <3>1. pc \in {"arriving", "swapping"} /\ work.todo # <<>> /\ (pc = "arriving" => work.mode # "refresh")
      BY <2>1 DEF LockInv, ArriveNew, ArriveCompared, Swap
    <3>2. Item \in Doc /\ File(Item) \in Name
      BY <3>1, ItemTyped
    <3>3. disk[File(Item)] = None \/ disk[File(Item)] \in OnLaptop
      BY <3>1 DEF CopyInv
    <3> QED BY <1>1, <2>1, <3>1, <3>2, <3>3 DEF SyncStep, SyncOther, Puts, ArriveNew, ArriveCompared, Swap
  <2>2. CASE MoveAside
    BY <1>1, <2>2 DEF SyncStep, SyncOther
  <2>3. CASE ~(ArriveNew \/ ArriveCompared \/ Swap \/ MoveAside)
    <3>1. UNCHANGED <<disk, stored>>
      BY <1>1, <2>3 DEF SyncStep, Sync, PlatformUpdates, SaveSnapshot, SkipRecord, Lookup, SkipHeld,
           StopOnLowDisk, BeginDownload, DownloadFails, ArriveSame, EndRecord, Die
    <3> QED BY <1>1, <3>1 DEF SyncStep, SyncOther
  <2> QED BY <2>1, <2>2, <2>3
<1>2. CASE ~SyncStep /\ ~(\E n \in Name : Unlink(n) \/ RestoreRename(n))
  BY <1>2 DEF Next, PullDocument, RestoreLook, RestoreCut, PullManifest, Index, Offer, OfferLost, ReleaseDies,
     MarkArchived, ReleaseDone, Unarchive, BackfillFacts, allVars, vars, archiveVars
<1> QED BY <1>1, <1>2

\* The marks in .sync.json
LEMMA MarkStep ==
  ASSUME IInv, [Next]_allVars
  PROVE  \/ manifest'.archived = manifest.archived
         \/ /\ pc = "items" /\ pc' = "idle"
            /\ manifest'.archived = work.archived
            /\ gone' \subseteq gone /\ unlinking' = unlinking
         \/ \E old \in BOOLEAN : MarkArchived(old)
         \/ \E answered \in BOOLEAN : Unarchive(answered)
<1> USE DEF IInv
<1>1. CASE SyncStep
  <2>1. CASE EndRecord
    <3>1. manifest'.archived \in {work.archived, manifest.archived}
      BY <2>1 DEF EndRecord
    <3> QED BY <1>1, <2>1, <3>1 DEF SyncStep, EndRecord, scriptVars
  <2>2. CASE ~EndRecord
    BY <1>1, <2>2 DEF SyncStep, Sync, PlatformUpdates, SaveSnapshot, SkipRecord, Lookup, SkipHeld,
       StopOnLowDisk, BeginDownload, DownloadFails, ArriveNew, ArriveCompared, ArriveSame, MoveAside,
       Swap, Die
  <2> QED BY <2>1, <2>2
<1>2. CASE BackfillFacts
  BY <1>2 DEF BackfillFacts, TypeOK, Manifests
<1>3. CASE /\ ~SyncStep /\ ~BackfillFacts
           /\ ~(\E old \in BOOLEAN : MarkArchived(old))
           /\ ~(\E answered \in BOOLEAN : Unarchive(answered))
  BY <1>3 DEF Next, PullDocument, Unlink, RestoreLook, RestoreRename, RestoreCut, PullManifest, Index, Offer, OfferLost,
     ReleaseDies, ReleaseDone, allVars, vars
<1> QED BY <1>1, <1>2, <1>3

\* The copy of the marks that a sync holds
LEMMA WorkStep ==
  ASSUME IInv, [Next]_allVars
  PROVE  \/ /\ work'.archived = work.archived
            /\ pc' \in {pc, "record", "idle"} \/ pc \in {"items", "arriving", "swapping"}
         \/ pc = "record" /\ pc' = "items" /\ work'.archived = manifest.archived /\ SyncOther
         \/ pc' = "idle" /\ work'.archived = Empty
         \/ /\ pc = "arriving" /\ pc' = "items" /\ Puts /\ SyncOther
            /\ work'.archived = [work.archived EXCEPT ![File(Item)] = None]
<1> USE DEF IInv
<1>1. CASE SyncStep
  <2>1. ASSUME NEW notices \in BOOLEAN, NEW certificates \in BOOLEAN, Lookup(notices, certificates)
        PROVE  pc = "record" /\ pc' = "items" /\ work'.archived = manifest.archived /\ SyncOther
    BY <1>1, <2>1 DEF SyncStep, SyncOther, Lookup, NoWork
  <2>2. CASE ArriveCompared
    <3>1. \/ work'.archived = work.archived
          \/ /\ work'.archived = [work.archived EXCEPT ![File(Item)] = None]
             /\ disk' = [disk EXCEPT ![File(Item)] = Item] /\ stored' = stored \cup {Item}
      BY <2>2 DEF ArriveCompared, NextItem, TypeOK, Works
    <3>2. /\ Item \in Doc /\ File(Item) \in Name
          /\ disk[File(Item)] = None \/ disk[File(Item)] \in OnLaptop
      BY <2>2, ItemTyped DEF ArriveCompared, LockInv, CopyInv
    <3> QED BY <1>1, <2>2, <3>1, <3>2 DEF SyncStep, SyncOther, Puts, ArriveCompared
  <2>3. CASE EndRecord \/ Die
    BY <2>3 DEF EndRecord, Die, NoWork
  <2>4. CASE SkipHeld \/ DownloadFails \/ ArriveNew \/ ArriveSame \/ Swap \/ StopOnLowDisk \/ BeginDownload \/ MoveAside
    BY <2>4 DEF SkipHeld, DownloadFails, ArriveNew, ArriveSame, Swap, StopOnLowDisk, BeginDownload, MoveAside,
       NextItem, Failed, TypeOK, Works
  <2>5. CASE SaveSnapshot \/ SkipRecord \/ PlatformUpdates
    BY <2>5 DEF SaveSnapshot, SkipRecord, PlatformUpdates, LockInv
  <2> QED BY <1>1, <2>1, <2>2, <2>3, <2>4, <2>5 DEF SyncStep, Sync
<1>2. CASE ~SyncStep
  BY <1>2 DEF Next, PullDocument, Unlink, RestoreLook, RestoreRename, RestoreCut, PullManifest, Index, Offer, OfferLost,
     ReleaseDies, MarkArchived, ReleaseDone, Unarchive, BackfillFacts, allVars, vars
<1> QED BY <1>1, <1>2

\* The transfers back: one that ends or starts changes no file but at the
\* moment it lands, and the others note what is stored meanwhile
LEMMA SendingStep ==
  ASSUME IInv, [Next]_allVars, NEW n \in Name
  PROVE  \/ sending'[n].doc = None /\ sending'[n].since = {}
         \/ /\ sending[n] = NoTransfer /\ disk[n] = None /\ copies[n] # None
            /\ sending'[n].doc = copies[n] /\ sending'[n].since = {}
            /\ UNCHANGED <<vars, laptopVars, scriptVars, overtaken>>
         \/ /\ sending[n].doc # None /\ sending'[n].doc = sending[n].doc
            /\ sending[n].since \subseteq sending'[n].since
            /\ disk'[n] \in {disk[n], None} \cup sending'[n].since
            /\ disk'[n] \in {disk[n], None} \/ SyncStep
<1> USE DEF IInv
<1>0. disk \in Names /\ sending \in Transfers /\ (sending[n].doc = None => sending[n].since = {})
  BY DEF TypeOK, SendingInv
<1>1. CASE SyncStep
  <2>1. sending'[n] = IF sending[n].doc = None THEN sending[n]
                      ELSE [sending[n] EXCEPT !.since = @ \cup ({disk'[n]} \ {disk[n], None})]
    BY <1>1 DEF SyncStep
  <2> QED BY <1>0, <1>1, <2>1 DEF Transfers
<1>2. ASSUME NEW m \in Name, RestoreLook(m)
      PROVE  \/ sending'[n] = sending[n] /\ UNCHANGED disk
             \/ /\ m = n /\ sending[n] = NoTransfer /\ disk[n] = None /\ copies[n] # None
                /\ sending'[n].doc = copies[n] /\ sending'[n].since = {}
                /\ UNCHANGED <<vars, laptopVars, scriptVars, overtaken>>
  BY <1>0, <1>2 DEF RestoreLook, Transfers, NoTransfer, vars
<1>3. ASSUME NEW m \in Name, RestoreRename(m)
      PROVE  sending'[n] = NoTransfer \/ (sending'[n] = sending[n] /\ disk'[n] = disk[n])
  BY <1>0, <1>3 DEF RestoreRename, Transfers, Names
<1>4. ASSUME NEW m \in Name, RestoreCut(m)
      PROVE  sending'[n] = NoTransfer \/ (sending'[n] = sending[n] /\ disk'[n] = disk[n])
  BY <1>0, <1>4 DEF RestoreCut, Transfers, vars
<1>5. ASSUME NEW m \in Name, Unlink(m) PROVE sending'[n] = sending[n] /\ disk'[n] \in {disk[n], None}
  BY <1>0, <1>5 DEF Unlink, Names, restoreVars
<1>6. CASE ~SyncStep /\ ~(\E m \in Name : Unlink(m) \/ RestoreLook(m) \/ RestoreRename(m) \/ RestoreCut(m))
  <2>1. UNCHANGED <<disk, sending>>
    BY <1>6 DEF Next, PullDocument, PullManifest, Index, Offer, OfferLost, ReleaseDies, MarkArchived,
       ReleaseDone, Unarchive, BackfillFacts, allVars, vars, archiveVars, restoreVars
  <2> QED BY <1>0, <2>1
<1> QED BY <1>0, <1>1, <1>2, <1>3, <1>4, <1>5, <1>6 DEF NoTransfer

-----------------------------------------------------------------------------
(* Each part of the invariant is kept.                                       *)

\* What disappears from both machines was under a name at which a restore landed
LEMMA HeldStep ==
  ASSUME IInv, [Next]_allVars, NEW d \in Held, d \notin Held'
  PROVE  \E n \in Name : RestoreRename(n) /\ disk[n] = d
<1> USE DEF IInv
<1>1. OnLaptop \subseteq OnLaptop' /\ OnLaptop' \subseteq Held'
  BY LaptopKeeps DEF Held
<1>2. disk \in Names
  BY DEF TypeOK
<1>3. d # None /\ d \notin OnLaptop /\ \E n \in Name : d = disk[n]
  BY <1>1 DEF Held
<1>4. \A n \in Name : d # disk'[n]
  BY <1>3 DEF Held
<1>5. CASE UNCHANGED <<disk, stored>>
  BY <1>3, <1>4, <1>5
<1>6. CASE Puts
  BY <1>2, <1>3, <1>4, <1>6 DEF Puts, Names
<1>7. CASE MoveAside
  <2>1. PICK old \in Dated : disk[old] = None /\ disk' = [disk EXCEPT ![old] = disk[File(Item)], ![File(Item)] = None]
    BY <1>7 DEF MoveAside
  <2>2. File(Item) \in Name /\ File(Item) # old /\ old \in Name
    BY <1>7, ItemTyped DEF MoveAside, LockInv, Name
  <2>3. disk'[old] = disk[File(Item)] /\ \A n \in Name \ {old, File(Item)} : disk'[n] = disk[n]
    BY <1>2, <2>1, <2>2 DEF Names
  <2> QED BY <1>3, <1>4, <2>1, <2>2, <2>3
<1>8. ASSUME NEW n \in Name, Unlink(n) PROVE FALSE
  BY <1>2, <1>3, <1>4, <1>8 DEF Unlink, CopyInv, Names
<1>9. ASSUME NEW n \in Name, RestoreRename(n) PROVE disk[n] = d
  BY <1>2, <1>3, <1>4, <1>9 DEF RestoreRename, Names
<1> QED BY <1>5, <1>6, <1>7, <1>8, <1>9, DiskStep

\* ... where a sync had stored it since rsync looked, and which the landing overtook
LEMMA LossStep ==
  ASSUME IInv, [Next]_allVars, NEW d \in Held, d \notin Held'
  PROVE  \E n \in Name : Landed(n) /\ disk[n] = d /\ d \in sending[n].since /\ d \in overtaken'
<1> USE DEF IInv
<1>1. PICK n \in Name : RestoreRename(n) /\ disk[n] = d
  BY HeldStep
<1>2. d # None
  BY DEF Held, OnLaptop, TypeOK
<1>3. sending[n].doc # None /\ d \in sending[n].since
  BY <1>1, <1>2, UnderWayTyped DEF RestoreRename, SendingInv
<1>4. disk'[n] = sending[n].doc /\ sending'[n] = NoTransfer
  BY <1>1 DEF RestoreRename, TypeOK, Names, Transfers
<1>5. Landed(n)
  BY <1>3, <1>4 DEF Landed, NoTransfer
<1>6. d # sending[n].doc
  BY <1>3, <1>4 DEF Held
<1> QED BY <1>1, <1>3, <1>5, <1>6 DEF RestoreRename

LEMMA ArchivedHasCopyStep == IInv /\ [Next]_allVars => ArchivedHasCopy'
<1> SUFFICES ASSUME IInv, [Next]_allVars, NEW n \in Name, manifest'.archived[n] # None
             PROVE  manifest'.archived[n] \in OnLaptop'
  BY DEF ArchivedHasCopy
<1> USE DEF IInv
<1>1. OnLaptop \subseteq OnLaptop'
  BY LaptopKeeps
<1>2. CASE manifest'.archived = manifest.archived
  BY <1>1, <1>2 DEF ArchivedHasCopy
<1>3. CASE manifest'.archived = work.archived
  BY <1>1, <1>3 DEF CopyInv
<1>4. ASSUME NEW old \in BOOLEAN, MarkArchived(old) PROVE manifest'.archived[n] \in OnLaptop'
  <2>1. n \in Checked(old) => disk[n] \in OnLaptop
    BY DEF Checked, CopyInv
  <2>2. manifest'.archived[n] = IF n \in Checked(old) THEN disk[n] ELSE manifest.archived[n]
    BY <1>4 DEF MarkArchived, TypeOK, Manifests
  <2> QED BY <1>1, <2>1, <2>2 DEF ArchivedHasCopy
<1>5. ASSUME NEW answered \in BOOLEAN, Unarchive(answered) PROVE manifest'.archived[n] \in OnLaptop'
  <2>1. manifest'.archived[n] \in {None, manifest.archived[n]}
    BY <1>5 DEF Unarchive, TypeOK, Manifests
  <2> QED BY <1>1, <2>1 DEF ArchivedHasCopy
<1> QED BY <1>2, <1>3, <1>4, <1>5, MarkStep

LEMMA GoneIsEmptyStep == IInv /\ [Next]_allVars => \A n \in gone' : disk'[n] = None
<1> SUFFICES ASSUME IInv, [Next]_allVars, NEW n \in gone' PROVE disk'[n] = None
  OBVIOUS
<1> USE DEF IInv
<1>1. \A m \in gone : disk[m] = None /\ m \in Name
  BY DEF GoneInv, TypeOK
<1>2. disk \in Names
  BY DEF TypeOK
<1>3. CASE UNCHANGED <<disk, stored, gone>>
  BY <1>1, <1>3
<1>4. CASE SyncOther
  BY <1>4 DEF SyncOther
<1>5. ASSUME NEW m \in Name, Unlink(m) PROVE disk'[n] = None
  BY <1>1, <1>2, <1>5 DEF Unlink, Names
<1>6. ASSUME NEW m \in Name, RestoreRename(m) PROVE disk'[n] = None
  BY <1>1, <1>2, <1>6 DEF RestoreLook, RestoreRename, RestoreCut, Names
<1> QED BY <1>3, <1>4, <1>5, <1>6, DiskStep

LEMMA GoneIsMarkedStep == IInv /\ [Next]_allVars => GoneIsMarked'
<1> SUFFICES ASSUME IInv, [Next]_allVars, NEW n \in gone' PROVE manifest'.archived[n] # None
  BY DEF GoneIsMarked
<1> USE DEF IInv
<1>1. \A m \in gone : m \in Name /\ disk[m] = None /\ manifest.archived[m] # None
  BY DEF GoneInv, GoneIsMarked, TypeOK
<1>2. n \in gone \/ Unlink(n)
  <2>1. gone' \subseteq gone \/ \E m \in Name : Unlink(m)
    BY DiskStep DEF SyncOther, RestoreLook, RestoreRename, RestoreCut
  <2> QED BY <2>1 DEF Unlink
<1>3. CASE Unlink(n)
  BY <1>3 DEF Unlink, CopyInv
<1>4. CASE n \in gone /\ ~ Unlink(n)
  <2>1. CASE manifest'.archived = manifest.archived
    BY <1>1, <1>4, <2>1
  <2>2. CASE pc = "items" /\ manifest'.archived = work.archived
    BY <1>4, <2>2 DEF GoneInv
  <2>3. ASSUME NEW old \in BOOLEAN, MarkArchived(old) PROVE manifest'.archived[n] # None
    BY <1>1, <1>4, <2>3 DEF MarkArchived, Checked, TypeOK, Manifests
  <2>4. ASSUME NEW answered \in BOOLEAN, Unarchive(answered) PROVE manifest'.archived[n] # None
    BY <1>1, <1>4, <2>4 DEF Unarchive, TypeOK, Manifests
  <2> QED BY <2>1, <2>2, <2>3, <2>4, MarkStep
<1> QED BY <1>2, <1>3, <1>4

LEMMA GoneStep == IInv /\ [Next]_allVars => GoneInv'
<1> SUFFICES ASSUME IInv, [Next]_allVars PROVE GoneInv'
  OBVIOUS
<1> USE DEF IInv
<1>1. ASSUME pc' \in {"items", "arriving", "swapping"}, NEW n \in gone'
      PROVE  work'.archived[n] # None
  <2>1. n \in Name
    BY TypeStep DEF TypeOK
  <2>2. lock' = "sync"
    BY <1>1, TypeStep DEF LockInv
  <2>3. n \in gone
    BY <2>2, DiskStep DEF SyncOther, Unlink, RestoreLook, RestoreRename, RestoreCut
  <2>4. CASE /\ work'.archived = work.archived
             /\ pc' \in {pc, "record", "idle"} \/ pc \in {"items", "arriving", "swapping"}
    BY <1>1, <2>3, <2>4 DEF GoneInv
  <2>5. CASE work'.archived = manifest.archived
    BY <2>3, <2>5 DEF GoneIsMarked
  <2>6. CASE /\ pc = "arriving" /\ Puts /\ SyncOther
             /\ work'.archived = [work.archived EXCEPT ![File(Item)] = None]
    <3>1. n # File(Item)
      BY <2>6 DEF Puts, SyncOther, TypeOK, Names
    <3> QED BY <2>1, <2>3, <2>6, <3>1 DEF GoneInv, TypeOK, Works, Names
  <2> QED BY <1>1, <2>4, <2>5, <2>6, WorkStep
<1> QED BY <1>1, GoneIsEmptyStep DEF GoneInv

\* The copy of the release script and of the sync: only what the laptop has
LEMMA CopyStep == IInv /\ [Next]_allVars => CopyInv'
<1> SUFFICES ASSUME IInv, [Next]_allVars PROVE CopyInv'
  OBVIOUS
<1> USE DEF IInv
<1>1. OnLaptop \subseteq OnLaptop' /\ TypeOK' /\ LockInv'
  BY LaptopKeeps, TypeStep
<1>2. ASSUME NEW n \in Name, offer'[n] # None PROVE offer'[n] \in OnLaptop'
  <2>1. CASE offer' = offer
    BY <1>1, <1>2, <2>1 DEF CopyInv
  <2>2. CASE offer' = Empty
    BY <1>2, <2>2 DEF Empty
  <2>3. CASE Offer
    <3>1. n \in Candidates /\ offer'[n] = copies[n]
      BY <1>2, <2>3 DEF Offer, Candidates
    <3> QED BY <1>1, <1>2, <3>1 DEF OnLaptop
  <2> QED BY <2>1, <2>2, <2>3 DEF Next, SyncStep, PullDocument, Unlink, RestoreLook, RestoreRename, RestoreCut, PullManifest,
         Index, OfferLost, ReleaseDies, MarkArchived, ReleaseDone, Unarchive, BackfillFacts,
         allVars, archiveVars, laptopVars, scriptVars, restoreVars
<1>3. ASSUME NEW n \in Name, work'.archived[n] # None PROVE work'.archived[n] \in OnLaptop'
  <2>1. CASE work'.archived = work.archived
    BY <1>1, <1>3, <2>1 DEF CopyInv
  <2>2. CASE work'.archived = manifest.archived
    BY <1>1, <1>3, <2>2 DEF ArchivedHasCopy
  <2>3. CASE work'.archived = Empty
    BY <1>3, <2>3 DEF Empty
  <2>4. CASE work'.archived = [work.archived EXCEPT ![File(Item)] = None]
    BY <1>1, <1>3, <2>4 DEF CopyInv, TypeOK, Works, Names
  <2> QED BY <2>1, <2>2, <2>3, <2>4, WorkStep
<1>4. ASSUME NEW n \in unlinking' PROVE disk'[n] \in OnLaptop' /\ manifest'.archived[n] # None
  <2>1. CASE \E old \in BOOLEAN : MarkArchived(old)
    <3>1. disk[n] \in OnLaptop /\ manifest'.archived[n] = disk[n] /\ disk' = disk
      BY <1>4, <2>1 DEF MarkArchived, Checked, CopyInv, TypeOK, Manifests, Names
    <3> QED BY <1>1, <3>1 DEF OnLaptop, TypeOK
  <2>2. CASE ~ \E old \in BOOLEAN : MarkArchived(old)
    <3>1. n \in unlinking /\ n \in Name /\ lock = "release" /\ pc = "idle" /\ ~Unlink(n)
      BY <1>4, <2>2 DEF Next, SyncStep, PullDocument, Unlink, RestoreLook, RestoreRename, RestoreCut, PullManifest,
         Index, Offer, OfferLost, ReleaseDies, ReleaseDone, Unarchive, BackfillFacts, allVars, archiveVars,
         scriptVars, TypeOK, LockInv
    <3>2. disk[n] \in OnLaptop /\ manifest.archived[n] # None
      BY <3>1 DEF CopyInv
    <3>3. disk'[n] = disk[n] \/ disk'[n] \in OnLaptop
      <4>1. ASSUME NEW m \in Name, RestoreRename(m) PROVE disk'[n] = disk[n] \/ disk'[n] \in OnLaptop
        <5>1. sending[m].doc \in OnLaptop
          BY <4>1, UnderWayTyped DEF RestoreRename, CopyInv
        <5> QED BY <3>1, <4>1, <5>1 DEF RestoreRename, TypeOK, Names
      <4> QED BY <3>1, <4>1, DiskStep DEF Puts, MoveAside, Unlink, TypeOK, Names
    <3>4. manifest'.archived[n] = manifest.archived[n]
      BY <2>2, <3>1, MarkStep DEF Unarchive
    <3> QED BY <1>1, <3>2, <3>3, <3>4
  <2> QED BY <2>1, <2>2
<1>5. ASSUME pc' = "swapping" \/ (pc' = "arriving" /\ work'.mode # "refresh")
      PROVE  (disk[File(Item)] = None \/ disk[File(Item)] \in OnLaptop)'
  <2>1. CASE BeginDownload
    BY <1>5, <2>1 DEF BeginDownload, TypeOK, Works, Item
  <2>2. CASE MoveAside
    <3>1. PICK old \in Dated : disk' = [disk EXCEPT ![old] = disk[File(Item)], ![File(Item)] = None]
      BY <2>2 DEF MoveAside
    <3>2. File(Item) \in Name /\ work'.todo = work.todo
      BY <2>2, ItemTyped DEF MoveAside, LockInv, TypeOK, Works
    <3>3. disk'[File(Item)] = None
      BY <3>1, <3>2 DEF TypeOK, Names
    <3> QED BY <3>2, <3>3 DEF Item
  <2>3. CASE UNCHANGED <<pc, work>>
    <3>1. disk[File(Item)] = None \/ disk[File(Item)] \in OnLaptop
      BY <1>5, <2>3 DEF CopyInv
    <3>2. Item' = Item /\ File(Item) \in Name /\ lock = "sync"
      BY <1>5, <2>3, ItemTyped DEF Item, LockInv
    <3>3. disk' = disk \/ \E n \in Name : RestoreRename(n)
      BY <1>5, <2>3, <3>2 DEF Next, SyncStep, Sync, PlatformUpdates, SaveSnapshot, SkipRecord,
         Lookup, SkipHeld, StopOnLowDisk, BeginDownload, DownloadFails, ArriveNew, ArriveCompared,
         ArriveSame, MoveAside, Swap, EndRecord, Die, PullDocument, Unlink, RestoreLook, RestoreCut, PullManifest, Index, Offer,
         OfferLost, ReleaseDies, MarkArchived, ReleaseDone, Unarchive, BackfillFacts, vars, allVars
    <3>4. ASSUME NEW n \in Name, RestoreRename(n)
          PROVE  disk'[File(Item)] = disk[File(Item)] \/ disk'[File(Item)] \in OnLaptop
      <4>1. sending[n].doc \in OnLaptop
        BY <3>4, UnderWayTyped DEF RestoreRename, CopyInv
      <4> QED BY <3>2, <3>4, <4>1 DEF RestoreRename, TypeOK, Names
    <3>5. disk'[File(Item)] = disk[File(Item)] \/ disk'[File(Item)] \in OnLaptop
      BY <3>3, <3>4
    <3> QED BY <1>1, <3>1, <3>2, <3>5
  <2> QED BY <1>5, <2>1, <2>2, <2>3 DEF Next, SyncStep, Sync, PlatformUpdates, SaveSnapshot, SkipRecord,
         Lookup, SkipHeld, StopOnLowDisk, DownloadFails, ArriveNew, ArriveCompared, ArriveSame, Swap,
         EndRecord, Die, PullDocument, Unlink, RestoreLook, RestoreRename, RestoreCut, PullManifest, Index, Offer, OfferLost,
         ReleaseDies, MarkArchived, ReleaseDone, Unarchive, BackfillFacts, syncVars, vars, allVars
<1>6. ASSUME NEW n \in Name, sending'[n].doc # None PROVE sending'[n].doc \in OnLaptop'
  BY <1>1, <1>6, SendingStep DEF CopyInv, OnLaptop
<1> QED BY <1>2, <1>3, <1>4, <1>5, <1>6 DEF CopyInv

\* What a sync is about to put under the plain name is the newest round
LEMMA RestTail ==
  ASSUME TypeOK, NewestInv, work.todo # <<>>
  PROVE  LET rest == Tail(work.todo) IN
         /\ rest # <<>> => Head(rest) = Cert
         /\ \A i \in DOMAIN rest : i > 1 => rest[i] = Cert
<1> DEFINE rest == Tail(work.todo)
<1>1. \A i \in DOMAIN rest : i + 1 \in DOMAIN work.todo /\ rest[i] = work.todo[i + 1]
  BY FirstItem DEF TypeOK, Works
<1>2. rest # <<>> => Head(rest) = work.todo[2] /\ 2 \in DOMAIN work.todo
  BY FirstItem DEF TypeOK, Works
<1>3. rest \in Seq(Doc)
  BY FirstItem DEF TypeOK, Works
<1> QED BY <1>1, <1>2, <1>3 DEF NewestInv

\* The items of a sync
LEMMA TodoStep ==
  ASSUME IInv, [Next]_allVars
  PROVE  \/ work'.todo = work.todo
         \/ work'.todo = <<>>
         \/ work.todo # <<>> /\ work'.todo = Tail(work.todo)
         \/ InOrder(work'.todo, platform.notice) /\ UNCHANGED <<stored, platform>>
<1> USE DEF IInv
<1>1. CASE SyncStep
  <2>1. ASSUME NEW notices \in BOOLEAN, NEW certificates \in BOOLEAN, Lookup(notices, certificates)
        PROVE  InOrder(work'.todo, platform.notice) /\ UNCHANGED <<stored, platform>>
    <3> DEFINE noticed == notices /\ platform.notice # 0
               certified == Certificates /\ certificates /\ rec.status = "registered"
               listed == (IF noticed THEN <<platform.notice>> ELSE <<>>) \o (IF certified THEN <<Cert>> ELSE <<>>)
    <3>1. noticed \in BOOLEAN /\ certified \in BOOLEAN /\ platform.notice \in Doc
      BY CertificatesAssumption DEF TypeOK
    <3>2. InOrder(listed, platform.notice)
      BY <3>1, ListedInOrder
    <3>3. work'.todo = listed
      <4>1. work' = [NoWork EXCEPT !.todo = listed, !.asked = {listed[i] : i \in DOMAIN listed},
                                   !.sources = manifest.sources, !.archived = manifest.archived,
                                   !.facts = manifest.facts]
        BY <2>1 DEF Lookup
      <4> HIDE DEF listed
      <4> QED BY <4>1 DEF NoWork
    <3> QED BY <1>1, <2>1, <3>2, <3>3 DEF SyncStep, Lookup, siteVars, laptopVars
  <2>2. CASE SkipHeld \/ DownloadFails \/ ArriveNew \/ ArriveCompared \/ ArriveSame \/ Swap
    BY <2>2 DEF SkipHeld, DownloadFails, ArriveNew, ArriveCompared, ArriveSame, Swap, NextItem, Failed,
       LockInv, TypeOK, Works
  <2>3. CASE StopOnLowDisk \/ BeginDownload \/ MoveAside
    BY <2>3 DEF StopOnLowDisk, BeginDownload, MoveAside, TypeOK, Works
  <2>4. CASE EndRecord \/ Die
    BY <2>4 DEF EndRecord, Die, NoWork
  <2>5. CASE PlatformUpdates \/ SaveSnapshot \/ SkipRecord
    BY <2>5 DEF PlatformUpdates, SaveSnapshot, SkipRecord
  <2> QED BY <1>1, <2>1, <2>2, <2>3, <2>4, <2>5 DEF SyncStep, Sync
<1>2. CASE ~SyncStep
  BY <1>2 DEF Next, PullDocument, Unlink, RestoreLook, RestoreRename, RestoreCut, PullManifest, Index, Offer, OfferLost,
     ReleaseDies, MarkArchived, ReleaseDone, Unarchive, BackfillFacts, allVars, vars
<1> QED BY <1>1, <1>2

\* What is overtaken stays so
LEMMA OvertakenStays == ASSUME [Next]_allVars PROVE overtaken \subseteq overtaken'
BY DEF Next, SyncStep, PullDocument, Unlink, RestoreLook, RestoreRename, RestoreCut, PullManifest, Index, Offer,
   OfferLost, ReleaseDies, MarkArchived, ReleaseDone, Unarchive, BackfillFacts, allVars, archiveVars, restoreVars

\* Only an item of a sync is ever stored, and the platform only advances
LEMMA StoreStep ==
  ASSUME IInv, [Next]_allVars
  PROVE  /\ \/ stored' = stored
            \/ work.todo # <<>> /\ work'.todo = Tail(work.todo) /\ Puts /\ SyncOther
         /\ platform'.notice >= platform.notice
<1> USE DEF IInv
<1>1. stored' = stored \/ (work.todo # <<>> /\ work'.todo = Tail(work.todo) /\ Puts /\ SyncOther)
  <2>1. CASE Puts /\ SyncOther
    <3>1. work.todo # <<>> /\ lock = "sync" /\ pc \in {"arriving", "swapping"}
      BY <2>1 DEF Puts, LockInv
    <3>2. CASE ArriveNew \/ ArriveCompared \/ Swap
      BY <2>1, <3>1, <3>2 DEF ArriveNew, ArriveCompared, Swap, NextItem, TypeOK, Works
    <3>3. CASE ~(ArriveNew \/ ArriveCompared \/ Swap)
      BY <3>3 DEF Next, SyncStep, Sync, PlatformUpdates, SaveSnapshot, SkipRecord, Lookup, SkipHeld, StopOnLowDisk,
         BeginDownload, DownloadFails, ArriveSame, MoveAside, EndRecord, Die, PullDocument, Unlink, RestoreLook,
         RestoreRename, RestoreCut, PullManifest, Index, Offer, OfferLost, ReleaseDies, MarkArchived,
         ReleaseDone, Unarchive, BackfillFacts, allVars, vars
    <3> QED BY <3>2, <3>3
  <2>2. MoveAside => stored' = stored
    BY DEF MoveAside
  <2>3. ASSUME NEW n \in Name, Unlink(n) \/ RestoreRename(n) PROVE stored' = stored
    BY <2>3 DEF Unlink, RestoreRename
  <2> QED BY <2>1, <2>2, <2>3, DiskStep
<1>2. platform'.notice >= platform.notice
  <2>1. platform' = platform \/ PlatformUpdates
    BY DEF Next, SyncStep, Sync, SaveSnapshot, SkipRecord, Lookup, SkipHeld, StopOnLowDisk, BeginDownload,
       DownloadFails, ArriveNew, ArriveCompared, ArriveSame, MoveAside, Swap, EndRecord, Die, PullDocument,
       Unlink, RestoreLook, RestoreRename, RestoreCut, PullManifest, Index, Offer, OfferLost, ReleaseDies,
       MarkArchived, ReleaseDone, Unarchive, BackfillFacts, siteVars, allVars, vars
  <2> QED BY <2>1 DEF PlatformUpdates, TypeOK
<1> QED BY <1>1, <1>2

\* The files and the copies that carry the plain name of the notice
LEMMA NoticeStep ==
  ASSUME IInv, [Next]_allVars
  PROVE  /\ \/ disk'["notice"] \in {disk["notice"], None}
            \/ RestoreRename("notice") /\ disk'["notice"] = sending["notice"].doc
            \/ work.todo # <<>> /\ Item # Cert /\ disk'["notice"] = Item /\ SyncOther
         /\ copies'["notice"] \in {copies["notice"], disk["notice"]}
<1> USE DEF IInv
<1>1. "notice" \in Name /\ "notice" \notin Dated
  BY DatedAssumption DEF Name, Plain
<1>2. copies'["notice"] \in {copies["notice"], disk["notice"]}
  <2>1. copies' = copies \/ \E n \in Name : PullDocument(n)
    BY DEF Next, SyncStep, Unlink, RestoreLook, RestoreRename, RestoreCut, PullManifest, Index, Offer, OfferLost,
       ReleaseDies, MarkArchived, ReleaseDone, Unarchive, BackfillFacts, allVars, archiveVars, laptopVars
  <2> QED BY <1>1, <2>1 DEF PullDocument, TypeOK, Names
<1>3. CASE Puts /\ SyncOther
  <2>1. work.todo # <<>> /\ disk'["notice"] = (IF File(Item) = "notice" THEN Item ELSE disk["notice"])
    BY <1>1, <1>3 DEF Puts, LockInv, TypeOK, Names
  <2> QED BY <1>2, <1>3, <2>1 DEF File
<1>4. CASE MoveAside
  BY <1>1, <1>2, <1>4 DEF MoveAside, TypeOK, Names
<1>5. ASSUME NEW n \in Name, Unlink(n) PROVE disk'["notice"] \in {disk["notice"], None}
  BY <1>1, <1>5 DEF Unlink, TypeOK, Names
<1>6. ASSUME NEW n \in Name, RestoreRename(n)
      PROVE  \/ disk'["notice"] = disk["notice"]
             \/ RestoreRename("notice") /\ disk'["notice"] = sending["notice"].doc
  BY <1>1, <1>6 DEF RestoreRename, TypeOK, Names
<1> QED BY <1>2, <1>3, <1>4, <1>5, <1>6, DiskStep

LEMMA NewestStep == IInv /\ [Next]_allVars => NewestInv'
<1> SUFFICES ASSUME IInv, [Next]_allVars PROVE NewestInv'
  OBVIOUS
<1> USE DEF IInv
<1>1. /\ stored \subseteq Doc /\ stored' \subseteq Doc
      /\ platform.notice \in Doc /\ platform'.notice \in Doc
      /\ work.todo # <<>> => Item \in Doc
      /\ work'.todo \in Seq(Doc)
  BY TypeStep, ItemTyped DEF TypeOK, Works
<1>2. /\ \A d \in stored : d <= platform.notice
      /\ work.todo # <<>> => Item <= platform.notice
      /\ \A i \in DOMAIN work.todo : i > 1 => work.todo[i] = Cert
  BY DEF NewestInv
<1>3. platform'.notice >= platform.notice
  BY StoreStep
<1>4. \A d \in stored' : d <= platform'.notice
  <2>1. stored' \subseteq stored \/ (work.todo # <<>> /\ stored' = stored \cup {Item})
    BY StoreStep DEF Puts
  <2> QED BY <1>1, <1>2, <1>3, <2>1
<1>5. ASSUME \A i \in DOMAIN work'.todo : i > 1 => work'.todo[i] = Cert,
             work'.todo # <<>> => Item' = Cert
      PROVE  NewestInv'
  BY <1>1, <1>4, <1>5 DEF NewestInv
<1>6. CASE work.todo # <<>> /\ work'.todo = Tail(work.todo)
  BY <1>5, <1>6, RestTail DEF Item
<1>7. CASE work'.todo = <<>>
  BY <1>5, <1>7
<1>8. CASE work'.todo = work.todo /\ stored' = stored
  <2>1. Item' = Item
    BY <1>8 DEF Item
  <2>2. work'.todo # <<>> => Item' <= platform'.notice
    BY <1>1, <1>2, <1>3, <1>8, <2>1
  <2>3. work'.todo # <<>> /\ Item' # Cert => \A d \in stored' : d <= Item'
    BY <1>8, <2>1 DEF NewestInv
  <2> QED BY <1>2, <1>4, <1>8, <2>2, <2>3 DEF NewestInv
<1>9. CASE InOrder(work'.todo, platform.notice) /\ UNCHANGED <<stored, platform>>
  <2>1. work'.todo # <<>> => Item' \in {platform.notice, Cert}
    BY <1>9 DEF InOrder, Item
  <2>2. work'.todo # <<>> => Item' <= platform'.notice
    BY <1>1, <1>9, <2>1
  <2>3. work'.todo # <<>> /\ Item' # Cert => \A d \in stored' : d <= Item'
    BY <1>1, <1>2, <1>9, <2>1
  <2> QED BY <1>4, <1>9, <2>2, <2>3 DEF InOrder, NewestInv
<1> QED BY <1>6, <1>7, <1>8, <1>9, TodoStep, StoreStep

-----------------------------------------------------------------------------
(* What a synchronised record stands for.                                    *)

\* The two kinds of documents, and the maps from names to documents
LEMMA Kinds ==
  /\ "notice" \in Name /\ "cert" \in Name /\ "notice" \notin Dated /\ "cert" \notin Dated
  /\ Name = {"notice", "cert"} \cup Dated
  /\ \A d \in Doc : \/ d = Cert /\ File(d) = "cert"
                    \/ d # Cert /\ d \in 1 .. Rounds /\ File(d) = "notice"
BY DatedAssumption DEF Name, Plain, File

LEMMA MapsTyped ==
  ASSUME TypeOK
  PROVE  /\ \A f \in {disk, copies, offer, manifest.archived, work.archived, manifest.sources, work.sources} :
               /\ f \in [Name -> Doc \cup {None}]
               /\ \A n \in Name : f[n] \in Doc \cup {None}
         /\ platform.notice \in Doc /\ Current \subseteq Doc
         /\ work.asked \subseteq Doc /\ manifest.asked \subseteq Doc
         /\ work.todo \in Seq(Doc) /\ work.ok \in BOOLEAN
<1>1. /\ disk \in Names /\ copies \in Names /\ offer \in Names
      /\ manifest.archived \in Names /\ manifest.sources \in Names
      /\ work.archived \in Names /\ work.sources \in Names
  BY DEF TypeOK, Manifests, Works
<1>2. platform.notice \in Doc
  BY DEF TypeOK
<1> QED BY <1>1, <1>2 DEF Names, Current, TypeOK, Manifests, Works

\* The newest round is neither behind its mark nor behind what is being stored
LEMMA MarkedIsThere ==
  ASSUME IInv, NEW d \in Current, d \notin overtaken,
         NEW marks \in {manifest.archived, work.archived}, marks[File(d)] = d
  PROVE  /\ disk[File(d)] # None => disk[File(d)] = d
         /\ work.todo # <<>> /\ File(Item) = File(d) => Item = d
<1> USE DEF IInv
<1>1. d \in Doc /\ (work.todo # <<>> => Item \in Doc) /\ File(d) \in Name
  BY MapsTyped, ItemTyped, Kinds
<1>2. CASE d = Cert
  BY <1>1, <1>2, Kinds DEF AgeInv
<1>3. CASE d # Cert
  <2>1. File(d) = "notice" /\ d = platform.notice /\ d # None
    BY <1>1, <1>3, Kinds DEF Current
  <2>2. d \in stored
    BY <1>1, <2>1 DEF StoredInv
  <2>3. disk["notice"] # None => disk["notice"] \in Doc /\ disk["notice"] <= platform.notice
    BY MapsTyped, Kinds DEF StoredInv, NewestInv
  <2>4. disk["notice"] # None => d <= disk["notice"]
    BY <2>1 DEF AgeInv, NotAfter
  <2>5. ASSUME work.todo # <<>>, File(Item) = "notice" PROVE d <= Item /\ Item <= platform.notice
    BY <1>1, <2>2, <2>5, Kinds DEF NewestInv
  <2> QED BY <1>1, <2>1, <2>3, <2>4, <2>5
<1> QED BY <1>2, <1>3

\* ... and what a sync is about to store under the name of the newest round is
\* that round itself
LEMMA StoredIsThere ==
  ASSUME IInv, NEW d \in Current, disk[File(d)] = d, work.todo # <<>>, File(Item) = File(d)
  PROVE  Item = d
<1> USE DEF IInv
<1>1. d \in Doc /\ Item \in Doc
  BY MapsTyped, ItemTyped
<1>2. CASE d = Cert
  BY <1>1, <1>2, Kinds
<1>3. CASE d # Cert
  <2>1. File(d) = "notice" /\ d = platform.notice /\ Item # Cert
    BY <1>1, <1>3, Kinds DEF Current
  <2>2. d <= Item /\ Item <= platform.notice
    BY <1>1, <2>1, Kinds DEF NewestInv, StoredInv
  <2> QED BY <1>1, <2>1, <2>2
<1> QED BY <1>2, <1>3

\* Only the release script takes the newest round from its name, and it marked
\* it, or a restore that overtakes it
LEMMA FileKept ==
  ASSUME IInv, [Next]_allVars, NEW d \in Current, d \notin overtaken', disk[File(d)] = d
  PROVE  \/ disk'[File(d)] = d
         \/ Unlink(File(d)) /\ manifest.archived[File(d)] = d
<1> USE DEF IInv
<1>1. d \in Doc /\ d # None /\ File(d) \in Name /\ File(d) \notin Dated /\ disk \in [Name -> Doc \cup {None}]
  BY MapsTyped, Kinds
<1>2. CASE UNCHANGED disk
  BY <1>2
<1>3. CASE Puts
  <2>1. work.todo # <<>>
    BY <1>3 DEF Puts, LockInv
  <2> QED BY <1>1, <1>3, <2>1, StoredIsThere DEF Puts
<1>4. CASE MoveAside
  <2>1. work.todo # <<>> /\ disk[File(Item)] # Item
    BY <1>4 DEF MoveAside, LockInv
  <2>2. File(Item) # File(d)
    BY <2>1, StoredIsThere
  <2> QED BY <1>1, <1>4, <2>2 DEF MoveAside
<1>5. ASSUME Unlink(File(d)) PROVE manifest.archived[File(d)] = d
  <2>1. File(d) \in unlinking
    BY <1>5 DEF Unlink
  <2>2. CASE d = Cert
    BY <1>1, <2>1, <2>2, Kinds DEF AgeInv
  <2>3. CASE d # Cert
    <3>1. File(d) = "notice" /\ d = platform.notice
      BY <1>1, <2>3, Kinds DEF Current
    <3>2. manifest.archived["notice"] # None /\ d <= manifest.archived["notice"]
      BY <1>1, <2>1, <3>1 DEF AgeInv, CopyInv
    <3>3. manifest.archived["notice"] \in Doc /\ manifest.archived["notice"] <= platform.notice
      BY <3>2, MapsTyped, Kinds DEF StoredInv, NewestInv
    <3> QED BY <1>1, <3>1, <3>2, <3>3
  <2> QED BY <2>2, <2>3
<1>6. ASSUME NEW n \in Name, Unlink(n), n # File(d) PROVE disk'[File(d)] = d
  BY <1>1, <1>6 DEF Unlink
<1>7. ASSUME NEW n \in Name, RestoreRename(n) PROVE disk'[File(d)] = d
  <2>1. CASE n # File(d)
    BY <1>1, <1>7, <2>1 DEF RestoreRename
  <2>2. CASE n = File(d)
    <3>1. d \in sending[n].since
      BY <1>1, <1>7, <2>2, UnderWayTyped DEF RestoreRename, SendingInv
    <3>2. d = sending[n].doc
      BY <1>7, <3>1 DEF RestoreRename
    <3> QED BY <1>1, <1>7, <2>2, <3>2 DEF RestoreRename
  <2> QED BY <2>1, <2>2
<1> QED BY <1>2, <1>3, <1>4, <1>5, <1>6, <1>7, DiskStep

\* What a step may do to the local variables of a sync
Resting == UNCHANGED <<pc, work>>
Over == pc' \in {"idle", "record"} /\ work' = NoWork
LookedUp ==
  /\ pc' = "items" /\ pc = "record"
  /\ work'.sources = manifest.sources /\ work'.archived = manifest.archived
  /\ work'.asked = {work'.todo[i] : i \in DOMAIN work'.todo}
  /\ InOrder(work'.todo, platform.notice)
  /\ UNCHANGED <<disk, manifest, stored>>
Skipped ==
  /\ pc' = "items" /\ work.todo # <<>> /\ work'.todo = Tail(work.todo)
  /\ \E n \in Name : work.sources[n] = Item
  /\ work'.sources = work.sources /\ work'.archived = work.archived
  /\ work'.asked = work.asked /\ work'.ok = work.ok
  /\ UNCHANGED <<disk, manifest, stored>>
GivenUp ==
  /\ pc' = "items" /\ ~ work'.ok /\ work.todo # <<>> /\ work'.todo \in {<<>>, Tail(work.todo)}
  /\ work'.sources = work.sources /\ work'.archived = work.archived
  /\ UNCHANGED <<disk, manifest, stored>>
Begun ==
  /\ pc' = "arriving" /\ work.todo # <<>> /\ HeldUnder(Item) = {}
  /\ work'.mode = "refresh" => disk[File(Item)] # None
  /\ work'.todo = work.todo /\ work'.asked = work.asked /\ work'.ok = work.ok
  /\ work'.sources = work.sources /\ work'.archived = work.archived
  /\ UNCHANGED <<disk, manifest, stored>>
Swapping ==
  /\ MoveAside
  /\ pc' = "swapping" /\ pc = "arriving" /\ work.mode = "refresh" /\ work'.mode = "refresh"
  /\ work'.todo = work.todo /\ work'.asked = work.asked /\ work'.ok = work.ok
  /\ work'.sources = work.sources /\ work'.archived = work.archived
Settled ==
  LET n == File(Item) IN
  /\ pc \in {"arriving", "swapping"} /\ pc' = "items"
  /\ work.todo # <<>> /\ work'.todo = Tail(work.todo)
  /\ work'.asked = work.asked /\ work'.ok = work.ok
  /\ \/ work'.sources = [work.sources EXCEPT ![n] = Item]
     \/ /\ pc = "swapping" /\ work.aside \in Dated
        /\ work'.sources = [MoveKey(work.sources, n, work.aside) EXCEPT ![n] = Item]
  /\ \/ /\ disk[n] = Item \/ work.archived[n] = Item
        /\ UNCHANGED <<disk, stored>> /\ work'.archived = work.archived
     \/ /\ disk' = [disk EXCEPT ![n] = Item] /\ stored' = stored \cup {Item}
        /\ work'.archived \in {work.archived, [work.archived EXCEPT ![n] = None]}
  /\ manifest' = manifest

LEMMA RecordMoves ==
  ASSUME IInv, [Next]_allVars
  PROVE  \/ Resting
         \/ /\ UNCHANGED <<platform, copies, offer, unlinking>>
            /\ Over \/ LookedUp \/ Skipped \/ GivenUp \/ Begun \/ Swapping \/ Settled
<1> USE DEF IInv
<1>0. work \in Works
  BY DEF TypeOK
<1>1. CASE SyncStep
  <2>1. CASE PlatformUpdates
    BY <2>1 DEF PlatformUpdates, Resting
  <2>2. CASE SaveSnapshot \/ SkipRecord \/ EndRecord \/ Die
    <3>1. Over
      BY <2>2 DEF SaveSnapshot, SkipRecord, EndRecord, Die, Over, SourcesInv, LockInv
    <3> QED BY <1>1, <2>2, <3>1 DEF SyncStep, SaveSnapshot, SkipRecord, EndRecord, Die, laptopVars, scriptVars, siteVars
  <2>3. ASSUME NEW notices \in BOOLEAN, NEW certificates \in BOOLEAN, Lookup(notices, certificates)
        PROVE  LookedUp /\ UNCHANGED <<platform, copies, offer, unlinking>>
    <3> DEFINE noticed == notices /\ platform.notice # 0
               certified == Certificates /\ certificates /\ rec.status = "registered"
               listed == (IF noticed THEN <<platform.notice>> ELSE <<>>) \o (IF certified THEN <<Cert>> ELSE <<>>)
    <3>1. noticed \in BOOLEAN /\ certified \in BOOLEAN /\ platform.notice \in Doc
      BY CertificatesAssumption DEF TypeOK
    <3>2. InOrder(listed, platform.notice)
      BY <3>1, ListedInOrder
    <3>3. /\ work'.todo = listed /\ work'.asked = {listed[i] : i \in DOMAIN listed}
          /\ work'.sources = manifest.sources /\ work'.archived = manifest.archived
      <4>1. work' = [NoWork EXCEPT !.todo = listed, !.asked = {listed[i] : i \in DOMAIN listed},
                                   !.sources = manifest.sources, !.archived = manifest.archived,
                                   !.facts = manifest.facts]
        BY <2>3 DEF Lookup
      <4> HIDE DEF listed
      <4> QED BY <4>1 DEF NoWork
    <3> HIDE DEF listed
    <3>4. LookedUp
      BY <2>3, <3>2, <3>3 DEF Lookup, LookedUp
    <3> QED BY <1>1, <2>3, <3>4 DEF SyncStep, Lookup, laptopVars, scriptVars, siteVars
  <2>4. CASE SkipHeld
    <3>1. PICK n \in HeldUnder(Item) :
             work' = IF work.facts[n] = None /\ disk[n] # None
                     THEN [NextItem(work) EXCEPT !.facts = NoteFacts(work.facts, n, disk[n])]
                     ELSE NextItem(work)
      BY <2>4 DEF SkipHeld
    <3>2. /\ work'.todo = Tail(work.todo) /\ work'.sources = work.sources
          /\ work'.archived = work.archived /\ work'.asked = work.asked /\ work'.ok = work.ok
      BY <1>0, <3>1 DEF NextItem, Works
    <3>3. n \in Name /\ work.sources[n] = Item
      BY <3>1 DEF HeldUnder
    <3>4. Skipped
      BY <2>4, <3>2, <3>3 DEF SkipHeld, Skipped
    <3> QED BY <1>1, <2>4, <3>4 DEF SyncStep, SkipHeld, laptopVars, scriptVars, siteVars
  <2>5. CASE StopOnLowDisk \/ DownloadFails
    <3>1. GivenUp
      BY <1>0, <2>5 DEF StopOnLowDisk, DownloadFails, GivenUp, Failed, NextItem, Works, LockInv
    <3> QED BY <1>1, <2>5, <3>1 DEF SyncStep, StopOnLowDisk, DownloadFails, laptopVars, scriptVars, siteVars
  <2>6. CASE BeginDownload
    <3>1. /\ work'.mode = "refresh" => disk[File(Item)] # None
          /\ work'.todo = work.todo /\ work'.asked = work.asked /\ work'.ok = work.ok
          /\ work'.sources = work.sources /\ work'.archived = work.archived
      BY <1>0, <2>6 DEF BeginDownload, Works
    <3>2. Begun
      BY <2>6, <3>1 DEF BeginDownload, Begun
    <3> QED BY <1>1, <2>6, <3>2 DEF SyncStep, BeginDownload, laptopVars, scriptVars, siteVars
  <2>7. CASE MoveAside
    <3>1. Swapping
      BY <1>0, <2>7 DEF MoveAside, Swapping, Works
    <3> QED BY <1>1, <2>7, <3>1 DEF SyncStep, MoveAside, laptopVars, scriptVars, siteVars
  <2>8. CASE ArriveNew
    <3>1. Settled
      BY <1>0, <2>8 DEF ArriveNew, Settled, NextItem, Works, LockInv
    <3> QED BY <1>1, <2>8, <3>1 DEF SyncStep, ArriveNew, laptopVars, scriptVars, siteVars
  <2>9. CASE ArriveCompared
    <3>1. Settled
      BY <1>0, <2>9 DEF ArriveCompared, Settled, NextItem, Works, LockInv
    <3> QED BY <1>1, <2>9, <3>1 DEF SyncStep, ArriveCompared, laptopVars, scriptVars, siteVars
  <2>10. CASE ArriveSame
    <3>1. Settled
      BY <1>0, <2>10 DEF ArriveSame, Settled, NextItem, Works, LockInv
    <3> QED BY <1>1, <2>10, <3>1 DEF SyncStep, ArriveSame, laptopVars, scriptVars, siteVars
  <2>11. CASE Swap
    <3>1. Settled
      BY <1>0, <2>11 DEF Swap, Settled, NextItem, Works, LockInv
    <3> QED BY <1>1, <2>11, <3>1 DEF SyncStep, Swap, laptopVars, scriptVars, siteVars
  <2> QED BY <1>1, <2>1, <2>2, <2>3, <2>4, <2>5, <2>6, <2>7, <2>8, <2>9, <2>10, <2>11 DEF SyncStep, Sync
<1>2. CASE ~SyncStep
  <2>1. Resting
    BY <1>2 DEF Next, PullDocument, Unlink, RestoreLook, RestoreRename, RestoreCut, PullManifest, Index, Offer, OfferLost,
       ReleaseDies, MarkArchived, ReleaseDone, Unarchive, BackfillFacts, allVars, vars, Resting
  <2> QED BY <2>1
<1> QED BY <1>1, <1>2

\* What a finished record leaves in .sync.json
Written ==
  /\ work.ok /\ work.todo = <<>> /\ pc = "items"
  /\ manifest'.asked = work.asked
  /\ manifest'.sources = work.sources /\ manifest'.archived = work.archived
  /\ UNCHANGED <<platform, disk, copies, stored>>

LEMMA WrittenStep ==
  ASSUME IInv, [Next]_allVars
  PROVE  \/ Written
         \/ /\ manifest'.asked = manifest.asked /\ manifest'.sources = manifest.sources
            /\ \/ manifest'.archived = manifest.archived
               \/ \E old \in BOOLEAN : MarkArchived(old)
               \/ \E answered \in BOOLEAN : Unarchive(answered)
<1> USE DEF IInv
<1>0. manifest \in Manifests
  BY DEF TypeOK
<1>1. CASE SyncStep
  <2>1. CASE EndRecord
    <3>1. CASE work.ok
      BY <1>1, <2>1, <3>1 DEF EndRecord, SyncStep, Written, siteVars, laptopVars
    <3>2. CASE ~ work.ok
      BY <2>1, <3>2 DEF EndRecord
    <3> QED BY <3>1, <3>2
  <2>2. CASE ~EndRecord
    BY <1>1, <2>2 DEF SyncStep, Sync, PlatformUpdates, SaveSnapshot, SkipRecord, Lookup, SkipHeld,
       StopOnLowDisk, BeginDownload, DownloadFails, ArriveNew, ArriveCompared, ArriveSame, MoveAside,
       Swap, Die
  <2> QED BY <2>1, <2>2
<1>2. CASE BackfillFacts
  BY <1>0, <1>2 DEF BackfillFacts, Manifests
<1>3. CASE \/ \E old \in BOOLEAN : MarkArchived(old)
           \/ \E answered \in BOOLEAN : Unarchive(answered)
  BY <1>0, <1>3 DEF MarkArchived, Unarchive, Manifests
<1>4. CASE /\ ~SyncStep /\ ~BackfillFacts
           /\ ~(\E old \in BOOLEAN : MarkArchived(old))
           /\ ~(\E answered \in BOOLEAN : Unarchive(answered))
  BY <1>4 DEF Next, PullDocument, Unlink, RestoreLook, RestoreRename, RestoreCut, PullManifest, Index, Offer, OfferLost,
     ReleaseDies, ReleaseDone, allVars, vars
<1> QED BY <1>1, <1>2, <1>3, <1>4

\* What is offered or marked was offered, marked, or on the laptop before
LEMMA MarksCome ==
  ASSUME IInv, [Next]_allVars, NEW n \in Name
  PROVE  /\ offer'[n] \in {None, offer[n], copies[n]}
         /\ manifest'.archived[n] \in {None, offer[n], manifest.archived[n], work.archived[n]}
         /\ work'.archived[n] \in {None, manifest.archived[n], work.archived[n]}
<1> USE DEF IInv
<1>1. manifest \in Manifests /\ work \in Works /\ offer \in Names
  BY DEF TypeOK
<1>2. offer'[n] \in {None, offer[n], copies[n]}
  <2>1. CASE Offer
    BY <2>1 DEF Offer, Candidates
  <2>2. offer' = offer \/ offer' = Empty \/ Offer
    BY DEF Next, SyncStep, PullDocument, Unlink, RestoreLook, RestoreRename, RestoreCut, PullManifest, Index, OfferLost, ReleaseDies,
       MarkArchived, ReleaseDone, Unarchive, BackfillFacts, allVars, archiveVars, laptopVars, scriptVars, restoreVars
  <2> QED BY <2>1, <2>2 DEF Empty
<1>3. manifest'.archived[n] \in {None, offer[n], manifest.archived[n], work.archived[n]}
  <2>1. ASSUME NEW old \in BOOLEAN, MarkArchived(old)
        PROVE  manifest'.archived[n] \in {offer[n], manifest.archived[n]}
    BY <1>1, <2>1 DEF MarkArchived, Checked, Manifests
  <2>2. ASSUME NEW answered \in BOOLEAN, Unarchive(answered)
        PROVE  manifest'.archived[n] \in {None, manifest.archived[n]}
    BY <1>1, <2>2 DEF Unarchive, Manifests
  <2> QED BY <2>1, <2>2, MarkStep
<1>4. work'.archived[n] \in {None, manifest.archived[n], work.archived[n]}
  <2>1. ASSUME NEW m \in Name, work'.archived = [work.archived EXCEPT ![m] = None]
        PROVE  work'.archived[n] \in {None, work.archived[n]}
    BY <1>1, <2>1 DEF Works, Names
  <2> QED BY <2>1, WorkStep DEF Puts, Empty
<1> QED BY <1>2, <1>3, <1>4

\* The files and the copies that carry the plain name of the certificate
LEMMA CertificateStep ==
  ASSUME IInv, [Next]_allVars
  PROVE  /\ disk'["cert"] \in {Cert, None, disk["cert"]}
         /\ copies'["cert"] \in {copies["cert"], disk["cert"]}
<1> USE DEF IInv
<1>1. copies' = copies \/ \E n \in Name : PullDocument(n)
  BY DEF Next, SyncStep, Unlink, RestoreLook, RestoreRename, RestoreCut, PullManifest, Index, Offer, OfferLost, ReleaseDies,
     MarkArchived, ReleaseDone, Unarchive, BackfillFacts, allVars, archiveVars, laptopVars, scriptVars, restoreVars
<1>2. copies'["cert"] \in {copies["cert"], disk["cert"]}
  BY <1>1, Kinds, MapsTyped DEF PullDocument
<1>3. disk'["cert"] \in {Cert, None, disk["cert"]}
  <2>1. CASE Puts
    <3>1. /\ disk'["cert"] = (IF "cert" = File(Item) THEN Item ELSE disk["cert"])
          /\ Item \in Doc
      BY <2>1, Kinds, MapsTyped DEF Puts
    <3>2. "cert" = File(Item) => Item = Cert
      BY <3>1, Kinds
    <3> QED BY <3>1, <3>2
  <2>2. CASE MoveAside
    <3>1. PICK old \in Dated : disk' = [disk EXCEPT ![old] = disk[File(Item)], ![File(Item)] = None]
      BY <2>2 DEF MoveAside
    <3>2. old # "cert"
      BY Kinds
    <3> QED BY <3>1, <3>2, Kinds, MapsTyped
  <2>3. ASSUME NEW n \in Name, Unlink(n) \/ RestoreRename(n)
        PROVE  disk'["cert"] \in {Cert, None, disk["cert"]}
    BY <2>3, Kinds, MapsTyped DEF Unlink, RestoreRename, SendingInv
  <2> QED BY <2>1, <2>2, <2>3, DiskStep
<1> QED BY <1>2, <1>3

\* No file, copy or mark under the plain name is newer than the item of a sync
LEMMA NoticeBelowItem ==
  ASSUME IInv, work.todo # <<>>, Item # Cert,
         NEW f \in {copies, offer, manifest.archived, work.archived}, f["notice"] # None
  PROVE  f["notice"] <= Item
BY Kinds DEF IInv, StoredInv, NewestInv

\* What the laptop has, offered or marked under the plain name of the notice
\* was there, in one of them or in the file, one step before
LEMMA NoticeCopies ==
  ASSUME IInv, [Next]_allVars
  PROVE  /\ \A f \in {offer', manifest'.archived, work'.archived} :
               f["notice"] \in {None, offer["notice"], manifest.archived["notice"],
                                work.archived["notice"], copies["notice"]}
         /\ \/ copies'["notice"] = copies["notice"]
            \/ /\ copies'["notice"] = disk["notice"] /\ disk["notice"] # None
               /\ UNCHANGED <<vars, offer, unlinking, sending, overtaken>>
<1>1. copies' = copies \/ \E n \in Name : PullDocument(n)
  BY DEF Next, SyncStep, Unlink, RestoreLook, RestoreRename, RestoreCut, PullManifest, Index, Offer, OfferLost,
     ReleaseDies, MarkArchived, ReleaseDone, Unarchive, BackfillFacts, allVars, archiveVars, laptopVars
<1>2. ASSUME NEW n \in Name, PullDocument(n)
      PROVE  \/ copies'["notice"] = copies["notice"]
             \/ /\ copies'["notice"] = disk["notice"] /\ disk["notice"] # None
                /\ UNCHANGED <<vars, offer, unlinking, sending, overtaken>>
  BY <1>2, Kinds, MapsTyped DEF IInv, PullDocument, scriptVars, restoreVars
<1> QED BY <1>1, <1>2, MarksCome, Kinds

LEMMA AgeStep == IInv /\ [Next]_allVars => AgeInv'
<1> SUFFICES ASSUME IInv, [Next]_allVars PROVE AgeInv'
  OBVIOUS
<1> USE DEF IInv
<1> DEFINE Olds == {offer["notice"], manifest.archived["notice"], work.archived["notice"], copies["notice"]}
           Marks == {offer', manifest'.archived, work'.archived}
<1>0. /\ TypeOK' /\ LockInv'
      /\ disk["notice"] \in Doc \cup {None} /\ disk'["notice"] \in Doc \cup {None}
      /\ Olds \subseteq Doc \cup {None}
      /\ sending["notice"].doc \in Doc \cup {None}
      /\ work.todo # <<>> => Item \in Doc
      /\ overtaken \subseteq overtaken'
  <2>1. TypeOK' /\ LockInv'
    BY TypeStep
  <2>2. disk' \in Names /\ sending \in Transfers
    BY <2>1 DEF TypeOK
  <2>3. "notice" \in Name
    BY Kinds
  <2>4. disk'["notice"] \in Doc \cup {None} /\ sending["notice"].doc \in Doc \cup {None}
    BY <2>2, <2>3 DEF Names, Transfers
  <2>5. Olds \cup {disk["notice"]} \subseteq Doc \cup {None}
    BY <2>3, MapsTyped
  <2> QED BY <2>1, <2>4, <2>5, ItemTyped, OvertakenStays
\* for any of the old values: it is no newer than the file that is there now
<1>1. ASSUME NEW k \in Olds, k # None, disk'["notice"] # None
      PROVE  k <= disk'["notice"] \/ k \in overtaken'
  <2>1. CASE disk'["notice"] = disk["notice"]
    BY <1>0, <1>1, <2>1 DEF AgeInv, NotAfter
  <2>2. CASE RestoreRename("notice") /\ disk'["notice"] = sending["notice"].doc
    <3>1. sending["notice"].doc # None
      BY <1>1, <2>2
    <3>2. k \in sending["notice"].since \/ k <= sending["notice"].doc \/ k \in overtaken
      BY <1>1, <3>1 DEF SendingInv, NotAfter
    <3>3. k \in sending["notice"].since => k = sending["notice"].doc \/ k \in overtaken'
      BY <2>2 DEF RestoreRename
    <3> QED BY <1>0, <1>1, <2>2, <3>1, <3>2, <3>3
  <2>3. CASE work.todo # <<>> /\ Item # Cert /\ disk'["notice"] = Item
    BY <1>1, <2>3, NoticeBelowItem
  <2> QED BY <1>1, <2>1, <2>2, <2>3, NoticeStep
<1>2. disk'["notice"] # None =>
        \A f \in {copies', offer', manifest'.archived, work'.archived} :
            f["notice"] # None => f["notice"] <= disk'["notice"] \/ f["notice"] \in overtaken'
  <2> SUFFICES ASSUME disk'["notice"] # None,
                      NEW f \in {copies', offer', manifest'.archived, work'.archived}, f["notice"] # None
               PROVE  f["notice"] <= disk'["notice"] \/ f["notice"] \in overtaken'
    OBVIOUS
  <2>1. f["notice"] \in Olds \/ (f["notice"] = disk["notice"] /\ disk' = disk)
    BY NoticeCopies DEF vars
  <2> QED BY <1>0, <1>1, <2>1
<1>3. \A f \in Marks : f["notice"] # None =>
         copies'["notice"] # None /\ (f["notice"] <= copies'["notice"] \/ f["notice"] \in overtaken')
  <2> SUFFICES ASSUME NEW f \in Marks, f["notice"] # None
               PROVE  copies'["notice"] # None /\ (f["notice"] <= copies'["notice"] \/ f["notice"] \in overtaken')
    OBVIOUS
  <2>1. f["notice"] \in Olds
    BY NoticeCopies
  <2>2. copies["notice"] # None /\ (f["notice"] <= copies["notice"] \/ f["notice"] \in overtaken)
    BY <1>0, <2>1 DEF AgeInv, NotAfter
  <2>3. CASE copies'["notice"] = copies["notice"]
    BY <1>0, <2>2, <2>3
  <2>4. CASE /\ copies'["notice"] = disk["notice"] /\ disk["notice"] # None
             /\ UNCHANGED <<vars, offer, unlinking, sending, overtaken>>
    <3>1. f["notice"] <= disk["notice"] \/ f["notice"] \in overtaken
      BY <2>1, <2>4 DEF AgeInv, NotAfter
    <3> QED BY <1>0, <2>4, <3>1
  <2> QED BY <2>3, <2>4, NoticeCopies
<1>4. disk'["cert"] \in {Cert, None} /\ copies'["cert"] \in {Cert, None}
  BY CertificateStep DEF AgeInv
<1>5. /\ "notice" \in unlinking' => disk'["notice"] <= manifest'.archived["notice"]
      /\ "cert" \in unlinking' => manifest'.archived["cert"] = Cert
  <2>1. ASSUME NEW old \in BOOLEAN, MarkArchived(old)
        PROVE  \A n \in unlinking' : disk'[n] # None /\ manifest'.archived[n] = disk'[n] /\ disk' = disk
    BY <2>1 DEF MarkArchived, Checked, TypeOK, Manifests, Names
  <2>2. CASE ~ \E old \in BOOLEAN : MarkArchived(old)
    <3>1. ASSUME NEW n \in unlinking'
          PROVE  n \in unlinking /\ n \in Name /\ lock = "release" /\ pc = "idle" /\ ~Unlink(n)
      BY <2>2, <3>1 DEF Next, SyncStep, PullDocument, Unlink, RestoreLook, RestoreRename, RestoreCut, PullManifest,
         Index, Offer, OfferLost, ReleaseDies, ReleaseDone, Unarchive, BackfillFacts, allVars, archiveVars,
         scriptVars, TypeOK, LockInv
    <3>2. ASSUME NEW n \in unlinking' PROVE manifest'.archived[n] = manifest.archived[n]
      BY <2>2, <3>1, <3>2, MarkStep DEF Unarchive
    <3>3. ASSUME "notice" \in unlinking'
          PROVE  disk'["notice"] <= manifest.archived["notice"]
      <4>1. /\ "notice" \in unlinking /\ pc = "idle" /\ work = NoWork /\ ~Unlink("notice")
            /\ disk["notice"] # None /\ manifest.archived["notice"] \in Doc
        <5>1. "notice" \in unlinking /\ pc = "idle" /\ ~Unlink("notice")
          BY <3>1, <3>3
        <5>2. disk["notice"] \in OnLaptop /\ manifest.archived["notice"] # None
          BY <5>1 DEF CopyInv
        <5> QED BY <1>0, <5>1, <5>2, Kinds DEF SourcesInv, OnLaptop, TypeOK
      <4>2. disk'["notice"] = disk["notice"] \/ (RestoreRename("notice") /\ disk'["notice"] = sending["notice"].doc)
        BY <4>1, DiskStep, Kinds DEF Puts, MoveAside, Unlink, RestoreRename, TypeOK, Names
      <4>3. CASE disk'["notice"] = disk["notice"]
        BY <3>3, <4>1, <4>3 DEF AgeInv
      <4>4. CASE RestoreRename("notice") /\ disk'["notice"] = sending["notice"].doc
        <5>1. /\ sending["notice"].doc # None /\ sending["notice"].doc <= disk["notice"]
              /\ disk["notice"] <= manifest.archived["notice"]
          BY <4>1, <4>4, UnderWayTyped, Kinds DEF RestoreRename, SendingInv, AgeInv
        <5> QED BY <1>0, <4>1, <4>4, <5>1
      <4> QED BY <4>2, <4>3, <4>4
    <3>4. "cert" \in unlinking' => manifest.archived["cert"] = Cert
      BY <3>1 DEF AgeInv
    <3> QED BY <3>2, <3>3, <3>4
  <2>3. ASSUME NEW old \in BOOLEAN, MarkArchived(old)
        PROVE  /\ "notice" \in unlinking' => disk'["notice"] <= manifest'.archived["notice"]
               /\ "cert" \in unlinking' => manifest'.archived["cert"] = Cert
    BY <1>0, <1>4, <2>1, <2>3
  <2> QED BY <2>2, <2>3
<1> QED BY <1>2, <1>3, <1>4, <1>5 DEF AgeInv, NotAfter

LEMMA SendingInvStep == IInv /\ [Next]_allVars => SendingInv'
<1> SUFFICES ASSUME IInv, [Next]_allVars PROVE SendingInv'
  OBVIOUS
<1> USE DEF IInv
<1> DEFINE Olds == {offer["notice"], manifest.archived["notice"], work.archived["notice"], copies["notice"]}
<1>0. /\ sending \in Transfers /\ overtaken \subseteq overtaken'
      /\ disk["notice"] \in Doc \cup {None} /\ disk'["notice"] \in Doc \cup {None}
      /\ Olds \subseteq Doc \cup {None} /\ sending["notice"].doc \in Doc \cup {None}
      /\ "notice" \in Name /\ "cert" \in Name
  <2>1. TypeOK'
    BY TypeStep
  <2>2. disk' \in Names /\ sending \in Transfers
    BY <2>1 DEF TypeOK
  <2>3. "notice" \in Name /\ "cert" \in Name
    BY Kinds
  <2>4. disk'["notice"] \in Doc \cup {None} /\ sending["notice"].doc \in Doc \cup {None}
    BY <2>2, <2>3 DEF Names, Transfers
  <2>5. Olds \cup {disk["notice"]} \subseteq Doc \cup {None}
    BY <2>3, MapsTyped
  <2> QED BY <2>2, <2>3, <2>4, <2>5, OvertakenStays
<1>1. ASSUME NEW n \in Name, sending'[n].doc = None PROVE sending'[n].since = {}
  BY <1>1, SendingStep DEF SendingInv
<1>2. ASSUME NEW n \in Name, sending'[n].doc # None, disk'[n] # None PROVE disk'[n] \in sending'[n].since
  BY <1>2, SendingStep DEF SendingInv, vars
<1>3. sending'["cert"].doc \in {Cert, None}
  BY <1>0, SendingStep DEF SendingInv, AgeInv
<1> DEFINE s == sending["notice"]
           t == sending'["notice"]
<1>4. ASSUME t.doc # None
      PROVE  /\ disk'["notice"] # None => t.doc <= disk'["notice"]
             /\ \A f \in {copies', offer', manifest'.archived, work'.archived} :
                   f["notice"] # None /\ f["notice"] \notin t.since =>
                      f["notice"] <= t.doc \/ f["notice"] \in overtaken'
  <2>1. CASE /\ disk["notice"] = None /\ copies["notice"] # None /\ t.doc = copies["notice"]
             /\ UNCHANGED <<vars, laptopVars, scriptVars, overtaken>>
    <3>1. \A k \in Olds : k # None => k <= t.doc \/ k \in overtaken
      BY <1>0, <2>1 DEF AgeInv, NotAfter
    <3>2. \A f \in {copies', offer', manifest'.archived, work'.archived} : f["notice"] \in Olds
      BY <2>1 DEF vars, laptopVars
    <3>3. disk'["notice"] = None
      BY <2>1 DEF vars
    <3> QED BY <2>1, <3>1, <3>2, <3>3
  <2>2. CASE /\ s.doc # None /\ t.doc = s.doc /\ s.since \subseteq t.since
             /\ disk'["notice"] \in {disk["notice"], None} \/ SyncStep
    <3>1. disk["notice"] # None => s.doc <= disk["notice"] /\ disk["notice"] \in s.since
      BY <1>0, <2>2 DEF SendingInv
    <3>2. disk'["notice"] # None => t.doc <= disk'["notice"]
      <4>1. CASE disk'["notice"] \in {disk["notice"], None}
        BY <2>2, <3>1, <4>1
      <4>2. CASE RestoreRename("notice")
        <5>1. sending'["notice"] = NoTransfer
          BY <1>0, <4>2 DEF RestoreRename, Transfers
        <5> QED BY <1>4, <5>1 DEF NoTransfer
      <4>3. CASE work.todo # <<>> /\ Item # Cert /\ disk'["notice"] = Item
        BY <1>0, <2>2, <4>3 DEF StoredInv, NewestInv
      <4> QED BY <4>1, <4>2, <4>3, NoticeStep
    <3>3. \A k \in Olds : k # None /\ k \notin t.since => k <= t.doc \/ k \in overtaken'
      BY <1>0, <2>2 DEF SendingInv, NotAfter
    <3>4. \A f \in {copies', offer', manifest'.archived, work'.archived} :
             f["notice"] \in Olds \cup {None} \/ (f["notice"] = disk["notice"] /\ disk["notice"] # None)
      BY NoticeCopies
    <3> QED BY <2>2, <3>1, <3>2, <3>3, <3>4
  <2> QED BY <1>0, <1>4, <2>1, <2>2, SendingStep
<1> QED BY <1>1, <1>2, <1>3, <1>4 DEF SendingInv, NotAfter

\* The record of identities after an item was handled
LEMMA SettledSources ==
  ASSUME IInv, Settled
  PROVE  /\ Item \in Doc /\ File(Item) \in Plain
         /\ work'.sources[File(Item)] = Item
         /\ \A p \in Plain \ {File(Item)} : work'.sources[p] = work.sources[p]
         /\ \A n \in Dated : \/ work'.sources[n] = work.sources[n]
                             \/ /\ pc = "swapping" /\ work.sources[File(Item)] # None
                                /\ work'.sources[n] = work.sources[File(Item)]
<1> USE DEF IInv
<1>1. Item \in Doc /\ File(Item) \in Plain /\ File(Item) \in Name /\ File(Item) \notin Dated
  BY ItemTyped DEF Settled
<1>2. work.sources \in [Name -> Doc \cup {None}] /\ Plain \subseteq Name /\ Dated \subseteq Name
  BY MapsTyped DEF Name
<1>3. CASE work'.sources = [work.sources EXCEPT ![File(Item)] = Item]
  BY <1>1, <1>2, <1>3
<1>4. CASE /\ pc = "swapping" /\ work.aside \in Dated
           /\ work'.sources = [MoveKey(work.sources, File(Item), work.aside) EXCEPT ![File(Item)] = Item]
  <2>1. MoveKey(work.sources, File(Item), work.aside) \in [Name -> Doc \cup {None}]
    BY <1>1, <1>2, <1>4 DEF MoveKey
  <2>2. \A n \in Name \ {work.aside} :
           MoveKey(work.sources, File(Item), work.aside)[n] = work.sources[n]
    BY <1>1, <1>2, <1>4 DEF MoveKey
  <2>3. \/ MoveKey(work.sources, File(Item), work.aside)[work.aside] = work.sources[work.aside]
        \/ /\ work.sources[File(Item)] # None
           /\ MoveKey(work.sources, File(Item), work.aside)[work.aside] = work.sources[File(Item)]
    BY <1>1, <1>2, <1>4 DEF MoveKey
  <2>4. work.aside \notin Plain
    BY <1>4, DatedAssumption
  <2> QED BY <1>1, <1>2, <1>4, <2>1, <2>2, <2>3, <2>4
<1> QED BY <1>1, <1>3, <1>4 DEF Settled

\* Nothing new is anywhere but the download that arrives
LEMMA StoredStep == IInv /\ [Next]_allVars => StoredInv'
<1> SUFFICES ASSUME IInv, [Next]_allVars PROVE StoredInv'
  OBVIOUS
<1> USE DEF IInv
<1>a. ASSUME NEW d \in stored' PROVE d \in Held' \cup overtaken'
  <2>1. CASE d \in stored
    <3>1. d \in Held \/ d \in overtaken'
      BY <2>1, OvertakenStays DEF StoredInv
    <3>2. d \in Held /\ d \notin Held' => d \in overtaken'
      BY LossStep
    <3> QED BY <3>1, <3>2
  <2>2. CASE d \notin stored
    <3>1. Puts /\ d = Item /\ d # None
      BY <1>a, <2>2, StoreStep DEF Puts
    <3>2. File(Item) \in Name /\ disk'[File(Item)] = Item
      BY <3>1 DEF Puts, TypeOK, Names
    <3> QED BY <3>1, <3>2 DEF Held
  <2> QED BY <2>1, <2>2
<1>b. ASSUME NEW n \in Name, sending'[n].doc # None PROVE sending'[n].doc \in stored'
  <2>1. stored \subseteq stored'
    BY StoreStep DEF Puts
  <2> QED BY <1>b, <2>1, SendingStep DEF StoredInv, vars
<1>c. SUFFICES ASSUME NEW n \in Name
               PROVE  \A f \in {disk, copies, offer, manifest.archived, work.archived, manifest.sources, work.sources}' :
                         f[n] # None => f[n] \in stored'
  BY <1>a, <1>b DEF StoredInv
<1>0. /\ TypeOK /\ stored \subseteq stored'
      /\ \A f \in {disk, copies, offer, manifest.archived, work.archived, manifest.sources, work.sources} :
            f \in [Name -> Doc \cup {None}]
  BY MapsTyped, StoreStep DEF Puts
<1>1. \A f \in {disk, copies, offer, manifest.archived, work.archived, manifest.sources, work.sources} :
         \A m \in Name : f[m] # None => f[m] \in stored
  BY DEF StoredInv
<1>2. disk'[n] # None => disk'[n] \in stored'
  <2>1. CASE Puts
    BY <1>0, <1>1, <2>1 DEF Puts
  <2>2. CASE MoveAside
    <3>1. File(Item) \in Name /\ Dated \subseteq Name
      BY <2>2, ItemTyped DEF MoveAside, LockInv, Name
    <3> QED BY <1>0, <1>1, <2>2, <3>1 DEF MoveAside
  <2>3. ASSUME NEW m \in Name, Unlink(m) \/ RestoreRename(m)
        PROVE  disk'[n] # None => disk'[n] \in stored'
    BY <1>0, <1>1, <2>3, UnderWayTyped DEF Unlink, RestoreRename, StoredInv
  <2> QED BY <1>0, <1>1, <2>1, <2>2, <2>3, DiskStep
<1>3. copies'[n] # None => copies'[n] \in stored'
  <2>1. copies' = copies \/ \E m \in Name : PullDocument(m)
    BY DEF Next, SyncStep, Unlink, RestoreLook, RestoreRename, RestoreCut, PullManifest, Index, Offer, OfferLost, ReleaseDies,
       MarkArchived, ReleaseDone, Unarchive, BackfillFacts, allVars, archiveVars, laptopVars, scriptVars, restoreVars
  <2> QED BY <1>0, <1>1, <2>1 DEF PullDocument
<1>4. \A f \in {offer', manifest'.archived, work'.archived} : f[n] # None => f[n] \in stored'
  BY <1>0, <1>1, MarksCome
<1>5. work'.sources[n] # None => work'.sources[n] \in stored'
  <2>1. CASE Settled
    <3>1. Item \in stored'
      <4>1. CASE disk[File(Item)] = Item \/ work.archived[File(Item)] = Item
        <5>1. Item # None /\ File(Item) \in Name
          BY <2>1, SettledSources, Kinds DEF Plain, Name
        <5> QED BY <1>0, <1>1, <4>1, <5>1
      <4>2. CASE stored' = stored \cup {Item}
        BY <4>2
      <4> QED BY <2>1, <4>1, <4>2 DEF Settled
    <3>2. work'.sources[n] \in {Item, work.sources[n], work.sources[File(Item)]} /\ File(Item) \in Name
      BY <2>1, SettledSources DEF Name
    <3> QED BY <1>0, <1>1, <3>1, <3>2
  <2>2. CASE ~ Settled
    <3>1. work'.sources[n] \in {work.sources[n], manifest.sources[n], None}
      BY <2>2, RecordMoves DEF Resting, Over, NoWork, Empty, LookedUp, Skipped, GivenUp, Begun, Swapping
    <3> QED BY <1>0, <1>1, <3>1
  <2> QED BY <2>1, <2>2
<1>6. manifest'.sources[n] # None => manifest'.sources[n] \in stored'
  BY <1>0, <1>1, WrittenStep DEF Written
<1> QED BY <1>2, <1>3, <1>4, <1>5, <1>6

\* The documents still to be handled are one less after each item
LEMMA OneLess ==
  ASSUME TypeOK, work.todo # <<>>, work'.todo = Tail(work.todo), work'.asked = work.asked
  PROVE  Handled' \subseteq Handled \cup {Item}
<1>1. work.todo \in Seq(Doc)
  BY MapsTyped
<1> SUFFICES ASSUME NEW d \in work.asked, d \notin Handled, \A i \in DOMAIN Tail(work.todo) : Tail(work.todo)[i] # d
             PROVE  d = Item
  BY DEF Handled
<1>2. PICK i \in DOMAIN work.todo : work.todo[i] = d
  BY DEF Handled
<1>3. i # 1 => i - 1 \in DOMAIN Tail(work.todo) /\ Tail(work.todo)[i - 1] = work.todo[i]
  BY <1>1
<1>4. i = 1
  BY <1>2, <1>3
<1>5. Item = work.todo[1]
  BY <1>1 DEF Item
<1> QED BY <1>2, <1>4, <1>5

LEMMA AskedStep == IInv /\ [Next]_allVars => AskedInv'
<1> SUFFICES ASSUME IInv, [Next]_allVars PROVE AskedInv'
  OBVIOUS
<1> USE DEF IInv
<1>0. /\ stored \subseteq stored'
      /\ platform.notice \in Doc /\ platform'.notice \in Doc /\ platform'.notice >= platform.notice
      /\ manifest.asked \subseteq Doc /\ work.asked \subseteq Doc
      /\ work.todo # <<>> => Item \in Doc
      /\ work.todo \in Seq(Doc)
  <2>1. TypeOK'
    BY TypeStep
  <2>2. platform'.notice \in Doc
    BY <2>1 DEF TypeOK
  <2> QED BY <2>2, MapsTyped, ItemTyped, StoreStep DEF Puts
<1>1. ASSUME NEW d \in manifest'.asked PROVE Answered(d, manifest.sources)' /\ d \in stored'
  <2>1. CASE Written
    <3>1. d \in Handled
      BY <1>1, <2>1 DEF Written, Handled
    <3> QED BY <2>1, <3>1 DEF Written, AskedInv, Answered
  <2>2. CASE manifest'.asked = manifest.asked /\ manifest'.sources = manifest.sources
    BY <1>0, <1>1, <2>2 DEF AskedInv, Answered
  <2> QED BY <2>1, <2>2, WrittenStep
<1>2. ASSUME work'.ok, NEW d \in Handled' PROVE Answered(d, work.sources)' /\ d \in stored'
  <2>1. CASE Resting
    BY <1>0, <1>2, <2>1 DEF Resting, AskedInv, Answered, Handled
  <2>2. CASE Over
    BY <1>2, <2>2 DEF Over, NoWork, Handled
  <2>3. CASE LookedUp
    BY <1>2, <2>3 DEF LookedUp, Handled
  <2>4. CASE Skipped
    <3>1. CASE d \in Handled
      BY <1>0, <1>2, <2>4, <3>1 DEF Skipped, AskedInv, Answered, Handled
    <3>2. CASE d = Item
      <4>1. PICK n \in Name : work.sources[n] = Item
        BY <2>4 DEF Skipped
      <4>2. Item \in Doc /\ Item # None
        BY <1>0, <2>4 DEF Skipped
      <4>3. Item \in stored
        BY <4>1, <4>2 DEF StoredInv
      <4>4. n \in Dated => Item # Cert /\ Item < platform.notice
        BY <1>0, <4>1, <4>2 DEF SourcesInv, Truthful
      <4>5. n = "cert" => Item = Cert
        BY <4>1, <4>2 DEF SourcesInv, Truthful
      <4>6. n = "notice" => Item # Cert
        BY <1>0, <4>1, <4>2 DEF SourcesInv, Truthful
      <4>7. n \in Dated \/ n = File(Item)
        BY <4>2, <4>5, <4>6, Kinds
      <4> QED BY <1>0, <2>4, <3>2, <4>1, <4>2, <4>3, <4>4, <4>7 DEF Skipped, Answered
    <3> QED BY <1>2, <2>4, <3>1, <3>2, OneLess DEF Skipped
  <2>5. CASE GivenUp
    BY <1>2, <2>5 DEF GivenUp
  <2>6. CASE Begun \/ Swapping
    <3>1. d \in Handled /\ work.ok /\ work'.sources = work.sources
      BY <1>2, <2>6 DEF Begun, Swapping, Handled
    <3> QED BY <1>0, <3>1 DEF AskedInv, Answered, Handled
  <2>7. CASE Settled
    <3>1. work.todo # <<>> /\ Item \in Doc /\ Item # None
      BY <1>0, <2>7 DEF Settled
    <3>2. CASE d = Item
      <4>1. Item \in stored'
        <5>1. File(Item) \in Name
          BY <2>7, SettledSources DEF Name
        <5> QED BY <1>0, <2>7, <3>1, <5>1 DEF Settled, StoredInv
      <4> QED BY <2>7, <3>2, <4>1, SettledSources DEF Answered
    <3>3. CASE d \in Handled /\ d # Item
      <4>1. work.ok /\ d \in Doc
        BY <1>0, <1>2, <2>7, <3>3 DEF Settled, Handled
      <4>2. Answered(d, work.sources) /\ d \in stored
        BY <3>3, <4>1 DEF AskedInv
      <4>3. ASSUME work.sources[File(d)] = d PROVE Answered(d, work.sources)'
        <5>1. CASE File(d) = File(Item)
          <6>1. d # Cert /\ Item # Cert /\ File(d) = "notice"
            BY <3>1, <3>3, <4>1, <5>1, Kinds
          <6>2. d <= Item /\ Item <= platform.notice
            BY <3>1, <4>1, <4>3, <6>1 DEF SourcesInv, NewestInv
          <6> QED BY <1>0, <3>1, <3>3, <4>1, <6>1, <6>2 DEF Answered
        <5>2. CASE File(d) # File(Item)
          <6>1. File(d) \in Plain
            BY <4>1, FileIsPlain
          <6> QED BY <2>7, <4>3, <5>2, <6>1, SettledSources DEF Answered
        <5> QED BY <5>1, <5>2
      <4> QED BY <1>0, <4>1, <4>2, <4>3 DEF Answered
    <3> QED BY <1>2, <2>7, <3>2, <3>3, OneLess DEF Settled
  <2> QED BY <2>1, <2>2, <2>3, <2>4, <2>5, <2>6, <2>7, RecordMoves
<1> QED BY <1>1, <1>2 DEF AskedInv

\* The newest round is shown until a record is written
LEMMA ShownIsKept ==
  ASSUME IInv, [Next]_allVars, NEW d \in Current, d \notin overtaken', Shown(d, manifest.archived), ~ Written
  PROVE  Shown(d, manifest.archived)'
<1> USE DEF IInv
<1>1. d \in Doc /\ d # None /\ File(d) \in Name /\ manifest \in Manifests /\ disk \in [Name -> Doc \cup {None}]
  BY MapsTyped, Kinds DEF TypeOK
<1>2. CASE manifest.archived[File(d)] = d
  <2>1. disk[File(d)] # None => disk[File(d)] = d
    BY <1>2, MarkedIsThere, OvertakenStays
  <2>2. ASSUME NEW old \in BOOLEAN, MarkArchived(old) PROVE manifest'.archived[File(d)] = d
    BY <1>1, <1>2, <2>1, <2>2 DEF MarkArchived, Checked, Manifests
  <2>3. ASSUME NEW answered \in BOOLEAN, Unarchive(answered)
        PROVE  manifest'.archived[File(d)] = d \/ disk'[File(d)] = d
    BY <1>1, <1>2, <2>1, <2>3 DEF Unarchive, Manifests
  <2> QED BY <1>2, <2>2, <2>3, WrittenStep DEF Shown
<1>3. CASE disk[File(d)] = d /\ manifest.archived[File(d)] # d
  BY <1>3, FileKept DEF Shown
<1> QED BY <1>2, <1>3 DEF Shown

LEMMA NothingDescribed ==
  ASSUME TypeOK, NEW marks
  PROVE  Truthful(Empty, marks)
BY Kinds, MapsTyped DEF Truthful, Empty

LEMMA SourcesStep == IInv /\ [Next]_allVars => SourcesInv'
<1> SUFFICES ASSUME IInv, [Next]_allVars PROVE SourcesInv'
  OBVIOUS
<1> USE DEF IInv
<1>0. /\ TypeOK' /\ LockInv'
      /\ platform.notice \in Doc /\ platform'.notice \in Doc /\ platform'.notice >= platform.notice
      /\ work.todo # <<>> => Item \in Doc
      /\ work.todo \in Seq(Doc)
      /\ manifest.sources \in [Name -> Doc \cup {None}] /\ work.sources \in [Name -> Doc \cup {None}]
  <2>1. TypeOK' /\ LockInv'
    BY TypeStep
  <2>2. platform'.notice \in Doc
    BY <2>1 DEF TypeOK
  <2> QED BY <2>1, <2>2, MapsTyped, ItemTyped, StoreStep
<1>1. Truthful(manifest.sources, manifest.archived)'
  <2>1. CASE Written
    BY <2>1, OvertakenStays DEF Written, SourcesInv, Truthful, Shown, Current
  <2>2. CASE ~ Written
    <3>1. manifest'.sources = manifest.sources
      BY <2>2, WrittenStep
    <3>2. Truthful(manifest.sources, manifest.archived)
      BY DEF SourcesInv
    <3>3. ASSUME NEW d \in Current' \ overtaken', manifest.sources[File(d)] = d PROVE Shown(d, manifest.archived)'
      <4>1. d \in Current
        BY <1>0, <3>2, <3>3, Kinds DEF Truthful, Current
      <4>2. d \notin overtaken
        BY <3>3, OvertakenStays
      <4> QED BY <2>2, <3>2, <3>3, <4>1, <4>2, ShownIsKept DEF Truthful
    <3> QED BY <1>0, <3>1, <3>2, <3>3 DEF Truthful
  <2> QED BY <2>1, <2>2
<1>2. Truthful(work.sources, work.archived)'
  <2>1. CASE work' = NoWork
    <3>1. Truthful(Empty, work.archived)'
      BY <1>0, Kinds DEF Truthful, Empty, Current
    <3> QED BY <2>1, <3>1 DEF NoWork
  <2>2. CASE LookedUp /\ UNCHANGED platform
    BY <2>2, OvertakenStays DEF LookedUp, SourcesInv, Truthful, Shown, Current
  <2>3. ASSUME work' # NoWork, work'.sources = work.sources, work'.archived = work.archived,
               Resting \/ pc = "arriving" \/ UNCHANGED disk
        PROVE  Truthful(work.sources, work.archived)'
    <3>1. Truthful(work.sources, work.archived)
      BY DEF SourcesInv
    <3>2. ASSUME NEW d \in Current' \ overtaken', work.sources[File(d)] = d PROVE Shown(d, work.archived)'
      <4>1. d \in Current
        BY <1>0, <3>1, <3>2, Kinds DEF Truthful, Current
      <4>2. Shown(d, work.archived)
        BY <3>1, <3>2, <4>1, OvertakenStays DEF Truthful
      <4>3. lock = "sync" \/ UNCHANGED disk
        BY <2>3 DEF Resting, SourcesInv, LockInv
      <4>4. disk[File(d)] = d => disk'[File(d)] = d
        BY <3>2, <4>1, <4>3, FileKept DEF Unlink
      <4> QED BY <2>3, <4>2, <4>4 DEF Shown
    <3> QED BY <1>0, <2>3, <3>1, <3>2 DEF Truthful
  <2>4. CASE Settled /\ UNCHANGED platform
    <3>1. Truthful(work.sources, work.archived)
      BY DEF SourcesInv
    <3>2. /\ Item \in Doc /\ Item # None /\ File(Item) \in Plain /\ File(Item) \in Name
          /\ work.todo # <<>> /\ Item <= platform.notice
      BY <2>4, SettledSources, FileIsPlain DEF Settled, NewestInv
    <3>3. work'.sources["cert"] \in {Cert, None}
      BY <2>4, <3>1, <3>2, SettledSources, Kinds DEF Truthful, Plain
    <3>4. work'.sources["notice"] \in (1 .. platform'.notice) \cup {None}
      <4>1. CASE File(Item) = "notice"
        BY <1>0, <2>4, <3>2, <4>1, SettledSources, Kinds
      <4>2. CASE File(Item) # "notice"
        BY <2>4, <3>1, <4>2, SettledSources DEF Truthful, Plain
      <4> QED BY <4>1, <4>2
    <3>5. ASSUME NEW n \in Dated PROVE work'.sources[n] \in (1 .. platform'.notice - 1) \cup {None}
      <4>1. CASE work'.sources[n] = work.sources[n]
        BY <2>4, <3>1, <4>1 DEF Truthful
      <4>2. CASE /\ pc = "swapping" /\ work.sources[File(Item)] # None
                 /\ work'.sources[n] = work.sources[File(Item)]
        <5>1. work.sources[File(Item)] # Item
          BY <4>2 DEF SourcesInv
        <5>2. Item # Cert /\ File(Item) = "notice"
          BY <3>1, <3>2, <4>2, <5>1, Kinds DEF Truthful
        <5>3. work.sources["notice"] <= Item /\ work.sources["notice"] \in 1 .. platform.notice
          BY <3>1, <3>2, <4>2, <5>2 DEF Truthful, SourcesInv
        <5> QED BY <1>0, <2>4, <3>2, <4>2, <5>1, <5>2, <5>3
      <4> QED BY <2>4, <4>1, <4>2, SettledSources
    <3>6. ASSUME NEW d \in Current' \ overtaken', work'.sources[File(d)] = d PROVE Shown(d, work.archived)'
      <4>1. d \in Current /\ d \in Doc /\ File(d) \in Plain /\ File(d) \in Name
        BY <1>0, <2>4, FileIsPlain DEF Current
      <4>2. CASE File(d) = File(Item)
        <5>1. d = Item
          BY <2>4, <3>6, <4>2, SettledSources
        <5> QED BY <2>4, <3>2, <5>1, MapsTyped DEF Settled, Shown
      <4>3. CASE File(d) # File(Item)
        <5>1. Shown(d, work.archived)
          BY <2>4, <3>1, <3>6, <4>1, <4>3, SettledSources, OvertakenStays DEF Truthful
        <5>2. disk'[File(d)] = disk[File(d)] /\ work'.archived[File(d)] = work.archived[File(d)]
          BY <2>4, <3>2, <4>1, <4>3, MapsTyped DEF Settled
        <5> QED BY <5>1, <5>2 DEF Shown
      <4> QED BY <4>2, <4>3
    <3> QED BY <3>3, <3>4, <3>5, <3>6 DEF Truthful
  <2>5. CASE Resting \/ Over
    BY <2>1, <2>3, <2>5 DEF Resting, Over
  <2>6. CASE Skipped \/ GivenUp \/ Begun \/ Swapping
    BY <2>1, <2>3, <2>6 DEF Skipped, GivenUp, Begun, Swapping
  <2> QED BY <2>2, <2>4, <2>5, <2>6, RecordMoves
<1>3. work'.todo # <<>> /\ Item' # Cert /\ work'.sources["notice"] # None => work'.sources["notice"] <= Item'
  <2>1. CASE work'.todo = work.todo /\ work'.sources = work.sources
    BY <2>1 DEF SourcesInv, Item
  <2>2. CASE work.todo # <<>> /\ work'.todo = Tail(work.todo)
    BY <2>2, RestTail DEF Item
  <2>3. CASE LookedUp
    <3>1. work'.todo # <<>> => Item' \in {platform.notice, Cert}
      BY <2>3 DEF LookedUp, InOrder, Item
    <3>2. manifest.sources["notice"] \in (1 .. platform.notice) \cup {None}
      BY DEF SourcesInv, Truthful
    <3> QED BY <1>0, <2>3, <3>1, <3>2 DEF LookedUp
  <2>4. CASE work'.todo = <<>>
    BY <2>4
  <2>5. CASE Resting \/ Begun \/ Swapping
    BY <2>1, <2>5 DEF Resting, Begun, Swapping
  <2>6. CASE Skipped \/ GivenUp \/ Settled
    BY <2>2, <2>4, <2>6 DEF Skipped, GivenUp, Settled
  <2>7. CASE Over
    BY <2>4, <2>7 DEF Over, NoWork
  <2> QED BY <2>3, <2>5, <2>6, <2>7, RecordMoves
<1>4. /\ pc' = "swapping" => work'.mode = "refresh"
      /\ pc' \in {"idle", "record"} => work' = NoWork
  BY RecordMoves DEF SourcesInv, Resting, Over, LookedUp, Skipped, GivenUp, Begun, Swapping, Settled
<1>5. pc' \in {"arriving", "swapping"} /\ work'.mode = "refresh" => work'.sources[File(Item')] # Item'
  <2>1. CASE Begun
    <3>1. Item' = Item /\ File(Item) \in Name
      BY <2>1, ItemTyped DEF Begun, Item
    <3> QED BY <2>1, <3>1 DEF Begun, HeldUnder
  <2>2. CASE Swapping
    <3>1. Item' = Item
      BY <2>2 DEF Swapping, Item
    <3> QED BY <2>2, <3>1 DEF Swapping, SourcesInv
  <2>3. CASE Resting
    BY <2>3 DEF Resting, SourcesInv, Item
  <2> QED BY <2>1, <2>2, <2>3, RecordMoves DEF Over, LookedUp, Skipped, GivenUp, Settled
<1> QED BY <1>1, <1>2, <1>3, <1>4, <1>5 DEF SourcesInv, File

-----------------------------------------------------------------------------
(* The theorems.                                                             *)

LEMMA Start == ArchiveInit => IInv
<1> SUFFICES ASSUME ArchiveInit PROVE IInv
  OBVIOUS
<1>1. TypeOK /\ LockInv
  BY TypeStart
<1>2. NewestInv
  BY DEF ArchiveInit, Init, NewestInv, NoWork
<1>3. CopyInv /\ GoneInv /\ GoneIsMarked /\ ArchivedHasCopy
  BY DEF ArchiveInit, Init, CopyInv, GoneInv, GoneIsMarked, ArchivedHasCopy,
     Empty, NoWork, NoManifest, NoTransfer
<1>4. AgeInv /\ SendingInv /\ StoredInv /\ AskedInv
  BY Kinds DEF ArchiveInit, Init, AgeInv, SendingInv, StoredInv, AskedInv, Handled, Empty, NoWork,
     NoManifest, NoTransfer
<1>5. SourcesInv
  <2>1. Truthful(Empty, manifest.archived) /\ Truthful(Empty, work.archived)
    BY <1>1, NothingDescribed
  <2> QED BY <2>1 DEF ArchiveInit, Init, SourcesInv, NoWork, NoManifest
<1> QED BY <1>1, <1>2, <1>3, <1>4, <1>5 DEF IInv

LEMMA Step == IInv /\ [Next]_allVars => IInv'
BY TypeStep, CopyStep, GoneStep, NewestStep, GoneIsMarkedStep, ArchivedHasCopyStep,
   AgeStep, SendingInvStep, SourcesStep, AskedStep, StoredStep DEF IInv

\* The inductive invariant: what each process may be in the middle of, a
\* transfer back between its look and its rename included, and that only what
\* the laptop has is offered, marked, deleted, overwritten or sent back.
THEOREM ArchiveInvariant == Spec => []IInv
BY Start, Step, PTL DEF Spec

\* Whatever is interrupted, a document held by one of the two machines stays
\* held by one of them, unless a restore lands on a file that a sync stored
\* under that name after rsync had looked.
THEOREM NoDocumentIsLost == Spec => NothingIsLost
<1>1. ASSUME IInv, [Next]_allVars
      PROVE  [\A d \in Held \ Held' :
                 \E n \in Name : Landed(n) /\ disk[n] = d /\ d \in sending[n].since]_allVars
  BY <1>1, LossStep
<1> QED BY <1>1, ArchiveInvariant, PTL DEF Spec, NothingIsLost

\* A file the release script deleted is marked, so that no sync fetches it again.
THEOREM DeletedFilesAreMarked == Spec => []GoneIsMarked
<1>1. IInv => GoneIsMarked
  BY DEF IInv
<1> QED BY <1>1, ArchiveInvariant, PTL

\* What .sync.json calls archived is on the laptop.
THEOREM ArchivedIsOnTheLaptop == Spec => []ArchivedHasCopy
<1>1. IInv => ArchivedHasCopy
  BY DEF IInv
<1> QED BY <1>1, ArchiveInvariant, PTL

\* A record that .sync.json calls synchronised shows what the platform shows,
\* and what it asked for earlier is on one of the two machines, the documents
\* excepted that a restore begun before they were stored overtook.
THEOREM SynchronisedIsShown == Spec => []RecordedIsShown
<1>1. ASSUME IInv PROVE RecordedIsShown
  <2> SUFFICES ASSUME NEW d \in manifest.asked \ overtaken
               PROVE  IF d \in Current THEN Shown(d, manifest.archived) ELSE d \in Held
    BY DEF RecordedIsShown
  <2>1. Answered(d, manifest.sources) /\ d \in stored
    BY <1>1 DEF IInv, AskedInv
  <2>2. CASE d \in Current
    <3>1. manifest.sources[File(d)] = d
      BY <1>1, <2>1, <2>2 DEF Answered, Current, IInv, TypeOK
    <3> QED BY <1>1, <2>2, <3>1 DEF IInv, SourcesInv, Truthful
  <2>3. CASE d \notin Current
    BY <1>1, <2>1, <2>3 DEF IInv, StoredInv
  <2> QED BY <2>2, <2>3
<1> QED BY <1>1, ArchiveInvariant, PTL

\* No step puts an older round back under the plain name, but a restore that
\* lands on what a sync stored there after rsync had looked.
THEOREM RoundsOnlyAdvance == Spec => NoStepBack
<1>1. ASSUME IInv, [Next]_allVars
      PROVE  [disk["notice"] # None /\ disk'["notice"] # None =>
                 \/ disk'["notice"] >= disk["notice"]
                 \/ Landed("notice") /\ disk["notice"] \in sending["notice"].since]_<<disk, sending>>
  <2>1. "notice" \in Name
    BY DEF Name, Plain
  <2>2. disk["notice"] \in Doc \cup {None}
    BY <1>1, <2>1 DEF IInv, TypeOK, Names
  <2>3. CASE work.todo # <<>> /\ Item # Cert /\ disk'["notice"] = Item
    <3>1. Item \in Doc
      BY <1>1, <2>3, ItemTyped DEF IInv
    <3>2. disk["notice"] # None => disk["notice"] <= Item
      BY <1>1, <2>1, <2>3 DEF IInv, StoredInv, NewestInv
    <3> QED BY <2>2, <2>3, <3>1, <3>2
  <2>4. ASSUME RestoreRename("notice"), disk["notice"] # None
        PROVE  Landed("notice") /\ disk["notice"] \in sending["notice"].since
    <3>1. sending["notice"].doc # None
      BY <1>1, <2>1, <2>4, UnderWayTyped DEF IInv, RestoreRename
    <3>2. disk'["notice"] = sending["notice"].doc /\ sending'["notice"] = NoTransfer
      BY <1>1, <2>1, <2>4 DEF IInv, RestoreRename, TypeOK, Names, Transfers
    <3> QED BY <1>1, <2>1, <2>4, <3>1, <3>2 DEF IInv, SendingInv, Landed, NoTransfer
  <2> QED BY <1>1, <2>2, <2>3, <2>4, NoticeStep
<1> QED BY <1>1, ArchiveInvariant, PTL DEF Spec, NoStepBack
=============================================================================
