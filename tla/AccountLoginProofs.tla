------------------------- MODULE AccountLoginProofs -------------------------
(***************************************************************************)
(* Proofs about AccountLogin, for any number of verifies, scans and        *)
(* passwords.                                                              *)
(***************************************************************************)
EXTENDS AccountLogin, TLAPS

\* What a write of accounts_status.json leaves: a typed streak.
LEMMA PersistType ==
  ASSUME TypeOK, NEW n \in 0..MaxStreak, NEW p \in BOOLEAN, Persist(n, p)
  PROVE  streak' \in 0..MaxStreak /\ paused' \in BOOLEAN
BY DEF TypeOK, Persist, statusVars

LEMMA ResetType ==
  ASSUME TypeOK, Persist(0, FALSE)
  PROVE  streak' \in 0..MaxStreak /\ paused' \in BOOLEAN
<1>1. CASE streak' = 0 /\ paused' = FALSE
  <2>1. streak' \in 0..MaxStreak
    BY <1>1, BoundAssumption
  <2>2. paused' \in BOOLEAN
    BY <1>1
  <2> QED BY <2>1, <2>2
<1>2. CASE UNCHANGED statusVars
  BY <1>2 DEF TypeOK, statusVars
<1> QED BY <1>1, <1>2 DEF Persist

LEMMA RecordType ==
  ASSUME TypeOK, RecordOk \/ RecordFail
  PROVE  streak' \in 0..MaxStreak /\ paused' \in BOOLEAN
<1>1. CASE RecordOk
  BY <1>1, ResetType DEF RecordOk
<1>2. CASE RecordFail
  <2> DEFINE n == IF streak < MaxStreak THEN streak + 1 ELSE streak
  <2>1. n \in 0..MaxStreak /\ (paused \/ (MaxFailures > 0 /\ n >= MaxFailures)) \in BOOLEAN
    BY BoundAssumption DEF TypeOK
  <2> QED BY <1>2, <2>1, PersistType DEF RecordFail
<1> QED BY <1>1, <1>2

\* Replacing one verify or one scan by a typed record keeps the type.
LEMMA VerifyType ==
  ASSUME TypeOK, NEW j \in Verify, NEW r \in VerifyRecord
  PROVE  [verify EXCEPT ![j] = r] \in [Verify -> VerifyRecord]
BY DEF TypeOK

LEMMA ScanType ==
  ASSUME TypeOK, NEW s \in Scan, NEW r \in ScanRecord, SetScan(s, r)
  PROVE  scan' \in [Scan -> ScanRecord]
BY DEF TypeOK, SetScan

LEMMA NoRecords == NoVerify \in VerifyRecord /\ NoScan \in ScanRecord
BY DEF NoVerify, VerifyRecord, Answer, NoScan, ScanRecord

LEMMA InitType == Init => TypeOK
<1> SUFFICES ASSUME Init
             PROVE  TypeOK
  OBVIOUS
<1>1. verify \in [Verify -> VerifyRecord] /\ scan \in [Scan -> ScanRecord]
  BY NoRecords DEF Init
<1>2. streak \in 0..MaxStreak
  BY BoundAssumption DEF Init
<1> QED BY <1>1, <1>2 DEF Init, TypeOK

\* Type correctness of the console's handlers, verifies and deletions.
LEMMA WebType ==
  ASSUME TypeOK, LoopStep \/ (\E j \in Verify : VerifyStep(j)) \/ DeleteStep
  PROVE  TypeOK'
<1>1. ASSUME NEW pw \in Password, AddAccount(pw) \/ EditSave(pw)
      PROVE  TypeOK'
  BY <1>1 DEF TypeOK, AddAccount, EditSave, Handle, statusVars
<1>2. CASE Relogin \/ EditUnlink \/ SpawnRefused
  BY <1>2 DEF TypeOK, Relogin, EditUnlink, SpawnRefused, Handle, statusVars
<1>3. CASE EditReset
  <2>1. streak' \in 0..MaxStreak /\ paused' \in BOOLEAN
    BY <1>3, ResetType DEF EditReset
  <2> QED BY <1>3, <2>1 DEF TypeOK, EditReset, Handle
<1>4. ASSUME NEW j \in Verify, Spawn(j)
      PROVE  TypeOK'
  <2>1. [at |-> "asking", pw |-> inHand, seq |-> gen + 1, answer |-> "unavailable"] \in VerifyRecord
    BY DEF TypeOK, VerifyRecord, Answer
  <2>2. verify' \in [Verify -> VerifyRecord]
    BY <1>4, <2>1, VerifyType DEF Spawn
  <2> QED BY <1>4, <2>2 DEF TypeOK, Spawn, Handle, statusVars
<1>5. ASSUME NEW j \in Verify, VerifyAnswer(j) \/ VerifyCheck(j)
      PROVE  TypeOK'
  <2>1. verify' \in [Verify -> VerifyRecord]
    BY <1>5, NoRecords DEF TypeOK, VerifyAnswer, VerifyCheck, VerifyRecord, Answers, Answer
  <2> QED BY <1>5, <2>1 DEF TypeOK, VerifyAnswer, VerifyCheck, statusVars, webVars
<1>6. ASSUME NEW j \in Verify, VerifyCache(j)
      PROVE  TypeOK'
  <2>1. verify' \in [Verify -> VerifyRecord] /\ session' \in Password \cup {None}
    BY <1>6, NoRecords DEF TypeOK, VerifyCache, VerifyRecord, Answer
  <2> QED BY <1>6, <2>1 DEF TypeOK, VerifyCache, statusVars, webVars
<1>7. ASSUME NEW j \in Verify, VerifyAccepted(j) \/ VerifyRejected(j)
      PROVE  TypeOK'
  <2>1. streak' \in 0..MaxStreak /\ paused' \in BOOLEAN
    BY <1>7, RecordType DEF VerifyAccepted, VerifyRejected
  <2>2. verify' \in [Verify -> VerifyRecord]
    BY <1>7, NoRecords, VerifyType DEF VerifyAccepted, VerifyRejected
  <2> QED BY <1>7, <2>1, <2>2 DEF TypeOK, VerifyAccepted, VerifyRejected
<1>8. CASE DeleteForget
  <2>1. streak' \in 0..MaxStreak /\ paused' \in BOOLEAN
    BY <1>8, ResetType DEF DeleteForget
  <2> QED BY <1>8, <2>1 DEF TypeOK, DeleteForget
<1>9. CASE DeleteSave \/ DeleteBump \/ DeleteUnlink
  BY <1>9 DEF TypeOK, DeleteSave, DeleteBump, DeleteUnlink, statusVars
<1> QED BY <1>1, <1>2, <1>3, <1>4, <1>5, <1>6, <1>7, <1>8, <1>9
        DEF LoopStep, VerifyStep, DeleteStep

\* Type correctness of the scans.
LEMMA ScanStepType ==
  ASSUME TypeOK, NEW s \in Scan, ScanStep(s)
  PROVE  TypeOK'
<1> DEFINE Kept == scan' \in [Scan -> ScanRecord]
<1>0. scan[s] \in ScanRecord
  BY DEF TypeOK
<1>1. CASE StartScan(s)
  <2>1. Kept
    BY <1>1, ScanType DEF StartScan, TypeOK, ScanRecord
  <2> QED BY <1>1, <2>1 DEF StartScan, ScanFrame, TypeOK, statusVars, webVars
<1>2. CASE CheckPause(s)
  <2>1. [scan[s] EXCEPT !.at = "password", !.kind = "single",
                        !.fresh = scan[s].force \/ session = None] \in ScanRecord
    BY <1>0 DEF ScanRecord
  <2>2. Kept
    BY <1>2, <2>1, NoRecords, ScanType DEF CheckPause
  <2> QED BY <1>2, <2>2 DEF CheckPause, ScanFrame, TypeOK, statusVars, webVars
<1>3. CASE CurrentPassword(s)
  <2>1. [scan[s] EXCEPT !.at = "token",
                        !.pw = IF stored # None THEN stored ELSE scan[s].ram] \in ScanRecord
    BY <1>0 DEF ScanRecord, TypeOK
  <2>2. Kept
    BY <1>3, <2>1, ScanType DEF CurrentPassword
  <2> QED BY <1>3, <2>2 DEF CurrentPassword, ScanFrame, TypeOK, statusVars, webVars
<1>4. CASE GetToken(s)
  <2>1. [scan[s] EXCEPT !.force = FALSE,
           !.at = IF ~scan[s].force /\ session # None THEN "hit" ELSE "asking"] \in ScanRecord
    BY <1>0 DEF ScanRecord
  <2>2. Kept
    BY <1>4, <2>1, ScanType DEF GetToken
  <2> QED BY <1>4, <2>2 DEF GetToken, ScanFrame, TypeOK, statusVars, webVars
<1>5. CASE LoginAnswer(s)
  <2>1. [scan[s] EXCEPT !.at = "minted"] \in ScanRecord /\ [scan[s] EXCEPT !.at = "rejected"] \in ScanRecord
    BY <1>0 DEF ScanRecord
  <2>2. Kept
    BY <1>5, <2>1, NoRecords, ScanType DEF LoginAnswer
  <2> QED BY <1>5, <2>2 DEF LoginAnswer, ScanFrame, TypeOK, statusVars, webVars
<1>6. CASE LoginRejected(s)
  <2>1. Kept /\ streak' \in 0..MaxStreak /\ paused' \in BOOLEAN
    BY <1>6, NoRecords, ScanType, RecordType DEF LoginRejected
  <2> QED BY <1>6, <2>1 DEF LoginRejected, ScanFrame, TypeOK, webVars
<1>7. CASE LoginSucceeded(s)
  <2>1. [scan[s] EXCEPT !.at = IF scan[s].part = "sync" THEN "sync" ELSE "fetch",
                        !.pw = None, !.force = FALSE, !.fresh = FALSE] \in ScanRecord
    BY <1>0 DEF ScanRecord
  <2>2. Kept
    BY <1>7, <2>1, ScanType DEF LoginSucceeded
  <2>3. streak' \in 0..MaxStreak /\ paused' \in BOOLEAN
    <3>1. CASE RecordOk
      BY <3>1, RecordType
    <3>2. CASE UNCHANGED statusVars
      BY <3>2 DEF TypeOK, statusVars
    <3> QED BY <1>7, <3>1, <3>2 DEF LoginSucceeded
  <2> QED BY <1>7, <2>2, <2>3 DEF LoginSucceeded, ScanFrame, TypeOK, webVars
<1>8. CASE CacheToken(s)
  <2>1. [scan[s] EXCEPT !.at = "got"] \in ScanRecord
    BY <1>0 DEF ScanRecord
  <2>2. Kept /\ session' \in Password \cup {None}
    BY <1>0, <1>8, <2>1, ScanType DEF CacheToken, ScanRecord
  <2> QED BY <1>8, <2>2 DEF CacheToken, ScanFrame, TypeOK, statusVars, webVars
<1>9. CASE Fetch(s) \/ SyncAttachments(s)
  <2>1. [scan[s] EXCEPT !.at = "sync"] \in ScanRecord
    BY <1>0 DEF ScanRecord
  <2>2. \A part \in {"fetch", "sync"} :
          [scan[s] EXCEPT !.at = "password", !.part = part, !.force = TRUE, !.fresh = TRUE]
            \in ScanRecord
    BY <1>0 DEF ScanRecord
  <2>3. Kept
    BY <1>9, <2>1, <2>2, NoRecords, ScanType DEF Fetch, SyncAttachments, LoginAgain
  <2>4. session' \in Password \cup {None}
    BY <1>9 DEF Fetch, SyncAttachments, LoginAgain, TypeOK
  <2> QED BY <1>9, <2>3, <2>4 DEF Fetch, SyncAttachments, ScanFrame, TypeOK, statusVars, webVars
<1>10. CASE ScanEnds(s)
  <2>1. Kept
    BY <1>10, NoRecords, ScanType DEF ScanEnds
  <2> QED BY <1>10, <2>1 DEF ScanEnds, ScanFrame, TypeOK, statusVars, webVars
<1> QED BY <1>1, <1>2, <1>3, <1>4, <1>5, <1>6, <1>7, <1>8, <1>9, <1>10 DEF ScanStep

LEMMA TypeStep == TypeOK /\ [Next]_vars => TypeOK'
<1> SUFFICES ASSUME TypeOK, [Next]_vars
             PROVE  TypeOK'
  OBVIOUS
<1>1. CASE LoopStep \/ (\E j \in Verify : VerifyStep(j)) \/ DeleteStep
  BY <1>1, WebType
<1>2. ASSUME NEW s \in Scan, ScanStep(s)
      PROVE  TypeOK'
  BY <1>2, ScanStepType
<1>3. CASE PlatformChanges \/ TokenExpires
  BY <1>3 DEF PlatformChanges, TokenExpires, TypeOK, statusVars, webVars
<1>4. CASE WebDies
  <2>1. verify' \in [Verify -> VerifyRecord]
    BY <1>4, NoRecords DEF WebDies
  <2> QED BY <1>4, <2>1 DEF WebDies, Handle, TypeOK, statusVars
<1>5. CASE UNCHANGED vars
  BY <1>5 DEF vars, statusVars, webVars, TypeOK
<1> QED BY <1>1, <1>2, <1>3, <1>4, <1>5 DEF Next

\* Every variable keeps its type in every behaviour of AccountLogin.
THEOREM TypeCorrect == Spec => []TypeOK
<1>1. Init => TypeOK
  BY InitType
<1>2. TypeOK /\ [Next]_vars => TypeOK'
  BY TypeStep
<1> QED BY <1>1, <1>2, PTL DEF Spec

-----------------------------------------------------------------------------
\* A login outcome, an edit and a deletion move the pause with the streak.
LEMMA PersistPause ==
  ASSUME TypeOK, PauseMatchesStreak, NEW n \in 0..MaxStreak, NEW p \in BOOLEAN,
         Persist(n, p), p <=> (MaxFailures > 0 /\ n >= MaxFailures)
  PROVE  PauseMatchesStreak'
BY DEF PauseMatchesStreak, Persist, statusVars

LEMMA PausePersists ==
  ASSUME TypeOK, PauseMatchesStreak, Persist(0, FALSE) \/ RecordFail
  PROVE  PauseMatchesStreak'
<1>1. CASE Persist(0, FALSE)
  <2>1. CASE streak' = 0 /\ paused' = FALSE
    BY <2>1, BoundAssumption DEF PauseMatchesStreak
  <2>2. CASE UNCHANGED statusVars
    BY <2>2 DEF PauseMatchesStreak, statusVars
  <2> QED BY <1>1, <2>1, <2>2 DEF Persist
<1>2. CASE RecordFail
  <2> DEFINE n == IF streak < MaxStreak THEN streak + 1 ELSE streak
             p == paused \/ (MaxFailures > 0 /\ n >= MaxFailures)
  <2>1. n \in 0..MaxStreak /\ n >= streak
    BY BoundAssumption DEF TypeOK
  <2>2. streak >= MaxFailures => n >= MaxFailures
    BY <2>1, BoundAssumption DEF TypeOK
  <2>3. p \in BOOLEAN /\ (p <=> (MaxFailures > 0 /\ n >= MaxFailures))
    BY <2>2 DEF PauseMatchesStreak
  <2>4. Persist(n, p)
    BY <1>2 DEF RecordFail
  <2> HIDE DEF n, p
  <2> QED BY <2>1, <2>3, <2>4, PersistPause
<1> QED BY <1>1, <1>2

LEMMA PauseStep == TypeOK /\ PauseMatchesStreak /\ [Next]_vars => PauseMatchesStreak'
<1> SUFFICES ASSUME TypeOK, PauseMatchesStreak, [Next]_vars
             PROVE  PauseMatchesStreak'
  OBVIOUS
<1>0. ASSUME UNCHANGED statusVars
      PROVE  PauseMatchesStreak'
  BY <1>0 DEF PauseMatchesStreak, statusVars
<1>1. CASE LoopStep
  <2>1. UNCHANGED statusVars \/ Persist(0, FALSE)
    BY <1>1 DEF LoopStep, AddAccount, Relogin, EditSave, EditUnlink, EditReset, Spawn, SpawnRefused
  <2> QED BY <1>0, <2>1, PausePersists
<1>2. ASSUME NEW j \in Verify, VerifyStep(j)
      PROVE  PauseMatchesStreak'
  <2>1. UNCHANGED statusVars \/ Persist(0, FALSE) \/ RecordFail
    BY <1>2 DEF VerifyStep, VerifyAnswer, VerifyCheck, VerifyCache, VerifyAccepted, VerifyRejected,
                RecordOk
  <2> QED BY <1>0, <2>1, PausePersists
<1>3. CASE DeleteStep
  <2>1. UNCHANGED statusVars \/ Persist(0, FALSE)
    BY <1>3 DEF DeleteStep, DeleteSave, DeleteForget, DeleteBump, DeleteUnlink
  <2> QED BY <1>0, <2>1, PausePersists
<1>4. ASSUME NEW s \in Scan, ScanStep(s)
      PROVE  PauseMatchesStreak'
  <2>1. UNCHANGED statusVars \/ Persist(0, FALSE) \/ RecordFail
    BY <1>4 DEF ScanStep, StartScan, CheckPause, CurrentPassword, GetToken, LoginAnswer,
                LoginRejected, CacheToken, LoginSucceeded, Fetch, SyncAttachments, ScanEnds, RecordOk
  <2> QED BY <1>0, <2>1, PausePersists
<1>5. CASE PlatformChanges \/ TokenExpires \/ WebDies \/ UNCHANGED vars
  BY <1>0, <1>5 DEF PlatformChanges, TokenExpires, WebDies, vars
<1> QED BY <1>1, <1>2, <1>3, <1>4, <1>5 DEF Next

-----------------------------------------------------------------------------
\* What the generations guarantee about the verifies.
Generations ==
  /\ GenerationsGrow
  /\ HandlerHoldsStored
  /\ CurrentIsAboutStored
  /\ ReportsOnStoredPassword

\* A step that leaves the console's memory alone does not disturb it, unless
\* it stores another password.
LEMMA GenerationsFrame ==
  ASSUME Generations, UNCHANGED <<gen, handler, inHand, verify>>, stored' \in {stored, None}
  PROVE  Generations'
BY DEF Generations, GenerationsGrow, HandlerHoldsStored, CurrentIsAboutStored, ReportsOnStoredPassword

LEMMA GenerationsStep == TypeOK /\ Generations /\ [Next]_vars => Generations'
<1> SUFFICES ASSUME TypeOK, Generations, [Next]_vars
             PROVE  Generations'
  OBVIOUS
<1> USE DEF Generations, GenerationsGrow, HandlerHoldsStored, CurrentIsAboutStored,
            ReportsOnStoredPassword
<1>1. ASSUME NEW pw \in Password, AddAccount(pw) \/ EditSave(pw)
      PROVE  Generations'
  BY <1>1 DEF AddAccount, EditSave, LoopFree, Handle
<1>2. CASE Relogin \/ EditUnlink \/ EditReset
  BY <1>2 DEF Relogin, EditUnlink, EditReset, LoopFree, Handle
<1>3. CASE SpawnRefused
  <2>1. gen \in Nat /\ \A j \in Verify : verify[j].seq \in Nat
    BY DEF TypeOK, VerifyRecord
  <2> QED BY <1>3, <2>1 DEF SpawnRefused, Handle
<1>4. ASSUME NEW j \in Verify, Spawn(j)
      PROVE  Generations'
  <2>1. gen \in Nat /\ \A i \in Verify : verify[i].seq \in Nat
    BY DEF TypeOK, VerifyRecord
  <2>2. \A i \in Verify \ {j} : verify'[i] = verify[i]
    BY <1>4 DEF Spawn, TypeOK
  <2>3. verify'[j] = [at |-> "asking", pw |-> inHand, seq |-> gen + 1, answer |-> "unavailable"]
    BY <1>4 DEF Spawn, TypeOK
  <2>4. gen' = gen + 1 /\ stored' = stored /\ handler' = "none" /\ handler # "none"
    BY <1>4 DEF Spawn, Handle
  <2>5. GenerationsGrow'
    BY <2>1, <2>2, <2>3, <2>4
  <2>6. HandlerHoldsStored'
    BY <2>4
  <2>7. CurrentIsAboutStored'
    BY <2>1, <2>2, <2>3, <2>4
  <2>8. ReportsOnStoredPassword'
    BY <2>2, <2>3, <2>4
  <2> QED BY <2>5, <2>6, <2>7, <2>8
<1>5. ASSUME NEW j \in Verify, VerifyStep(j)
      PROVE  Generations'
  <2>1. /\ \A i \in Verify \ {j} : verify'[i] = verify[i]
        /\ UNCHANGED <<gen, handler, inHand, stored>>
    BY <1>5 DEF VerifyStep, VerifyAnswer, VerifyCheck, VerifyCache, VerifyAccepted, VerifyRejected,
                TypeOK, webVars
  <2>2. \/ verify'[j].at = "idle"
        \/ /\ verify[j].at # "idle"
           /\ verify'[j].pw = verify[j].pw /\ verify'[j].seq = verify[j].seq
           /\ verify'[j].at \in {"passed", "cached"} =>
                \/ verify[j].at \in {"passed", "cached"}
                \/ handler = "none" /\ verify[j].seq = gen
    BY <1>5 DEF VerifyStep, VerifyAnswer, VerifyCheck, VerifyCache, VerifyAccepted, VerifyRejected,
                TypeOK, VerifyRecord, NoVerify, LoopFree
  <2> QED BY <2>1, <2>2
<1>6. CASE DeleteSave \/ DeleteForget \/ DeleteUnlink
  BY <1>6, GenerationsFrame DEF DeleteSave, DeleteForget, DeleteUnlink
<1>7. CASE DeleteBump
  <2>1. gen \in Nat /\ \A j \in Verify : verify[j].seq \in Nat
    BY DEF TypeOK, VerifyRecord
  <2> QED BY <1>7, <2>1 DEF DeleteBump
<1>8. CASE (\E s \in Scan : ScanStep(s)) \/ PlatformChanges \/ TokenExpires \/ UNCHANGED vars
  <2>1. UNCHANGED <<gen, handler, inHand, verify>> /\ stored' = stored
    BY <1>8 DEF ScanStep, StartScan, CheckPause, CurrentPassword, GetToken, LoginAnswer,
                LoginRejected, CacheToken, LoginSucceeded, Fetch, SyncAttachments, ScanEnds,
                ScanFrame, PlatformChanges, TokenExpires, vars, webVars
  <2> QED BY <2>1, GenerationsFrame
<1>9. CASE WebDies
  BY <1>9 DEF WebDies, NoVerify, Handle
<1> QED BY <1>1, <1>2, <1>3, <1>4, <1>5, <1>6, <1>7, <1>8, <1>9 DEF Next, LoopStep, DeleteStep

LEMMA InitIInv == Init => IInv
<1> SUFFICES ASSUME Init
             PROVE  IInv
  OBVIOUS
<1>1. TypeOK
  BY InitType
<1>2. PauseMatchesStreak
  BY BoundAssumption DEF Init, PauseMatchesStreak
<1>3. GenerationsGrow /\ HandlerHoldsStored /\ CurrentIsAboutStored /\ ReportsOnStoredPassword
  BY DEF Init, NoVerify, GenerationsGrow, HandlerHoldsStored, CurrentIsAboutStored,
         ReportsOnStoredPassword
<1> QED BY <1>1, <1>2, <1>3 DEF IInv

\* The invariant of AccountLogin: types, generations, and the pause that
\* follows the streak, in every behaviour.
THEOREM InductiveInvariant == Spec => []IInv
<1>1. Init => IInv
  BY InitIInv
<1>2. IInv /\ [Next]_vars => IInv'
  BY TypeStep, PauseStep, GenerationsStep DEF IInv, Generations
<1> QED BY <1>1, <1>2, PTL DEF Spec

\* A verify that reports, reports on the stored password (_verify_async).
THEOREM ReportsCorrect == Spec => []ReportsOnStoredPassword
<1>1. IInv => ReportsOnStoredPassword
  BY DEF IInv
<1> QED BY <1>1, InductiveInvariant, PTL

\* The pause stands exactly while the streak is at its limit (status_store).
THEOREM PauseCorrect == Spec => []PauseMatchesStreak
<1>1. IInv => PauseMatchesStreak
  BY DEF IInv
<1> QED BY <1>1, InductiveInvariant, PTL
=============================================================================
