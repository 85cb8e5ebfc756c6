------------------------- MODULE ScanPipelineProofs -------------------------
(***************************************************************************)
(* Proofs about ScanPipeline and Differ, for any registrations, page size, *)
(* caps and bounds, and whatever the platform answers.                     *)
(***************************************************************************)
EXTENDS ScanPipeline, SequenceTheorems, TLAPS

-----------------------------------------------------------------------------
(* The differ *)

LEMMA KeyIsWho == \A r \in Record : Key(r) = r.who
BY RegAssumption DEF Record, Key, Id, No

\* Among records that name everyone once, number or row id find the record of
\* the same registration and no other.
LEMMA CounterpartIsSame ==
  ASSUME NEW P \in SUBSET Record, NEW c \in Record, OneRecordEach(P)
  PROVE  Counterparts(c, P) = {p \in P : p.who = c.who}
<1> DEFINE byNo == {p \in P : No(c) # None /\ No(p) = No(c)}
           byId == {p \in P : Id(c) # None /\ Id(p) = Id(c)}
           same == {p \in P : p.who = c.who}
<1>1. Counterparts(c, P) = IF byNo # {} THEN byNo ELSE byId
  BY DEF Counterparts
<1>2. byNo \subseteq same /\ byId \subseteq same
  BY RegAssumption DEF No, Id, Record
<1>3. \A p, q \in same : p = q
  BY DEF OneRecordEach
<1>4. ASSUME NEW p \in same, byNo = {}
      PROVE  p \in byId
  <2>1. ~(c.numbered /\ p.numbered)
    BY <1>4, RegAssumption DEF No, Record
  <2>2. c.who \in HasId
    BY <2>1, <1>4 DEF Record
  <2> QED BY <2>2, RegAssumption DEF Id, Record
<1>5. CASE byNo = {}
  BY <1>1, <1>2, <1>4, <1>5
<1>6. CASE byNo # {}
  BY <1>1, <1>2, <1>3, <1>6
<1> HIDE DEF byNo
<1> QED BY <1>5, <1>6

LEMMA DiffType ==
  ASSUME NEW C \in SUBSET Record, NEW P \in SUBSET Record
  PROVE  Diff(C, P) \in DiffResult
BY DEF Diff, NoDiff, DiffResult

\* The three parts of a diff, by registration.
LEMMA DiffSays ==
  ASSUME NEW C \in SUBSET Record, NEW P \in SUBSET Record, P # {},
         OneRecordEach(P)
  PROVE  /\ Diff(C, P).added = {c \in C : c.who \notin Who(P)}
         /\ Diff(C, P).changed =
              {c \in C : \E p \in P : p.who = c.who /\ p.st # c.st}
         /\ Diff(C, P).removed = {p \in P : p.who \notin Who(C)}
<1>1. \A c \in C : Counterparts(c, P) = {p \in P : p.who = c.who}
  BY CounterpartIsSame
<1>2. Diff(C, P) =
        [added   |-> {c \in C : Counterparts(c, P) = {}},
         changed |-> {c \in C : \E p \in Counterparts(c, P) : p.st # c.st},
         removed |-> {p \in P : \A c \in C : p \notin Counterparts(c, P)}]
  BY DEF Diff
<1>3. Diff(C, P).added = {c \in C : c.who \notin Who(P)}
  BY <1>1, <1>2 DEF Who
<1>4. Diff(C, P).changed = {c \in C : \E p \in P : p.who = c.who /\ p.st # c.st}
  BY <1>1, <1>2
<1>5. Diff(C, P).removed = {p \in P : p.who \notin Who(C)}
  BY <1>1, <1>2 DEF Who
<1> QED BY <1>3, <1>4, <1>5

\* If what a diff is about has changed, the diff is not empty.
LEMMA ChangeShows ==
  ASSUME NEW C \in SUBSET Record, NEW P \in SUBSET Record, P # {},
         OneRecordEach(P), Content(C) # Content(P)
  PROVE  HasChanges(Diff(C, P))
<1>1. SUFFICES ASSUME Diff(C, P) = NoDiff
               PROVE  Content(C) = Content(P)
  BY DEF HasChanges
<1>2. /\ {c \in C : c.who \notin Who(P)} = {}
      /\ {c \in C : \E p \in P : p.who = c.who /\ p.st # c.st} = {}
      /\ {p \in P : p.who \notin Who(C)} = {}
  BY <1>1, DiffSays DEF NoDiff
<1>3. \A c \in C : \E p \in P : p.who = c.who /\ p.st = c.st
  BY <1>2 DEF Who
<1>4. \A p \in P : \E c \in C : p.who = c.who /\ p.st = c.st
  BY <1>2 DEF Who
<1> QED BY <1>3, <1>4 DEF Content

\* A merge names everyone once, forgets no number, and nobody it fetched.
LEMMA MergeProperties ==
  ASSUME NEW P \in SUBSET Record, NEW F \in SUBSET Record
  PROVE  /\ Merge(P, F) \subseteq P \cup F
         /\ \A p \in P : p.numbered => p.who \in Who(Merge(P, F))
         /\ OneRecordEach(P) /\ OneRecordEach(F) /\ Keeps(P, F)
              => OneRecordEach(Merge(P, F))
<1>1. Merge(P, F) \subseteq P \cup F
  BY DEF Merge
<1>2. ASSUME NEW p \in P, p.numbered
      PROVE  p.who \in Who(Merge(P, F))
  <2>1. No(p) = p.who /\ p.who # None
    BY <1>2, RegAssumption DEF No, Record
  <2>2. CASE \E f \in F : No(f) = No(p)
    <3>1. PICK f \in F : No(f) = No(p)
      BY <2>2
    <3>2. f.who = p.who
      BY <3>1, <2>1 DEF No
    <3> QED BY <3>2 DEF Who, Merge
  <2>3. CASE \A f \in F : No(f) # No(p)
    BY <2>1, <2>3 DEF Who, Merge
  <2> QED BY <2>2, <2>3
<1>3. ASSUME OneRecordEach(P), OneRecordEach(F), Keeps(P, F)
      PROVE  OneRecordEach(Merge(P, F))
  <2>1. ASSUME NEW p \in P, No(p) # None, \A f \in F : No(f) # No(p), NEW f \in F
        PROVE  f.who # p.who
    <3>1. p.numbered /\ No(p) = p.who
      BY <2>1 DEF No
    <3> QED BY <1>3, <2>1, <3>1 DEF Keeps, No
  <2> QED BY <1>3, <2>1 DEF OneRecordEach, Merge
<1> QED BY <1>1, <1>2, <1>3

-----------------------------------------------------------------------------
(* The platform's list *)

LEMMA RowsOfSubSeq ==
  ASSUME NEW s \in Seq(Record), NEW m \in Nat \ {0}, NEW n \in Int, n <= Len(s)
  PROVE  SubSeq(s, m, n) \in Seq(Record) /\ Rows(SubSeq(s, m, n)) \subseteq Rows(s)
<1>1. \A i \in m..n : i \in 1..Len(s) /\ s[i] \in Record
  BY ElementOfSeq, LenProperties
<1>2. /\ SubSeq(s, m, n) \in Seq(Record)
      /\ Len(SubSeq(s, m, n)) = IF m <= n THEN n - m + 1 ELSE 0
      /\ \A i \in 1..(n - m + 1) : SubSeq(s, m, n)[i] = s[m + i - 1]
  BY <1>1, SubSeqProperties
<1>3. ASSUME NEW i \in 1..Len(SubSeq(s, m, n))
      PROVE  \E j \in 1..Len(s) : SubSeq(s, m, n)[i] = s[j]
  <2>1. i \in 1..(n - m + 1) /\ m + i - 1 \in m..n
    BY <1>2, <1>3
  <2> QED BY <1>1, <1>2, <2>1
<1> QED BY <1>2, <1>3 DEF Rows

\* Putting a new registration at the head or at the end.
LEMMA RowsOfArrival ==
  ASSUME NEW s \in Seq(Record), NEW r \in Record, NoTwice(s), r.who \notin Who(Rows(s)),
         NEW t, t = <<r>> \o s \/ t = Append(s, r)
  PROVE  t \in Seq(Record) /\ NoTwice(t) /\ Rows(t) = Rows(s) \cup {r}
<1>1. Len(s) \in Nat
  BY LenProperties
<1>2. CASE t = <<r>> \o s
  <2>1. <<r>> \in Seq(Record) /\ Len(<<r>>) = 1 /\ <<r>>[1] = r
    OBVIOUS
  <2>2. /\ t \in Seq(Record) /\ Len(t) = 1 + Len(s)
        /\ \A i \in 1..(1 + Len(s)) : t[i] = IF i <= 1 THEN <<r>>[i] ELSE s[i - 1]
    BY <1>2, <2>1, ConcatProperties
  <2>3. t[1] = r /\ \A i \in 1..Len(s) : t[i + 1] = s[i]
    BY <1>1, <2>1, <2>2
  <2>4. Rows(t) = Rows(s) \cup {r}
    <3>1. ASSUME NEW i \in 1..Len(t)
          PROVE  t[i] \in Rows(s) \cup {r}
      BY <1>1, <2>1, <2>2 DEF Rows
    <3>2. ASSUME NEW i \in 1..Len(s)
          PROVE  s[i] \in Rows(t)
      <4>1. i + 1 \in 1..Len(t)
        BY <1>1, <2>2
      <4> QED BY <2>3, <4>1 DEF Rows
    <3>3. r \in Rows(t)
      <4>1. 1 \in 1..Len(t)
        BY <1>1, <2>2
      <4> QED BY <2>3, <4>1 DEF Rows
    <3> QED BY <3>1, <3>2, <3>3 DEF Rows
  <2>5. NoTwice(t)
    <3> SUFFICES ASSUME NEW i \in 1..Len(t), NEW j \in 1..Len(t), t[i].who = t[j].who
                 PROVE  i = j
      BY DEF NoTwice
    <3>1. \A k \in 1..Len(s) : s[k].who # r.who
      BY DEF Rows, Who
    <3>2. \A k \in 1..Len(t) : k # 1 => k - 1 \in 1..Len(s) /\ t[k] = s[k - 1]
      BY <1>1, <2>2
    <3>3. CASE i = 1 \/ j = 1
      BY <2>3, <3>1, <3>2, <3>3
    <3>4. CASE i # 1 /\ j # 1
      <4>3. s[i - 1].who = s[j - 1].who /\ i - 1 \in 1..Len(s) /\ j - 1 \in 1..Len(s)
        BY <3>2, <3>4
      <4>1. i - 1 = j - 1
        BY <4>3 DEF NoTwice
      <4>2. i \in Int /\ j \in Int
        BY <1>1, <2>2
      <4> QED BY <4>1, <4>2
    <3> QED BY <3>3, <3>4
  <2> QED BY <2>2, <2>4, <2>5
<1>3. CASE t = Append(s, r)
  <2>2. /\ t \in Seq(Record) /\ Len(t) = Len(s) + 1
        /\ \A i \in 1..Len(s) : t[i] = s[i]
        /\ t[Len(s) + 1] = r
    BY <1>3, <1>1
  <2>3. \A i \in 1..Len(t) : i \in 1..Len(s) \/ i = Len(s) + 1
    BY <1>1, <2>2
  <2>4. Rows(t) = Rows(s) \cup {r}
    <3>1. 1..Len(s) \subseteq 1..Len(t) /\ Len(s) + 1 \in 1..Len(t)
      BY <1>1, <2>2
    <3>2. \A i \in 1..Len(t) : t[i] \in Rows(s) \cup {r}
      BY <2>2, <2>3 DEF Rows
    <3>3. \A i \in 1..Len(s) : s[i] \in Rows(t)
      BY <2>2, <3>1 DEF Rows
    <3>4. r \in Rows(t)
      BY <2>2, <3>1 DEF Rows
    <3> QED BY <3>2, <3>3, <3>4 DEF Rows
  <2>5. NoTwice(t)
    <3>1. \A k \in 1..Len(s) : s[k].who # r.who
      BY DEF Rows, Who
    <3> QED BY <2>2, <2>3, <3>1 DEF NoTwice
  <2> QED BY <2>2, <2>4, <2>5
<1> QED BY <1>2, <1>3

\* Taking the registration at place i away.
LEMMA RowsOfWithdrawal ==
  ASSUME NEW s \in Seq(Record), NEW i \in 1..Len(s), NoTwice(s)
  PROVE  LET t == SubSeq(s, 1, i - 1) \o SubSeq(s, i + 1, Len(s))
         IN  /\ t \in Seq(Record) /\ NoTwice(t) /\ Rows(t) \subseteq Rows(s)
             /\ \A j \in 1..Len(s) : j # i => s[j] \in Rows(t)
<1> DEFINE a == SubSeq(s, 1, i - 1)
           b == SubSeq(s, i + 1, Len(s))
           t == a \o b
<1>1. Len(s) \in Nat /\ i \in Nat /\ i >= 1 /\ i <= Len(s)
  BY LenProperties
<1>2. \A k \in 1..Len(s) : s[k] \in Record
  BY ElementOfSeq
<1>3. /\ a \in Seq(Record) /\ Len(a) = i - 1
      /\ \A k \in 1..(i - 1) : a[k] = s[k]
  <2>1. \A k \in 1..(i - 1) : s[k] \in Record
    BY <1>1, <1>2
  <2>2. /\ a \in Seq(Record) /\ Len(a) = IF 1 <= i - 1 THEN (i - 1) - 1 + 1 ELSE 0
        /\ \A k \in 1..((i - 1) - 1 + 1) : a[k] = s[1 + k - 1]
    BY <1>1, <2>1, SubSeqProperties
  <2> QED BY <1>1, <2>2
<1>4. /\ b \in Seq(Record) /\ Len(b) = Len(s) - i
      /\ \A k \in 1..(Len(s) - i) : b[k] = s[i + k]
  <2>1. \A k \in (i + 1)..Len(s) : s[k] \in Record
    BY <1>1, <1>2
  <2>2. /\ b \in Seq(Record)
        /\ Len(b) = IF i + 1 <= Len(s) THEN Len(s) - (i + 1) + 1 ELSE 0
        /\ \A k \in 1..(Len(s) - (i + 1) + 1) : b[k] = s[(i + 1) + k - 1]
    BY <1>1, <2>1, SubSeqProperties
  <2> QED BY <1>1, <2>2
<1> HIDE DEF a, b
<1>5. /\ t \in Seq(Record) /\ Len(t) = Len(a) + Len(b)
      /\ \A k \in 1..(Len(a) + Len(b)) : t[k] = IF k <= Len(a) THEN a[k] ELSE b[k - Len(a)]
  BY <1>3, <1>4, ConcatProperties
<1> DEFINE from(k) == IF k < i THEN k ELSE k + 1
<1>6. ASSUME NEW k \in 1..Len(t)
      PROVE  from(k) \in 1..Len(s) /\ t[k] = s[from(k)]
  <2>1. k \in 1..(Len(s) - 1) /\ k \in Int
    BY <1>1, <1>3, <1>4, <1>5
  <2>2. CASE k < i
    BY <1>1, <1>3, <1>4, <1>5, <2>1, <2>2
  <2>3. CASE ~(k < i)
    <3>1. k - (i - 1) \in 1..(Len(s) - i) /\ i + (k - (i - 1)) = k + 1
      BY <1>1, <2>1, <2>3
    <3>2. t[k] = b[k - (i - 1)]
      BY <1>1, <1>3, <1>4, <1>5, <2>1, <2>3
    <3> QED BY <1>1, <1>4, <2>1, <2>3, <3>1, <3>2
  <2> QED BY <2>2, <2>3
<1>7. \A j, k \in 1..Len(t) : from(j) = from(k) => j = k
  BY <1>1
<1>8. NoTwice(t)
  <2> SUFFICES ASSUME NEW j \in 1..Len(t), NEW k \in 1..Len(t), t[j].who = t[k].who
               PROVE  j = k
    BY DEF NoTwice
  <2>1. from(j) = from(k)
    BY <1>6 DEF NoTwice
  <2> QED BY <1>7, <2>1
<1>9. Rows(t) \subseteq Rows(s)
  BY <1>6 DEF Rows
<1>10. ASSUME NEW j \in 1..Len(s), j # i
       PROVE  s[j] \in Rows(t)
  <2>1. \E k \in 1..Len(t) : from(k) = j
    <3>1. Len(t) = Len(s) - 1 /\ j \in Int
      BY <1>1, <1>3, <1>4, <1>5
    <3>2. CASE j < i
      BY <1>1, <3>1, <3>2
    <3>3. CASE j > i
      <4>1. j - 1 \in 1..Len(t) /\ ~(j - 1 < i)
        BY <1>1, <3>1, <3>3
      <4> QED BY <4>1, <3>1
    <3> QED BY <1>1, <1>10, <3>1, <3>2, <3>3
  <2> QED BY <1>6, <2>1 DEF Rows
<1> QED BY <1>5, <1>8, <1>9, <1>10 DEF a, b

\* Replacing a record by another of the same registration.
LEMMA RowsOfProgress ==
  ASSUME NEW s \in Seq(Record), NEW i \in 1..Len(s), NEW r \in Record,
         r.who = s[i].who, NoTwice(s)
  PROVE  LET t == [s EXCEPT ![i] = r]
         IN  t \in Seq(Record) /\ NoTwice(t) /\ Rows(t) \subseteq Rows(s) \cup {r}
<1> DEFINE t == [s EXCEPT ![i] = r]
<1>1. /\ t \in Seq(Record) /\ Len(t) = Len(s)
      /\ \A j \in 1..Len(s) : t[j] = IF j = i THEN r ELSE s[j]
  BY ExceptSeq
<1> HIDE DEF t
<1>2. NoTwice(t)
  BY <1>1 DEF NoTwice
<1>3. Rows(t) \subseteq Rows(s) \cup {r}
  BY <1>1 DEF Rows
<1> QED BY <1>1, <1>2, <1>3 DEF t

\* Whatever the platform answers is rows of its list.
LEMMA AnswersAreRows ==
  ASSUME platform \in Seq(Record), NEW n \in Nat \ {0}, NEW rows \in Answers(n)
  PROVE  rows \in Seq(Record) /\ Rows(rows) \subseteq Rows(platform)
<1>1. Len(platform) \in Nat
  BY LenProperties
<1>2. ASSUME NEW p \in Nat \ {0}
      PROVE  Page(p) \in Seq(Record) /\ Rows(Page(p)) \subseteq Rows(platform)
  <2>1. (p - 1) * PageSize \in Nat /\ p * PageSize \in Nat
    BY <1>2, PageAssumption
  <2> DEFINE m == (p - 1) * PageSize + 1
             k == Smaller(p * PageSize, Len(platform))
  <2>2. m \in Nat \ {0}
    BY <2>1
  <2>3. k \in Int /\ k <= Len(platform)
    BY <1>1, <2>1 DEF Smaller
  <2> HIDE DEF m, k
  <2>4. SubSeq(platform, m, k) \in Seq(Record) /\ Rows(SubSeq(platform, m, k)) \subseteq
      Rows(platform)
    BY <2>2, <2>3, RowsOfSubSeq
  <2> QED BY <2>4 DEF Page, m, k
<1>3. CASE \E k \in 0..Len(Page(n)) : rows = SubSeq(Page(n), 1, k)
  <2>1. PICK k \in 0..Len(Page(n)) : rows = SubSeq(Page(n), 1, k)
    BY <1>3
  <2>2. Page(n) \in Seq(Record) /\ Len(Page(n)) \in Nat
    BY <1>2, LenProperties
  <2>3. k \in Int /\ k <= Len(Page(n))
    BY <2>2
  <2>4. SubSeq(Page(n), 1, k) \in Seq(Record) /\ Rows(SubSeq(Page(n), 1, k)) \subseteq
      Rows(Page(n))
    BY <2>2, <2>3, RowsOfSubSeq
  <2> QED BY <1>2, <2>1, <2>4
<1>4. CASE LastPage > 0 /\ rows = Page(LastPage)
  <2>1. LastPage \in Int
    BY <1>1, PageAssumption DEF LastPage
  <2>2. LastPage \in Nat \ {0}
    BY <1>4, <2>1
  <2> QED BY <1>2, <1>4, <2>2
<1> QED BY <1>3, <1>4 DEF Answers

-----------------------------------------------------------------------------
(* Typing *)

LEMMA NoDiffType ==
  NoDiff \in DiffResult
BY DEF NoDiff, DiffResult

LEMMA RowsType ==
  ASSUME NEW s \in Seq(Record)
  PROVE  Rows(s) \subseteq Record /\ Who(Rows(s)) \subseteq Reg
<1>1. Rows(s) \subseteq Record
  BY ElementOfSeq DEF Rows
<1> QED BY <1>1 DEF Who, Record

\* What the platform does to its list.
LEMMA PlatformType ==
  ASSUME platform \in Seq(Record), NoTwice(platform), Who(Rows(platform)) \subseteq ever,
         Arrive \/ Withdraw \/ Progress
  PROVE  platform' \in Seq(Record) /\ NoTwice(platform')
<1>1. CASE Arrive
  <2>1. PICK r \in Record : /\ r.who \notin ever
                            /\ platform' \in {<<r>> \o platform, Append(platform, r)}
    BY <1>1 DEF Arrive
  <2> QED BY <2>1, RowsOfArrival
<1>2. CASE Withdraw
  BY <1>2, RowsOfWithdrawal DEF Withdraw
<1>3. CASE Progress
  <2>1. PICK i \in 1..Len(platform), r \in Record :
          r.who = platform[i].who /\ platform' = [platform EXCEPT ![i] = r]
    BY <1>3 DEF Progress
  <2> QED BY <2>1, RowsOfProgress
<1> QED BY <1>1, <1>2, <1>3

\* What a scan forgets keeps its type.
LEMMA ForgetLoopType ==
  ASSUME ForgetLoop
  PROVE  cap' \in Cap \cup {0} /\ page' \in Nat \ {0} /\ retried' \in BOOLEAN
<1>1. cap' = 0 /\ page' = 1 /\ retried' = FALSE
  BY DEF ForgetLoop
<1>2. cap' \in Cap \cup {0}
  BY <1>1
<1>3. page' \in Nat \ {0}
  BY <1>1
<1>4. retried' \in BOOLEAN
  BY <1>1
<1> QED BY <1>2, <1>3, <1>4

LEMMA ForgetHistoryType ==
  ASSUME ForgetHistory
  PROVE  present' \subseteq Reg /\ blemish' \subseteq Blemish /\ arrivals' \in Nat
BY DEF ForgetHistory

LEMMA ForgetScanType ==
  ASSUME ForgetScan
  PROVE  /\ cap' \in Cap \cup {0} /\ page' \in Nat \ {0} /\ retried' \in BOOLEAN
         /\ fetched' \subseteq Record /\ complete' \in BOOLEAN /\ total' \in Nat
         /\ records' \subseteq Record /\ diff' \in DiffResult
         /\ present' \subseteq Reg /\ blemish' \subseteq Blemish /\ arrivals' \in Nat
<1>1. ForgetLoop /\ ForgetHistory /\ diff' = NoDiff
  BY DEF ForgetScan, ForgetList
<1>2. fetched' = {} /\ complete' = TRUE /\ total' = 0 /\ records' = {}
  BY DEF ForgetScan, ForgetList
<1> QED BY <1>1, <1>2, ForgetLoopType, ForgetHistoryType, NoDiffType

LEMMA OutcomeType ==
  ASSUME TypeOK, NEW s \in Outcome, Record_scan(s)
  PROVE  outcome' \in Outcome \cup {None}
BY DEF TypeOK, Record_scan

LEMMA AfterAccountType == AfterAccount \in Stage
BY DEF AfterAccount, Stage

LEMMA SpendType ==
  ASSUME TypeOK, Spend
  PROVE  credit' \in Int
BY DEF TypeOK, Spend

LEMMA FailType ==
  ASSUME TypeOK, NEW s \in Outcome, Fail(s)
  PROVE  TypeOK'
<1>1. ForgetScan /\ Record_scan(s) /\ pc' = AfterAccount
  BY DEF Fail
<1> QED BY <1>1, ForgetScanType, OutcomeType, AfterAccountType
        DEF Fail, TypeOK, outVars, fileVars

LEMMA TypeStep ==
  ASSUME TypeOK, NoTwice(platform), Who(Rows(platform)) \subseteq ever, [Next]_vars
  PROVE  TypeOK'
<1> USE BoundsAssumption
<1>1. CASE Arrive
  <2>1. platform' \in Seq(Record)
    BY <1>1, PlatformType DEF TypeOK
  <2>2. ever' \subseteq Reg /\ present' \subseteq Reg /\ arrivals' \in Nat
    BY <1>1 DEF TypeOK, Arrive, Record
  <2>3. PlatformFrame /\ \E k \in {"arrival", "withdrawal", "progress"} : Changed(k)
    BY <1>1 DEF Arrive
  <2>4. changes' \in 0..MaxChanges
    BY <2>3 DEF PlatformFrame, TypeOK
  <2>5. blemish' \subseteq Blemish
    BY <2>3 DEF Changed, TypeOK, Blemish
  <2> QED BY <2>1, <2>2, <2>3, <2>4, <2>5 DEF PlatformFrame, TypeOK, outVars, fileVars,
      fetchVars, fetchHistory, resultVars, tellVars
<1>2. CASE Withdraw
  <2>1. platform' \in Seq(Record)
    BY <1>2, PlatformType DEF TypeOK
  <2>2. ever' \subseteq Reg /\ present' \subseteq Reg /\ arrivals' \in Nat
    BY <1>2 DEF TypeOK, Withdraw
  <2>3. PlatformFrame /\ \E k \in {"arrival", "withdrawal", "progress"} : Changed(k)
    BY <1>2 DEF Withdraw
  <2>4. changes' \in 0..MaxChanges
    BY <2>3 DEF PlatformFrame, TypeOK
  <2>5. blemish' \subseteq Blemish
    BY <2>3 DEF Changed, TypeOK, Blemish
  <2> QED BY <2>1, <2>2, <2>3, <2>4, <2>5 DEF PlatformFrame, TypeOK, outVars, fileVars,
      fetchVars, fetchHistory, resultVars, tellVars
<1>3. CASE Progress
  <2>1. platform' \in Seq(Record)
    BY <1>3, PlatformType DEF TypeOK
  <2>2. ever' \subseteq Reg /\ present' \subseteq Reg /\ arrivals' \in Nat
    BY <1>3 DEF TypeOK, Progress
  <2>3. PlatformFrame /\ \E k \in {"arrival", "withdrawal", "progress"} : Changed(k)
    BY <1>3 DEF Progress
  <2>4. changes' \in 0..MaxChanges
    BY <2>3 DEF PlatformFrame, TypeOK
  <2>5. blemish' \subseteq Blemish
    BY <2>3 DEF Changed, TypeOK, Blemish
  <2> QED BY <2>1, <2>2, <2>3, <2>4, <2>5 DEF PlatformFrame, TypeOK, outVars, fileVars,
      fetchVars, fetchHistory, resultVars, tellVars
<1>4. CASE PressForce
  BY <1>4 DEF TypeOK, PressForce, outVars, fileVars, fetchVars, fetchHistory, resultVars,
      tellVars
<1>5. CASE RequestStop
  BY <1>5 DEF TypeOK, RequestStop, outVars, fileVars, fetchVars, fetchHistory, resultVars,
      tellVars
<1>6. CASE Start
  <2>1. present' \subseteq Reg /\ cap' \in Cap \cup {0} /\ blemish' \subseteq Blemish
    BY <1>6, RowsType DEF Start, BeginFetch, TypeOK
  <2>2. pc' \in Stage /\ run' \in Kind \cup {None} /\ scans' \in 0..MaxScans
    BY <1>6 DEF Start, Stage, TypeOK
  <2> QED BY <1>6, <2>1, <2>2 DEF TypeOK, Start, BeginFetch, outVars, fileVars, fetchVars,
      fetchHistory, resultVars, tellVars
<1>7. CASE FetchPage
  <2>1. PICK rows \in Answers(page) :
          LET new == Unseen(Rows(rows), fetched) IN
          /\ fetched' = fetched \cup new
          /\ \/ new = {} /\ pc' = "judge" /\ ForgetLoop
             \/ new # {} /\ pc' = pc /\ page' = page + 1 /\ UNCHANGED <<cap, retried>>
          /\ blemish' = IF Degraded(page, rows) THEN blemish \cup {"degraded"} ELSE blemish
    BY <1>7 DEF FetchPage
  <2>2. Rows(rows) \subseteq Record
    BY AnswersAreRows, RowsType DEF TypeOK
  <2>3. fetched' \subseteq Record
    BY <2>1, <2>2 DEF TypeOK, Unseen
  <2>4. pc' \in Stage
    BY <2>1 DEF TypeOK, Stage
  <2>5. cap' \in Cap \cup {0} /\ page' \in Nat \ {0} /\ retried' \in BOOLEAN
    BY <2>1, ForgetLoopType DEF TypeOK
  <2>6. total' \in Nat
    <3>1. Totals \subseteq Nat
      BY LenProperties DEF TypeOK, Totals
    <3> QED BY <1>7, <3>1 DEF FetchPage, TypeOK
  <2>7. blemish' \subseteq Blemish
    BY <2>1 DEF TypeOK, Blemish
  <2> QED BY <1>7, <2>3, <2>4, <2>5, <2>6, <2>7 DEF FetchPage, TypeOK, outVars, fileVars,
      fetchVars, fetchHistory, resultVars, tellVars
<1>8. ASSUME NEW whole \in BOOLEAN, EndFetch(whole)
      PROVE  TypeOK'
  <2>1. pc' \in Stage /\ ForgetLoop
    BY <1>8 DEF EndFetch, Stage
  <2> QED BY <1>8, <2>1, ForgetLoopType DEF TypeOK, EndFetch, outVars, fileVars, fetchVars,
      fetchHistory, resultVars, tellVars
<1>9. CASE CapReached \/ LaterPageFails
  BY <1>8, <1>9 DEF CapReached, LaterPageFails
<1>10. CASE FirstPageFails \/ LoginAgainFails \/ RefuseBaseline \/ RefuseShrink
  BY <1>10, FailType DEF FirstPageFails, LoginAgainFails, RefuseBaseline, RefuseShrink, Outcome
<1>11. CASE TokenExpires
  <2>1. present' \subseteq Reg /\ cap' \in Cap \cup {0} /\ blemish' \subseteq Blemish
    BY <1>11, RowsType DEF TokenExpires, BeginFetch, TypeOK
  <2> QED BY <1>11, <2>1 DEF TypeOK, TokenExpires, BeginFetch, outVars, fileVars, fetchVars,
      fetchHistory, resultVars, tellVars
<1>12. CASE Accept
  <2>1. Take /\ force' \in BOOLEAN
    BY <1>12 DEF Accept, TypeOK
  <2>2. records' \subseteq Record
    BY <2>1, MergeProperties DEF Take, TypeOK
  <2>3. diff' \in DiffResult
    BY <2>1, <2>2, DiffType DEF Take, TypeOK
  <2>4. pc' \in Stage
    BY <2>1 DEF Take, Stage
  <2> QED BY <2>1, <2>2, <2>3, <2>4 DEF Take, TypeOK, outVars, fileVars, fetchVars,
      fetchHistory, resultVars, tellVars
<1>13. CASE SaveSnapshot
  <2>1. pc' \in Stage /\ ForgetHistory /\ Spend
    BY <1>13 DEF SaveSnapshot, Stage
  <2>2. owed' \in BOOLEAN /\ snapshot' \subseteq Record
    BY <1>13 DEF SaveSnapshot, TypeOK
  <2> QED BY <1>13, <2>1, <2>2, ForgetHistoryType, SpendType DEF TypeOK, SaveSnapshot,
      outVars, fileVars, fetchVars, fetchHistory, resultVars, tellVars
<1>14. CASE SaveFails
  <2>1. pc' \in Stage /\ ForgetScan /\ Spend
    BY <1>14, AfterAccountType DEF SaveFails
  <2>2. outcome' \in Outcome \cup {None}
    BY <1>14, OutcomeType DEF SaveFails, Outcome, TypeOK
  <2> QED BY <1>14, <2>1, <2>2, ForgetScanType, SpendType DEF TypeOK, SaveFails, outVars,
      fileVars, fetchVars, fetchHistory, resultVars, tellVars
<1>15. CASE RecordOutcome
  <2>1. pc' \in Stage
    BY <1>15 DEF RecordOutcome, Stage
  <2>2. outcome' \in Outcome \cup {None}
    BY <1>15, OutcomeType DEF RecordOutcome, Outcome, TypeOK
  <2> QED BY <1>15, <2>1, <2>2 DEF TypeOK, RecordOutcome, AfterSave, outVars, fileVars,
      fetchVars, fetchHistory, resultVars, tellVars
<1>16. CASE Notify
  <2>1. pc' \in Stage
    BY <1>16 DEF Notify, Stage
  <2> QED BY <1>16, <2>1 DEF TypeOK, Notify, AfterSave, outVars, fileVars, fetchVars,
      fetchHistory, resultVars, tellVars
<1>17. CASE AppendEvent
  <2>1. pc' \in Stage
    BY <1>17 DEF AppendEvent, Stage
  <2> QED BY <1>17, <2>1 DEF TypeOK, AppendEvent, AfterSave, outVars, fileVars, fetchVars,
      fetchHistory, resultVars, tellVars
<1>18. CASE SyncAttachments
  <2>1. pc' \in Stage
    BY <1>18, AfterAccountType DEF SyncAttachments
  <2> QED BY <1>18, <2>1 DEF TypeOK, SyncAttachments, AfterSave, outVars, fileVars, fetchVars,
      fetchHistory, resultVars, tellVars
<1>19. CASE Cancel
  <2>1. pc' \in Stage /\ ForgetScan
    BY <1>19, AfterAccountType DEF Cancel
  <2> QED BY <1>19, <2>1, ForgetScanType DEF TypeOK, Cancel, outVars, fileVars, fetchVars,
      fetchHistory, resultVars, tellVars
<1>20. CASE Abandon
  <2>1. pc' \in Stage /\ blemish' \subseteq Blemish
    BY <1>20 DEF Abandon, Stage, Blemish, TypeOK
  <2>2. outcome' \in Outcome \cup {None}
    BY <1>20, OutcomeType DEF Abandon, Outcome
  <2> QED BY <1>20, <2>1, <2>2 DEF TypeOK, Abandon, outVars, fileVars, fetchVars,
      fetchHistory, resultVars, tellVars
<1>21. CASE NotifyBatch
  <2>1. pc' \in Stage /\ owed' \in BOOLEAN
    BY <1>21 DEF NotifyBatch, Stage, TypeOK
  <2> QED BY <1>21, <2>1 DEF TypeOK, NotifyBatch, AfterSave, outVars, fileVars, fetchVars,
      fetchHistory, resultVars, tellVars
<1>22. CASE Finish \/ Crash
  <2>1. EndRun
    BY <1>22 DEF Finish, Crash
  <2>2. pc' \in Stage /\ ForgetScan /\ Spend
    BY <2>1 DEF EndRun, Stage
  <2> QED BY <2>1, <2>2, ForgetScanType, SpendType DEF TypeOK, EndRun, outVars, fileVars,
      fetchVars, fetchHistory, resultVars, tellVars
<1>23. CASE UNCHANGED vars
  BY <1>23 DEF TypeOK, vars, outVars, fileVars, fetchVars, fetchHistory, resultVars, tellVars
<1> QED BY <1>1, <1>2, <1>3, <1>4, <1>5, <1>6, <1>7, <1>9, <1>10, <1>11, <1>12, <1>13, <1>14,
    <1>15, <1>16, <1>17, <1>18, <1>19, <1>20, <1>21, <1>22, <1>23 DEF Next

-----------------------------------------------------------------------------
(* Nobody twice, and numbers stay *)

\* What most steps do to the lists: keep or forget them.
Quiet ==
  /\ platform' = platform /\ ever' = ever /\ snapshot' = snapshot
  /\ fetched' \in {fetched, {}} /\ records' \in {records, {}}

LEMMA QuietSteps ==
  ASSUME [Next]_vars
  PROVE  Quiet \/ Arrive \/ Withdraw \/ Progress \/ FetchPage \/ Accept \/ SaveSnapshot
<1>1. ASSUME NEW s, Fail(s)
      PROVE  Quiet
  BY <1>1 DEF Quiet, Fail, ForgetScan, ForgetList, outVars, fileVars
<1>2. CASE FirstPageFails \/ LoginAgainFails \/ RefuseBaseline \/ RefuseShrink
  BY <1>1, <1>2 DEF FirstPageFails, LoginAgainFails, RefuseBaseline, RefuseShrink
<1>3. CASE PressForce \/ RequestStop \/ UNCHANGED vars
  BY <1>3 DEF Quiet, PressForce, RequestStop, vars, outVars, fileVars, fetchVars,
         fetchHistory, resultVars, tellVars
<1>4. CASE Start \/ TokenExpires
  BY <1>4 DEF Quiet, Start, TokenExpires, BeginFetch, outVars, fileVars, fetchVars,
         fetchHistory, resultVars, tellVars
<1>5. CASE CapReached \/ LaterPageFails
  BY <1>5 DEF Quiet, CapReached, LaterPageFails, EndFetch, outVars, fileVars, fetchVars,
         fetchHistory, resultVars, tellVars
<1>6. CASE SaveFails \/ Cancel
  BY <1>6 DEF Quiet, SaveFails, Cancel, ForgetScan, ForgetList, outVars, fileVars, fetchVars,
         fetchHistory, resultVars, tellVars
<1>7. CASE Finish \/ Crash
  BY <1>7 DEF Quiet, Finish, Crash, EndRun, ForgetScan, ForgetList, outVars, fileVars, fetchVars,
         fetchHistory, resultVars, tellVars
<1>8. CASE Abandon
  BY <1>8 DEF Quiet, Abandon, outVars, fileVars, fetchVars,
         fetchHistory, resultVars, tellVars
<1>9. CASE RecordOutcome \/ Notify \/ AppendEvent
  BY <1>9 DEF Quiet, RecordOutcome, Notify, AppendEvent, AfterSave, outVars, fileVars, fetchVars,
         fetchHistory, resultVars, tellVars
<1>10. CASE SyncAttachments \/ NotifyBatch
  BY <1>10 DEF Quiet, SyncAttachments, NotifyBatch, AfterSave, outVars, fileVars, fetchVars,
         fetchHistory, resultVars, tellVars
<1> QED BY <1>2, <1>3, <1>4, <1>5, <1>6, <1>7, <1>8, <1>9, <1>10 DEF Next

\* In a list without doubles a registration has one record.
LEMMA RowsOnce ==
  ASSUME NEW s, NoTwice(s)
  PROVE  OneRecordEach(Rows(s))
BY DEF NoTwice, Rows, OneRecordEach

LEMMA NamedStep ==
  ASSUME IInv, [Next]_vars
  PROVE  NamedOnce' /\ NumbersStay'
<1> USE DEF IInv
<1>1. CASE Quiet
  <2>1. /\ NoTwice(platform') /\ OneRecordEach(snapshot')
        /\ OneRecordEach(fetched') /\ OneRecordEach(records')
    BY <1>1 DEF Quiet, NamedOnce, OneRecordEach
  <2>2. Who(Rows(platform')) \cup Who(snapshot') \cup Who(fetched') \cup Who(records')
          \subseteq ever'
    BY <1>1 DEF Quiet, NamedOnce, Who
  <2>3. Keeps(snapshot', Rows(platform')) /\ Keeps(fetched', Rows(platform'))
          /\ Keeps(records', Rows(platform')) /\ Keeps(snapshot', fetched')
    BY <1>1 DEF Quiet, NumbersStay, Keeps
  <2> QED BY <2>1, <2>2, <2>3 DEF NamedOnce, NumbersStay, Keeps
<1>2. CASE Arrive
  <2>1. PICK r \in Record : /\ r.who \notin ever
                            /\ platform' \in {<<r>> \o platform, Append(platform, r)}
                            /\ ever' = ever \cup {r.who}
    BY <1>2 DEF Arrive
  <2>2. NoTwice(platform') /\ Rows(platform') = Rows(platform) \cup {r}
    BY <2>1, RowsOfArrival DEF TypeOK, NamedOnce
  <2>3. UNCHANGED <<snapshot, fetched, records>>
    BY <1>2 DEF Arrive, PlatformFrame, fileVars, fetchVars, resultVars
  <2>4. NamedOnce'
    BY <2>1, <2>2, <2>3 DEF NamedOnce, Who
  <2>5. \A p \in snapshot \cup fetched \cup records : p.who # r.who
    BY <2>1 DEF NamedOnce, Who
  <2>6. NumbersStay'
    BY <2>2, <2>3, <2>5 DEF NumbersStay, Keeps
  <2> QED BY <2>4, <2>6
<1>3. CASE Withdraw
  <2>1. PICK i \in 1..Len(platform) :
          platform' = SubSeq(platform, 1, i - 1) \o SubSeq(platform, i + 1, Len(platform))
    BY <1>3 DEF Withdraw
  <2>2. NoTwice(platform') /\ Rows(platform') \subseteq Rows(platform)
    BY <2>1, RowsOfWithdrawal DEF TypeOK, NamedOnce
  <2>3. UNCHANGED <<snapshot, fetched, records, ever>>
    BY <1>3 DEF Withdraw, PlatformFrame, fileVars, fetchVars, resultVars
  <2>4. NamedOnce'
    BY <2>2, <2>3 DEF NamedOnce, Who
  <2>5. NumbersStay'
    BY <2>2, <2>3 DEF NumbersStay, Keeps
  <2> QED BY <2>4, <2>5
<1>4. CASE Progress
  <2>1. PICK i \in 1..Len(platform), r \in Record :
          /\ r.who = platform[i].who /\ (platform[i].numbered => r.numbered)
          /\ platform' = [platform EXCEPT ![i] = r]
    BY <1>4 DEF Progress
  <2>2. NoTwice(platform') /\ Rows(platform') \subseteq Rows(platform) \cup {r}
    BY <2>1, RowsOfProgress DEF TypeOK, NamedOnce
  <2>3. UNCHANGED <<snapshot, fetched, records, ever>>
    BY <1>4 DEF Progress, PlatformFrame, fileVars, fetchVars, resultVars
  <2>4. platform[i] \in Rows(platform)
    BY <2>1 DEF Rows
  <2>5. r.who \in ever
    BY <2>1, <2>4 DEF NamedOnce, Who
  <2>6. NamedOnce'
    BY <2>2, <2>3, <2>5 DEF NamedOnce, Who
  <2>7. \A p \in snapshot \cup fetched \cup records :
          p.who = r.who /\ p.numbered => r.numbered
    BY <2>1, <2>4 DEF NumbersStay, Keeps
  <2>8. NumbersStay'
    BY <2>2, <2>3, <2>7 DEF NumbersStay, Keeps
  <2> QED BY <2>6, <2>8
<1>5. CASE FetchPage
  <2>1. PICK rows \in Answers(page) : fetched' = fetched \cup Unseen(Rows(rows), fetched)
    BY <1>5 DEF FetchPage
  <2> DEFINE new == Unseen(Rows(rows), fetched)
  <2>2. UNCHANGED <<platform, snapshot, records, ever>>
    BY <1>5 DEF FetchPage, outVars, fileVars, resultVars
  <2>3. new \subseteq Rows(platform)
    BY AnswersAreRows DEF TypeOK, Unseen
  <2>4. Rows(platform) \subseteq Record /\ fetched \subseteq Record
    BY RowsType DEF TypeOK
  <2>5. \A r \in new, f \in fetched : r.who # f.who
    BY <2>3, <2>4, KeyIsWho DEF Unseen
  <2>6. OneRecordEach(Rows(platform))
    BY RowsOnce DEF NamedOnce
  <2> HIDE DEF new
  <2>7. OneRecordEach(fetched')
    BY <2>1, <2>3, <2>5, <2>6 DEF OneRecordEach, NamedOnce, new
  <2>8. NamedOnce'
    BY <2>1, <2>2, <2>3, <2>7 DEF NamedOnce, Who, new
  <2>9. Keeps(snapshot', fetched')
    BY <2>1, <2>2, <2>3 DEF NumbersStay, Keeps, new
  <2>10. \A p \in new, q \in Rows(platform) : p.who = q.who => p = q
    BY <2>3, <2>6 DEF OneRecordEach
  <2>11. Keeps((snapshot \cup fetched \cup records)', Rows(platform'))
    BY <2>1, <2>2, <2>10 DEF NumbersStay, Keeps, new
  <2> QED BY <2>8, <2>9, <2>11 DEF NumbersStay
<1>6. CASE Accept
  <2>1. /\ records' = IF complete THEN fetched ELSE Merge(snapshot, fetched)
        /\ fetched' = {} /\ UNCHANGED <<platform, snapshot, ever>>
    BY <1>6 DEF Accept, Take, outVars
  <2>2. OneRecordEach(records') /\ records' \subseteq snapshot \cup fetched
    BY <2>1, MergeProperties DEF TypeOK, NamedOnce, NumbersStay
  <2>3. NamedOnce'
    BY <2>1, <2>2 DEF NamedOnce, OneRecordEach, Who
  <2>4. NumbersStay'
    BY <2>1, <2>2 DEF NumbersStay, Keeps
  <2> QED BY <2>3, <2>4
<1>7. CASE SaveSnapshot
  <2>1. /\ snapshot' = records /\ records' = {} /\ fetched' = {}
        /\ UNCHANGED <<platform, ever>>
    BY <1>7 DEF SaveSnapshot, InHand, outVars
  <2>2. NamedOnce'
    BY <2>1 DEF NamedOnce, OneRecordEach, Who
  <2>3. NumbersStay'
    BY <2>1 DEF NumbersStay, Keeps
  <2> QED BY <2>2, <2>3
<1> QED BY QuietSteps, <1>1, <1>2, <1>3, <1>4, <1>5, <1>6, <1>7

-----------------------------------------------------------------------------
(* The flag, the list in hand and what is owed *)

\* Where the steps that are not about saving lead.
LEMMA FailStep ==
  ASSUME FirstPageFails \/ LoginAgainFails \/ RefuseBaseline \/ RefuseShrink
  PROVE  /\ pc \in {"fetch", "judge"} /\ pc' = AfterAccount
         /\ ForgetScan
         /\ UNCHANGED <<outVars, fileVars, stop, run, collected, scans, saved, owed, credit>>
<1>1. pc \in {"fetch", "judge"} /\ \E s \in Outcome : Fail(s)
  BY DEF FirstPageFails, LoginAgainFails, RefuseBaseline, RefuseShrink, Asking, InLoop,
         Fetching, Outcome
<1> QED BY <1>1 DEF Fail

LEMMA ForceStep ==
  ASSUME IInv, [Next]_vars
  PROVE  ForceIsCredited'
<1> USE DEF IInv
<1>1. ASSUME pc # "save", pc' # "save", UNCHANGED <<force, credit>>
      PROVE  ForceIsCredited'
  BY <1>1 DEF ForceIsCredited
<1>2. CASE Arrive \/ Withdraw \/ Progress
  <2>1. PlatformFrame
    BY <1>2 DEF Arrive, Withdraw, Progress
  <2> QED BY <1>1, <2>1 DEF PlatformFrame, fileVars, tellVars
<1>3. CASE PressForce
  BY <1>3 DEF PressForce, ForceIsCredited
<1>4. CASE RequestStop
  BY <1>1, <1>4 DEF RequestStop, fileVars, tellVars
<1>5. CASE Start
  BY <1>1, <1>5 DEF Start, fileVars, tellVars
<1>6. CASE FetchPage
  BY <1>1, <1>6 DEF FetchPage, Asking, InLoop, Fetching, fileVars, tellVars
<1>7. CASE CapReached \/ LaterPageFails
  BY <1>1, <1>7 DEF CapReached, LaterPageFails, EndFetch, Asking, InLoop, Fetching,
                     fileVars, tellVars
<1>8. CASE FirstPageFails \/ LoginAgainFails \/ RefuseBaseline \/ RefuseShrink
  BY <1>1, <1>8, FailStep DEF AfterAccount, fileVars
<1>9. CASE TokenExpires
  BY <1>1, <1>9 DEF TokenExpires, Asking, InLoop, Fetching, fileVars, tellVars
<1>10. CASE Accept
  <2>1. /\ pc = "judge" /\ pc' = "save" /\ credit' = credit
        /\ NeedsForce(fetched) => force
        /\ force' = (force /\ ~NeedsForce(fetched))
        /\ complete => records' = fetched
        /\ UNCHANGED <<snapshot, complete, total>>
    BY <1>10 DEF Accept, Take, tellVars
  <2>2. NeedsForce(records)' = NeedsForce(fetched)
    BY <2>1 DEF NeedsForce, Suspicious, Confirmed
  <2>3. credit = IF force THEN 1 ELSE 0
    BY <2>1 DEF ForceIsCredited
  <2>4. CASE NeedsForce(fetched)
    <3>1. force /\ ~force' /\ NeedsForce(records)'
      BY <2>1, <2>2, <2>4
    <3> QED BY <2>1, <2>3, <3>1 DEF ForceIsCredited
  <2>5. CASE ~NeedsForce(fetched)
    <3>1. ~NeedsForce(records)' /\ force' = force
      BY <2>1, <2>2, <2>5 DEF TypeOK
    <3> QED BY <2>1, <2>3, <3>1 DEF ForceIsCredited
  <2> QED BY <2>4, <2>5
<1>11. CASE SaveSnapshot \/ SaveFails
  <2>1. pc = "save" /\ pc' # "save" /\ force' = force /\ Spend
    BY <1>11 DEF SaveSnapshot, SaveFails, AfterAccount, fileVars
  <2> QED BY <2>1 DEF ForceIsCredited, Spend, TypeOK
<1>12. CASE RecordOutcome
  BY <1>1, <1>12 DEF RecordOutcome, AfterSave
<1>13. CASE Notify \/ AppendEvent \/ NotifyBatch
  BY <1>1, <1>13 DEF Notify, AppendEvent, NotifyBatch, AfterSave
<1>14. CASE SyncAttachments
  BY <1>1, <1>14 DEF SyncAttachments, AfterSave, AfterAccount
<1>15. CASE Cancel
  BY <1>1, <1>15 DEF Cancel, InLoop, Fetching, AfterAccount, fileVars
<1>16. CASE Abandon
  BY <1>1, <1>16 DEF Abandon, fileVars
<1>17. CASE Finish \/ Crash
  <2>1. pc' # "save" /\ force' = force /\ Spend
    BY <1>17 DEF Finish, Crash, EndRun, fileVars
  <2> QED BY <2>1 DEF ForceIsCredited, Spend, TypeOK
<1>18. CASE UNCHANGED vars
  BY <1>18 DEF vars, outVars, fileVars, fetchVars,
      fetchHistory, resultVars, tellVars, ForceIsCredited, NeedsForce, Suspicious, Confirmed
<1> QED BY <1>2, <1>3, <1>4, <1>5, <1>6, <1>7, <1>8, <1>9, <1>10, <1>11, <1>12, <1>13, <1>14, <1>15, <1>16, <1>17, <1>18 DEF Next

LEMMA InHandStep ==
  ASSUME IInv, [Next]_vars
  PROVE  InHand'
<1> USE DEF IInv
<1>1. ASSUME pc # "save", pc' # "save", records' \in {records, {}},
             \/ pc' \in {"fetch", "judge"}
             \/ fetched' = {}
             \/ fetched' = fetched /\ pc \notin {"fetch", "judge"}
      PROVE  InHand'
  BY <1>1 DEF InHand
<1>2. CASE Arrive \/ Withdraw \/ Progress
  <2>1. PlatformFrame
    BY <1>2 DEF Arrive, Withdraw, Progress
  <2> QED BY <1>1, <2>1 DEF PlatformFrame, fetchVars, resultVars
<1>3. CASE PressForce \/ RequestStop
  BY <1>1, <1>3 DEF PressForce, RequestStop, fetchVars, resultVars
<1>4. CASE Start
  BY <1>1, <1>4 DEF Start, resultVars
<1>5. CASE FetchPage
  BY <1>1, <1>5 DEF FetchPage, Asking, InLoop, Fetching, resultVars
<1>6. CASE CapReached \/ LaterPageFails
  BY <1>1, <1>6 DEF CapReached, LaterPageFails, EndFetch, Asking, InLoop, Fetching, resultVars
<1>7. CASE FirstPageFails \/ LoginAgainFails \/ RefuseBaseline \/ RefuseShrink
  BY <1>1, <1>7, FailStep DEF AfterAccount, ForgetScan, ForgetList
<1>8. CASE TokenExpires
  BY <1>1, <1>8 DEF TokenExpires, Asking, InLoop, Fetching, resultVars
<1>9. CASE Accept
  BY <1>9 DEF Accept, Take, InHand, TypeOK
<1>10. CASE SaveSnapshot
  BY <1>10 DEF SaveSnapshot, InHand
<1>11. CASE SaveFails
  BY <1>11 DEF SaveFails, AfterAccount, ForgetScan, ForgetList, InHand
<1>12. CASE RecordOutcome
  BY <1>1, <1>12 DEF RecordOutcome, AfterSave, fetchVars
<1>13. CASE Notify \/ AppendEvent \/ NotifyBatch
  BY <1>1, <1>13 DEF Notify, AppendEvent, NotifyBatch, AfterSave, fetchVars
<1>14. CASE SyncAttachments
  BY <1>1, <1>14 DEF SyncAttachments, AfterSave, AfterAccount, fetchVars
<1>15. CASE Cancel
  BY <1>1, <1>15 DEF Cancel, InLoop, Fetching, AfterAccount, ForgetScan, ForgetList
<1>16. CASE Abandon
  BY <1>1, <1>16 DEF Abandon, fetchVars, resultVars
<1>17. CASE Finish \/ Crash
  BY <1>17 DEF Finish, Crash, EndRun, ForgetScan, ForgetList, InHand
<1>18. CASE UNCHANGED vars
  BY <1>18 DEF vars, outVars, fileVars, fetchVars,
      fetchHistory, resultVars, tellVars, InHand
<1> QED BY <1>2, <1>3, <1>4, <1>5, <1>6, <1>7, <1>8, <1>9, <1>10, <1>11, <1>12, <1>13, <1>14, <1>15, <1>16, <1>17, <1>18 DEF Next

LEMMA AnnouncedStep ==
  ASSUME IInv, [Next]_vars
  PROVE  Announced'
<1> USE DEF IInv
<1>1. ASSUME ~saved', ~owed', ~collected', run' \in Kind \/ pc' = "idle",
             pc' # "notify", pc' = "batch" => run' = "round"
      PROVE  Announced'
  BY <1>1 DEF Announced
<1>2. pc \in {"idle", "fetch", "judge", "save"} => ~saved /\ ~owed /\ ~collected
  BY DEF Announced
<1>3. pc # "idle" => run \in Kind
  BY DEF Announced
<1>4. run \in Kind => AfterAccount = IF run = "round" THEN "batch" ELSE "finish"
  BY DEF AfterAccount, Kind
<1>5. CASE Arrive \/ Withdraw \/ Progress
  <2>1. PlatformFrame
    BY <1>5 DEF Arrive, Withdraw, Progress
  <2> QED BY <1>1, <1>2, <1>3, <2>1 DEF PlatformFrame, resultVars, tellVars
<1>6. CASE PressForce
  BY <1>1, <1>2, <1>3, <1>6 DEF PressForce, resultVars
<1>7. CASE RequestStop
  BY <1>7 DEF RequestStop, Announced, fetchHistory, resultVars, tellVars
<1>8. CASE Start
  BY <1>1, <1>2, <1>8 DEF Start, resultVars, tellVars
<1>9. CASE FetchPage
  BY <1>1, <1>2, <1>3, <1>9 DEF FetchPage, Asking, InLoop, Fetching, resultVars, tellVars
<1>10. CASE CapReached \/ LaterPageFails
  BY <1>1, <1>2, <1>3, <1>10 DEF CapReached, LaterPageFails, EndFetch, Asking, InLoop,
                                 Fetching, resultVars, tellVars
<1>11. CASE FirstPageFails \/ LoginAgainFails \/ RefuseBaseline \/ RefuseShrink
  BY <1>1, <1>2, <1>3, <1>4, <1>11, FailStep
<1>12. CASE TokenExpires
  BY <1>1, <1>2, <1>3, <1>12 DEF TokenExpires, Asking, InLoop, Fetching, resultVars, tellVars
<1>13. CASE Accept
  BY <1>1, <1>2, <1>3, <1>13 DEF Accept, Take, tellVars
<1>14. CASE SaveSnapshot
  <2>1. /\ pc = "save" /\ pc' = "record" /\ run' = run /\ diff' = diff
        /\ ~collected' /\ diff = Diff(records, snapshot)
        /\ owed' = (snapshot # {} /\ Content(records) # Content(snapshot))
        /\ saved'
    BY <1>2, <1>14 DEF SaveSnapshot, InHand
  <2>2. owed' => HasChanges(diff)
    BY <2>1, ChangeShows DEF TypeOK, NamedOnce
  <2> QED BY <1>3, <2>1, <2>2 DEF Announced, HasChanges
<1>15. CASE SaveFails
  BY <1>1, <1>2, <1>3, <1>4, <1>15 DEF SaveFails
<1>16. CASE RecordOutcome
  <2>1. /\ pc = "record" /\ UNCHANGED <<run, diff, saved, owed, collected>>
        /\ pc' = IF run = "single" /\ HasChanges(diff) THEN "notify" ELSE "event"
    BY <1>16 DEF RecordOutcome, AfterSave
  <2> QED BY <1>3, <2>1 DEF Announced, HasChanges, Kind
<1>17. CASE Notify
  BY <1>17 DEF Notify, AfterSave, Announced
<1>18. CASE AppendEvent
  BY <1>18 DEF AppendEvent, AfterSave, Announced, HasChanges
<1>19. CASE SyncAttachments
  <2>1. /\ pc = "sync" /\ UNCHANGED <<run, diff, saved, owed>>
        /\ collected' /\ pc' = AfterAccount
    BY <1>19 DEF SyncAttachments, AfterSave
  <2> QED BY <1>3, <1>4, <2>1 DEF Announced, HasChanges
<1>20. CASE Cancel
  <2>1. CASE pc = "fetch"
    BY <1>1, <1>2, <1>3, <1>4, <1>20, <2>1 DEF Cancel
  <2>2. CASE pc = "sync" /\ stop
    <3>1. /\ UNCHANGED <<run, stop, saved, owed, collected>> /\ pc' = AfterAccount
      BY <1>20 DEF Cancel
    <3> QED BY <1>3, <1>4, <2>2, <3>1 DEF Announced
  <2> QED BY <1>20, <2>1, <2>2 DEF Cancel, InLoop, Fetching
<1>21. CASE Abandon
  BY <1>21 DEF Abandon, Announced, resultVars
<1>22. CASE NotifyBatch
  BY <1>22 DEF NotifyBatch, AfterSave, fetchHistory, Announced
<1>23. CASE Finish \/ Crash
  BY <1>1, <1>23 DEF Finish, Crash, EndRun
<1>24. CASE UNCHANGED vars
  BY <1>24 DEF vars, outVars, fileVars, fetchVars,
      fetchHistory, resultVars, tellVars,
      Announced, HasChanges
<1> QED BY <1>5, <1>6, <1>7, <1>8, <1>9, <1>10, <1>11, <1>12, <1>13, <1>14, <1>15, <1>16, <1>17, <1>18, <1>19, <1>20, <1>21, <1>22, <1>23, <1>24 DEF Next

-----------------------------------------------------------------------------
(* The pages of a fetch *)

\* A new registration moves the others by one place at most.
LEMMA ArrivalPlaces ==
  ASSUME NEW s \in Seq(Record), NEW r \in Record,
         NEW t \in {<<r>> \o s, Append(s, r)}, NEW j \in 1..Len(t)
  PROVE  t[j] = r \/ \E i \in 1..Len(s) : t[j] = s[i] /\ i <= j /\ j <= i + 1
<1>1. Len(s) \in Nat
  BY LenProperties
<1>2. CASE t = <<r>> \o s
  <2>1. <<r>> \in Seq(Record) /\ Len(<<r>>) = 1 /\ <<r>>[1] = r
    OBVIOUS
  <2>2. /\ Len(t) = 1 + Len(s)
        /\ \A i \in 1..(1 + Len(s)) : t[i] = IF i <= 1 THEN <<r>>[i] ELSE s[i - 1]
    BY <1>2, <2>1, ConcatProperties
  <2>3. CASE j = 1
    BY <1>1, <2>1, <2>2, <2>3
  <2>4. CASE j # 1
    <3>1. j - 1 \in 1..Len(s) /\ t[j] = s[j - 1] /\ j - 1 <= j /\ j <= (j - 1) + 1
      BY <1>1, <2>2, <2>4
    <3> QED BY <3>1
  <2> QED BY <2>3, <2>4
<1>3. CASE t = Append(s, r)
  <2>1. /\ Len(t) = Len(s) + 1
        /\ \A i \in 1..Len(s) : t[i] = s[i]
        /\ t[Len(s) + 1] = r
    BY <1>1, <1>3
  <2> QED BY <1>1, <2>1
<1> QED BY <1>2, <1>3

\* The rows of page n are those in its places.
LEMMA PagePlaces ==
  ASSUME platform \in Seq(Record), NEW n \in Nat \ {0}
  PROVE  /\ Page(n) \in Seq(Record)
         /\ \A i \in 1..Len(platform) :
              (n - 1) * PageSize < i /\ i <= n * PageSize => platform[i] \in Rows(Page(n))
         /\ \A r \in Rows(Page(n)) : \E i \in 1..Len(platform) :
              r = platform[i] /\ i <= n * PageSize
<1> DEFINE a == (n - 1) * PageSize
           b == n * PageSize
           m == Smaller(b, Len(platform))
<1>1. a \in Nat /\ b \in Nat /\ Len(platform) \in Nat
  BY PageAssumption, LenProperties
<1>2. m \in Nat /\ m <= Len(platform) /\ m <= b /\ (m = b \/ m = Len(platform))
  BY <1>1 DEF Smaller
<1> HIDE DEF a, b, m
<1>3. \A i \in (a + 1)..m : platform[i] \in Record
  <2>1. \A i \in (a + 1)..m : i \in 1..Len(platform)
    BY <1>1, <1>2
  <2> QED BY <2>1, ElementOfSeq
<1>4. /\ SubSeq(platform, a + 1, m) \in Seq(Record)
      /\ Len(SubSeq(platform, a + 1, m)) = IF a + 1 <= m THEN m - (a + 1) + 1 ELSE 0
      /\ \A i \in 1..(m - (a + 1) + 1) : SubSeq(platform, a + 1, m)[i] = platform[(a + 1) + i - 1]
  BY <1>1, <1>2, <1>3, SubSeqProperties
<1>5. Page(n) = SubSeq(platform, a + 1, m)
  BY DEF Page, a, b, m
<1>6. ASSUME NEW i \in 1..Len(platform), a < i, i <= b
      PROVE  platform[i] \in Rows(Page(n))
  <2>1. i <= m /\ i \in Nat
    BY <1>1, <1>2, <1>6
  <2>2. i - a \in 1..Len(Page(n)) /\ i - a \in 1..(m - (a + 1) + 1)
    BY <1>1, <1>2, <1>4, <1>5, <1>6, <2>1
  <2>3. Page(n)[i - a] = platform[(a + 1) + (i - a) - 1]
    BY <1>4, <1>5, <2>2
  <2>4. (a + 1) + (i - a) - 1 = i
    BY <1>1, <2>1
  <2> QED BY <2>2, <2>3, <2>4 DEF Rows
<1>7. ASSUME NEW r \in Rows(Page(n))
      PROVE  \E i \in 1..Len(platform) : r = platform[i] /\ i <= b
  <2>1. PICK j \in 1..Len(Page(n)) : r = Page(n)[j]
    BY DEF Rows
  <2>2. j \in 1..(m - (a + 1) + 1) /\ (a + 1) + j - 1 \in 1..Len(platform) /\ (a + 1) + j - 1 <= b
    BY <1>1, <1>2, <1>4, <1>5
  <2> QED BY <1>4, <1>5, <2>1, <2>2
<1> QED BY <1>4, <1>5, <1>6, <1>7 DEF a, b

\* Beyond the last page there are no rows.
LEMMA BeyondLastPage ==
  ASSUME platform \in Seq(Record), NEW n \in Nat \ {0}, n > LastPage
  PROVE  Len(platform) <= (n - 1) * PageSize
<1> DEFINE m == Len(platform) + PageSize - 1
<1>1. Len(platform) \in Nat /\ m \in Nat
  BY PageAssumption, LenProperties
<1>2. LastPage \in Nat /\ m < LastPage * PageSize + PageSize
  <2> HIDE DEF m
  <2>1. m \div PageSize \in Nat /\ m < (m \div PageSize) * PageSize + PageSize
    BY <1>1, PageAssumption
  <2> QED BY <2>1 DEF LastPage, m
<1>3. n - 1 \in Nat /\ LastPage <= n - 1
  BY <1>2
<1>4. LastPage * PageSize <= (n - 1) * PageSize
  BY <1>2, <1>3, PageAssumption
<1>5. LastPage * PageSize \in Nat /\ (n - 1) * PageSize \in Nat
  BY <1>2, <1>3, PageAssumption
<1> HIDE DEF LastPage
<1> QED BY <1>1, <1>2, <1>4, <1>5, PageAssumption

\* Whatever is answered for page n stands no further down than that page, and
\* an answer that is not degraded leaves none of its places out.
LEMMA AnswerPlaces ==
  ASSUME platform \in Seq(Record), NEW n \in Nat \ {0}, NEW rows \in Answers(n)
  PROVE  /\ \A r \in Rows(rows) : \E i \in 1..Len(platform) : r = platform[i] /\ i <= n * PageSize
         /\ ~Degraded(n, rows) =>
              \A i \in 1..Len(platform) :
                (n - 1) * PageSize < i /\ i <= n * PageSize => platform[i] \in Rows(rows)
<1>1. Page(n) \in Seq(Record) /\ Len(Page(n)) \in Nat
  BY PagePlaces, LenProperties
<1>2. CASE \E k \in 0..Len(Page(n)) : rows = SubSeq(Page(n), 1, k)
  <2>1. PICK k \in 0..Len(Page(n)) : rows = SubSeq(Page(n), 1, k)
    BY <1>2
  <2>2. k \in Nat /\ k <= Len(Page(n))
    BY <1>1
  <2>3. Rows(rows) \subseteq Rows(Page(n))
    BY <1>1, <2>1, <2>2, RowsOfSubSeq
  <2>4. ASSUME ~Degraded(n, rows)
        PROVE  Rows(Page(n)) \subseteq Rows(rows)
    <3>1. \A i \in 1..k : Page(n)[i] \in Record
      <4>1. \A i \in 1..k : i \in 1..Len(Page(n))
        BY <1>1, <2>2
      <4> QED BY <1>1, <4>1, ElementOfSeq
    <3>2. /\ Len(rows) = IF 1 <= k THEN k - 1 + 1 ELSE 0
          /\ \A i \in 1..(k - 1 + 1) : rows[i] = Page(n)[1 + i - 1]
      BY <2>1, <2>2, <3>1, SubSeqProperties
    <3>3. k = Len(Page(n)) /\ Len(rows) = k
      BY <1>1, <2>2, <2>4, <3>2 DEF Degraded
    <3>4. \A i \in 1..Len(Page(n)) : i \in 1..Len(rows) /\ rows[i] = Page(n)[i]
      BY <1>1, <3>2, <3>3
    <3> QED BY <3>4 DEF Rows
  <2> QED BY <2>3, <2>4, PagePlaces
<1>3. CASE n > LastPage /\ LastPage > 0 /\ rows = Page(LastPage)
  <2>1. Len(platform) <= (n - 1) * PageSize
    BY <1>3, BeyondLastPage
  <2>2. /\ Len(platform) \in Nat
        /\ (n - 1) * PageSize \in Nat /\ n * PageSize \in Nat
        /\ (n - 1) * PageSize <= n * PageSize
    BY PageAssumption, LenProperties
  <2>3. LastPage \in Nat \ {0}
    <3>1. LastPage \in Int
      BY <2>2, PageAssumption DEF LastPage
    <3> QED BY <1>3, <3>1
  <2>4. \A i \in 1..Len(platform) : i <= (n - 1) * PageSize /\ i <= n * PageSize /\ i \in Nat
    BY <2>1, <2>2
  <2>5. \A r \in Rows(rows) : \E i \in 1..Len(platform) : r = platform[i]
    BY <1>3, <2>3, PagePlaces
  <2>6. \A i \in 1..Len(platform) : ~((n - 1) * PageSize < i)
    BY <2>2, <2>4
  <2> QED BY <2>4, <2>5, <2>6
<1> QED BY <1>2, <1>3 DEF Answers

\* A page adds the registrations in it and no others.
LEMMA UnseenAddsAll ==
  ASSUME NEW R \in SUBSET Record, NEW F \in SUBSET Record
  PROVE  Who(F \cup Unseen(R, F)) = Who(F) \cup Who(R)
<1>1. ASSUME NEW r \in R PROVE r.who \in Who(F \cup Unseen(R, F))
  BY KeyIsWho DEF Unseen, Who
<1> QED BY <1>1 DEF Unseen, Who

\* A new registration, a withdrawal and a progress keep what a fetch has seen.
LEMMA PagesUnderChange ==
  ASSUME IInv, Arrive \/ Withdraw \/ Progress
  PROVE  PagesSeen' /\ Expected' /\ CompleteIsWhole'
<1> USE DEF IInv
<1>0. /\ pc \in {"idle", "fetch"}
      /\ UNCHANGED <<pc, page, fetched, complete, records>>
  BY DEF Arrive, Withdraw, Progress, PlatformFrame, fetchVars, resultVars
<1>1. CASE pc = "idle"
  BY <1>0, <1>1 DEF PagesSeen, Expected, CompleteIsWhole, Fetching
<1>2. CASE Fetching
  <2>0. CompleteIsWhole'
    BY <1>0, <1>2 DEF CompleteIsWhole, Fetching
  <2>1. /\ present \subseteq Who(Rows(platform)) /\ present \subseteq ever
        /\ Who(fetched) \subseteq ever
    BY <1>2 DEF Expected, Fetching, NamedOnce
  <2> DEFINE k == (page - 1) * PageSize
  <2>2. k \in Nat /\ Len(platform) \in Nat /\ arrivals \in Nat /\ k' = k
    BY <1>0, PageAssumption, LenProperties DEF TypeOK
  <2> HIDE DEF k
  <2>3. ASSUME Arrive PROVE PagesSeen' /\ Expected'
    <3>1. PICK r \in Record : /\ r.who \notin ever
                              /\ platform' \in {<<r>> \o platform, Append(platform, r)}
      BY <2>3 DEF Arrive
    <3>2. /\ blemish' = blemish \cup {"arrival"}
          /\ arrivals' = arrivals + 1 /\ present' = present
      BY <1>2, <2>3 DEF Arrive, Changed
    <3>3. Rows(platform') = Rows(platform) \cup {r}
      BY <3>1, RowsOfArrival DEF TypeOK, NamedOnce, Who
    <3>4. ASSUME Undisturbed, NEW j \in 1..Len(platform')
          PROVE  /\ j <= k /\ platform'[j].who \in present => platform'[j].who \in Who(fetched)
                 /\ platform'[j].who \in Who(fetched) => j <= k + (arrivals + 1)
      <4>1. CASE platform'[j] = r
        BY <2>1, <3>1, <4>1
      <4>2. CASE \E i \in 1..Len(platform) : platform'[j] = platform[i] /\ i <= j /\ j <= i + 1
        <5>1. PICK i \in 1..Len(platform) : platform'[j] = platform[i] /\ i <= j /\ j <= i + 1
          BY <4>2
        <5>2. /\ i <= k /\ platform[i].who \in present => platform[i].who \in Who(fetched)
              /\ platform[i].who \in Who(fetched) => i <= k + arrivals
          BY <1>2, <3>4 DEF PagesSeen, k
        <5>3. i \in Nat /\ j \in Int
          BY <2>2
        <5> QED BY <2>2, <5>1, <5>2, <5>3
      <4>3. \/ platform'[j] = r
            \/ \E i \in 1..Len(platform) : platform'[j] = platform[i] /\ i <= j /\ j <= i + 1
        <5>1. platform \in Seq(Record)
          BY DEF TypeOK
        <5>2. platform' \in {<<r>> \o platform, Append(platform, r)}
          BY <3>1
        <5>3. \A s \in Seq(Record) : \A t \in {<<r>> \o s, Append(s, r)} : \A i \in 1..Len(t) :
                 t[i] = r \/ \E n \in 1..Len(s) : t[i] = s[n] /\ n <= i /\ i <= n + 1
          BY ONLY r \in Record, ArrivalPlaces, Zenon
        <5> QED BY ONLY <5>1, <5>2, <5>3, r \in Record, j \in 1..Len(platform'), Zenon
      <4> HIDE DEF IInv
      <4> QED BY <4>1, <4>2, <4>3
    <3>5. PagesSeen'
      BY <1>0, <2>2, <3>2, <3>4 DEF PagesSeen, Undisturbed, k
    <3>6. Expected'
      BY <2>1, <3>2, <3>3 DEF Expected, Who
    <3> QED BY <3>5, <3>6
  <2>4. ASSUME Withdraw PROVE PagesSeen' /\ Expected'
    <3>1. PICK i \in 1..Len(platform) :
            /\ platform' = SubSeq(platform, 1, i - 1) \o SubSeq(platform, i + 1, Len(platform))
            /\ present' = present \ {platform[i].who}
      BY <2>4 DEF Withdraw
    <3>2. blemish' = blemish \cup {"withdrawal"}
      BY <1>2, <2>4 DEF Withdraw, Changed
    <3>3. \A j \in 1..Len(platform) : j # i => platform[j] \in Rows(platform')
      BY <3>1, RowsOfWithdrawal DEF TypeOK, NamedOnce
    <3>4. present' \subseteq Who(Rows(platform'))
      <4> SUFFICES ASSUME NEW w \in present' PROVE w \in Who(Rows(platform'))
        OBVIOUS
      <4>1. PICK j \in 1..Len(platform) : w = platform[j].who
        BY <2>1, <3>1 DEF Who, Rows
      <4> QED BY <3>1, <3>3, <4>1 DEF Who
    <3> QED BY <3>2, <3>4 DEF PagesSeen, Expected, Undisturbed
  <2>5. ASSUME Progress PROVE PagesSeen' /\ Expected'
    <3>1. PICK i \in 1..Len(platform), r \in Record :
            r.who = platform[i].who /\ platform' = [platform EXCEPT ![i] = r]
      BY <2>5 DEF Progress
    <3>2. blemish' = blemish \cup {"progress"} /\ UNCHANGED <<present, arrivals>>
      BY <1>2, <2>5 DEF Progress, Changed
    <3>3. /\ Len(platform') = Len(platform)
          /\ \A j \in 1..Len(platform) : platform'[j].who = platform[j].who
      <4>1. /\ Len(platform') = Len(platform)
            /\ \A j \in 1..Len(platform) : platform'[j] = IF j = i THEN r ELSE platform[j]
        BY <3>1, ExceptSeq DEF TypeOK
      <4> QED BY <3>1, <4>1
    <3>4. Who(Rows(platform)) \subseteq Who(Rows(platform'))
      BY <3>3 DEF Who, Rows
    <3>5. PagesSeen'
      BY <1>0, <1>2, <2>2, <3>2, <3>3 DEF PagesSeen, Undisturbed, Fetching
    <3> QED BY <2>1, <3>2, <3>4, <3>5 DEF Expected
  <2> QED BY <2>0, <2>3, <2>4, <2>5
<1> QED BY <1>0, <1>1, <1>2 DEF Fetching

\* A page that is fetched extends what has been seen, and when it brings
\* nothing new the list is whole.
LEMMA PagesUnderFetch ==
  ASSUME IInv, FetchPage
  PROVE  PagesSeen' /\ Expected' /\ CompleteIsWhole'
<1> USE DEF IInv
<1>1. PICK rows \in Answers(page) :
        LET new == Unseen(Rows(rows), fetched) IN
        /\ fetched' = fetched \cup new
        /\ \/ new = {} /\ pc' = "judge"
           \/ new # {} /\ pc' = pc /\ page' = page + 1
        /\ blemish' = IF Degraded(page, rows) THEN blemish \cup {"degraded"} ELSE blemish
  BY DEF FetchPage
<1>2. /\ Fetching
      /\ UNCHANGED <<platform, present, arrivals>>
  BY DEF FetchPage, Asking, InLoop, outVars
<1> DEFINE k == (page - 1) * PageSize
           n == page * PageSize
<1>3. /\ k \in Nat /\ n \in Nat /\ n = k + PageSize /\ PageSize \in Nat \ {0}
      /\ Len(platform) \in Nat /\ arrivals \in Nat
  BY PageAssumption, LenProperties DEF TypeOK
<1>4. Who(fetched') = Who(fetched) \cup Who(Rows(rows))
  <2>1. Rows(rows) \subseteq Record /\ fetched \subseteq Record
    BY AnswersAreRows, RowsType DEF TypeOK
  <2> QED BY <1>1, <2>1, UnseenAddsAll
<1>5. /\ \A r \in Rows(rows) : \E i \in 1..Len(platform) : r = platform[i] /\ i <= n
      /\ ~Degraded(page, rows) =>
           \A i \in 1..Len(platform) : k < i /\ i <= n => platform[i] \in Rows(rows)
  BY AnswerPlaces DEF TypeOK
<1> HIDE DEF k, n
<1>6. ASSUME Undisturbed'
      PROVE  /\ ~Degraded(page, rows)
             /\ \A i \in 1..Len(platform) :
                  /\ i <= k /\ platform[i].who \in present => platform[i].who \in Who(fetched)
                  /\ platform[i].who \in Who(fetched) => i <= k + arrivals
  BY <1>1, <1>2, <1>6 DEF PagesSeen, Undisturbed, k
<1>7. blemish' = {} => blemish = {} /\ Undisturbed'
  BY <1>1 DEF Undisturbed
<1>8. Expected'
  <2>1. blemish' = {} => fetched' \subseteq Rows(platform)
    <3>1. Rows(rows) \subseteq Rows(platform)
      BY AnswersAreRows DEF TypeOK
    <3>2. blemish = {} => fetched \subseteq Rows(platform)
      BY <1>2 DEF Expected, Fetching
    <3> QED BY <1>1, <1>7, <3>1, <3>2 DEF Unseen
  <2> QED BY <1>2, <1>7, <2>1 DEF Expected, Fetching
<1>9. CASE pc' = pc /\ page' = page + 1
  <2>1. ASSUME Undisturbed', NEW i \in 1..Len(platform)
        PROVE  /\ i <= n /\ platform[i].who \in present => platform[i].who \in Who(fetched')
               /\ platform[i].who \in Who(fetched') => i <= n + arrivals
    <3>0. i \in Nat
      BY <1>3
    <3>1. ASSUME i <= n, platform[i].who \in present
          PROVE  platform[i].who \in Who(fetched')
      <4>1. CASE i <= k
        BY <1>4, <1>6, <2>1, <3>1, <4>1
      <4>2. CASE k < i
        <5>1. platform[i] \in Rows(rows)
          BY <1>5, <1>6, <2>1, <3>1, <4>2
        <5> QED BY <1>4, <5>1 DEF Who
      <4> QED BY <1>3, <3>0, <4>1, <4>2
    <3>2. ASSUME platform[i].who \in Who(fetched')
          PROVE  i <= n + arrivals
      <4>1. CASE platform[i].who \in Who(fetched)
        <5>1. i <= k + arrivals
          BY <1>6, <2>1, <4>1
        <5> QED BY <1>3, <3>0, <5>1
      <4>2. CASE platform[i].who \in Who(Rows(rows))
        <5>1. PICK j \in 1..Len(platform) : platform[i].who = platform[j].who /\ j <= n
          BY <1>5, <4>2 DEF Who
        <5>2. i = j
          BY <5>1 DEF NamedOnce, NoTwice
        <5> QED BY <1>3, <3>0, <5>1, <5>2
      <4> QED BY <1>4, <3>2, <4>1, <4>2
    <3> QED BY <3>1, <3>2
  <2>2. (page' - 1) * PageSize = n
    <3>1. page' - 1 = page
      BY <1>9 DEF TypeOK
    <3> QED BY <3>1 DEF n
  <2>3. PagesSeen'
    BY <1>2, <2>1, <2>2 DEF PagesSeen
  <2>4. CompleteIsWhole'
    BY <1>2, <1>9 DEF CompleteIsWhole, Fetching
  <2> QED BY <1>8, <2>3, <2>4
<1>10. CASE Unseen(Rows(rows), fetched) = {} /\ pc' = "judge"
  <2>1. fetched' = fetched /\ Who(Rows(rows)) \subseteq Who(fetched)
    BY <1>1, <1>4, <1>10
  <2>2. ASSUME Undisturbed', arrivals < PageSize
        PROVE  present \subseteq Who(fetched)
    <3> SUFFICES ASSUME NEW w \in present, w \notin Who(fetched) PROVE FALSE
      OBVIOUS
    <3>1. PICK i \in 1..Len(platform) : w = platform[i].who
      BY <1>2 DEF Expected, Fetching, Who, Rows
    <3>2. i \in Nat /\ i <= Len(platform) /\ i > k
      <4>1. i \in Nat /\ i <= Len(platform)
        BY <1>3
      <4>2. ~(i <= k)
        BY <1>6, <2>2, <3>1
      <4> QED BY <1>3, <4>1, <4>2
    <3>3. i > n
      <4>1. ~(i <= n)
        BY <1>5, <1>6, <2>1, <2>2, <3>1, <3>2 DEF Who
      <4> QED BY <1>3, <3>2, <4>1
    <3>4. n \in 1..Len(platform) /\ k < n
      BY <1>3, <3>2, <3>3
    <3>5. platform[n] \in Rows(rows)
      BY <1>3, <1>5, <1>6, <2>2, <3>4
    <3>6. n <= k + arrivals
      BY <1>6, <2>1, <2>2, <3>4, <3>5 DEF Who
    <3> QED BY <1>3, <2>2, <3>6
  <2>3. ASSUME blemish' = {} PROVE fetched = Rows(platform)
    <3>1. arrivals = 0 /\ present = Who(Rows(platform)) /\ fetched \subseteq Rows(platform)
      BY <1>2, <1>7, <2>3 DEF Expected, Fetching
    <3>2. Who(Rows(platform)) \subseteq Who(fetched)
      BY <1>3, <1>7, <2>2, <2>3, <3>1
    <3>3. OneRecordEach(Rows(platform))
      BY RowsOnce DEF NamedOnce
    <3>4. ASSUME NEW r \in Rows(platform) PROVE r \in fetched
      <4>1. PICK f \in fetched : f.who = r.who
        BY <3>2, <3>4 DEF Who
      <4>2. f = r
        BY <3>1, <3>3, <4>1 DEF OneRecordEach
      <4> QED BY <4>1, <4>2
    <3> QED BY <3>1, <3>4
  <2>4. Whole(fetched)'
    BY <1>2, <2>1, <2>2, <2>3 DEF Whole
  <2> QED BY <1>8, <1>10, <2>4 DEF PagesSeen, CompleteIsWhole, Fetching
<1> QED BY <1>1, <1>9, <1>10

\* What the fetch has seen, and the list that comes of it, after every step.
LEMMA PagesStep ==
  ASSUME IInv, [Next]_vars
  PROVE  PagesSeen' /\ Expected' /\ CompleteIsWhole'
<1> USE DEF IInv
<1>1. ASSUME pc' \notin {"fetch", "judge", "save"}
      PROVE  PagesSeen' /\ Expected' /\ CompleteIsWhole'
  BY <1>1 DEF PagesSeen, Expected, CompleteIsWhole, Fetching
<1>2. ASSUME UNCHANGED <<platform, pc, page, fetched, complete, records, present, blemish,
                         arrivals>>
      PROVE  PagesSeen' /\ Expected' /\ CompleteIsWhole'
  BY <1>2 DEF PagesSeen, Expected, CompleteIsWhole, Whole, Undisturbed, Fetching
<1>3. ASSUME BeginFetch, pc' = "fetch", UNCHANGED platform
      PROVE  PagesSeen' /\ Expected' /\ CompleteIsWhole'
  <2>1. /\ page' = 1 /\ fetched' = {} /\ present' = Who(Rows(platform))
        /\ blemish' = {} /\ arrivals' = 0
    BY <1>3 DEF BeginFetch
  <2>2. PagesSeen'
    <3>1. (page' - 1) * PageSize = 0
      BY <2>1, PageAssumption
    <3>2. \A i \in 1..Len(platform) : ~(i <= 0)
      BY LenProperties DEF TypeOK
    <3> QED BY <1>3, <2>1, <3>1, <3>2 DEF PagesSeen, Who
  <2> QED BY <1>3, <2>1, <2>2 DEF Expected, CompleteIsWhole
<1>4. ASSUME EndFetch(FALSE), Fetching
      PROVE  PagesSeen' /\ Expected' /\ CompleteIsWhole'
  <2>1. /\ pc' = "judge" /\ ~complete'
        /\ UNCHANGED <<platform, present, blemish, arrivals, fetched>>
    BY <1>4 DEF EndFetch, outVars, fetchHistory
  <2> QED BY <1>4, <2>1 DEF PagesSeen, Expected, CompleteIsWhole, Fetching
<1>5. CASE Arrive \/ Withdraw \/ Progress
  BY <1>5, PagesUnderChange
<1>6. CASE PressForce \/ RequestStop
  BY <1>2, <1>6 DEF PressForce, RequestStop, outVars, fetchVars, fetchHistory, resultVars
<1>7. CASE Start \/ TokenExpires
  BY <1>3, <1>7 DEF Start, TokenExpires, Asking, InLoop, Fetching, outVars
<1>8. CASE FetchPage
  BY <1>8, PagesUnderFetch
<1>9. CASE CapReached \/ LaterPageFails
  BY <1>4, <1>9 DEF CapReached, LaterPageFails, Asking, InLoop
<1>10. CASE FirstPageFails \/ LoginAgainFails \/ RefuseBaseline \/ RefuseShrink
  BY <1>1, <1>10, FailStep DEF AfterAccount
<1>11. CASE Accept
  <2>1. /\ pc = "judge" /\ pc' = "save"
        /\ UNCHANGED <<platform, present, blemish, arrivals, complete>>
        /\ complete => records' = fetched
    BY <1>11 DEF Accept, Take, outVars, fetchHistory
  <2> QED BY <2>1 DEF PagesSeen, Expected, CompleteIsWhole, Whole, Undisturbed, Fetching
<1>12. CASE SaveSnapshot \/ SaveFails \/ RecordOutcome \/ Notify \/ AppendEvent
  BY <1>1, <1>12 DEF SaveSnapshot, SaveFails, RecordOutcome, Notify, AppendEvent, AfterAccount
<1>13. CASE SyncAttachments \/ Cancel \/ Abandon \/ NotifyBatch \/ Finish \/ Crash
  BY <1>1, <1>13 DEF SyncAttachments, Cancel, Abandon, NotifyBatch, Finish, Crash, EndRun,
                     AfterAccount
<1>14. CASE UNCHANGED vars
  BY <1>2, <1>14 DEF vars, outVars, fileVars, fetchVars, fetchHistory, resultVars, tellVars
<1> QED BY <1>5, <1>6, <1>7, <1>8, <1>9, <1>10, <1>11, <1>12, <1>13, <1>14 DEF Next

-----------------------------------------------------------------------------
(* The theorems *)

\* The scan of an account keeps its invariant, whatever the platform, the
\* operator and failures do (src/main.py scan_account_and_notify).
THEOREM InductiveInvariant == Spec => []IInv
<1>1. Init => IInv
  <2> SUFFICES ASSUME Init PROVE IInv
    OBVIOUS
  <2>1. /\ platform \in Seq(Record) /\ NoTwice(platform)
        /\ snapshot \in {{}, Rows(platform)}
        /\ ever = Who(Rows(platform))
    BY InitialAssumption DEF Init
  <2>2. Rows(platform) \subseteq Record /\ ever \subseteq Reg
    BY <2>1, RowsType
  <2>3. TypeOK
    <3>1. platform \in Seq(Record) /\ snapshot \subseteq Record /\ ever \subseteq Reg
      BY <2>1, <2>2
    <3>2. /\ outcome \in Outcome \cup {None} /\ force \in BOOLEAN /\ stop \in BOOLEAN
          /\ pc \in Stage /\ run \in Kind \cup {None}
      BY DEF Init, Stage
    <3>3. cap \in Cap \cup {0} /\ page \in Nat \ {0}
      BY DEF Init
    <3>4. /\ retried \in BOOLEAN /\ fetched \subseteq Record /\ complete \in BOOLEAN
          /\ total \in Nat /\ records \subseteq Record /\ collected \in BOOLEAN
      BY DEF Init
    <3>5. diff \in DiffResult
      BY NoDiffType DEF Init
    <3>6. changes \in 0..MaxChanges /\ scans \in 0..MaxScans
      BY BoundsAssumption DEF Init
    <3>7. present \subseteq Reg /\ blemish \subseteq Blemish
      BY DEF Init
    <3>8. arrivals \in Nat /\ credit \in Int
      BY DEF Init
    <3>9. saved \in BOOLEAN /\ owed \in BOOLEAN
      BY DEF Init
    <3> QED BY <3>1, <3>2, <3>3, <3>4, <3>5, <3>6, <3>7, <3>8, <3>9 DEF TypeOK
  <2>4. OneRecordEach(Rows(platform))
    BY <2>1, RowsOnce
  <2>5. NamedOnce
    BY <2>1, <2>4 DEF Init, NamedOnce, OneRecordEach, Who
  <2>6. NumbersStay
    BY <2>1, <2>4 DEF Init, NumbersStay, Keeps, OneRecordEach
  <2>7. ForceIsCredited /\ InHand /\ Announced
    BY DEF Init, ForceIsCredited, InHand, Announced
  <2>8. PagesSeen /\ Expected /\ CompleteIsWhole
    BY DEF Init, PagesSeen, Expected, CompleteIsWhole, Fetching
  <2> QED BY <2>3, <2>5, <2>6, <2>7, <2>8 DEF IInv
<1>2. IInv /\ [Next]_vars => IInv'
  <2> SUFFICES ASSUME IInv, [Next]_vars PROVE IInv'
    OBVIOUS
  <2>1. TypeOK'
    BY TypeStep DEF IInv, NamedOnce
  <2> QED BY <2>1, NamedStep, ForceStep, InHandStep, AnnouncedStep, PagesStep DEF IInv
<1> QED BY <1>1, <1>2, PTL DEF Spec

\* A snapshot never holds a registration twice.
THEOREM DoublesCorrect == Spec => []SnapshotHasNoDoubles
<1>1. IInv => SnapshotHasNoDoubles
  BY DEF IInv, NamedOnce, SnapshotHasNoDoubles
<1> QED BY <1>1, InductiveInvariant, PTL

\* The diff of a scan is exact, although the code recognises registrations by
\* a number they may have been given in between (src/differ.py).
THEOREM DiffCorrect == Spec => []DiffIsExact
<1>1. IInv => DiffIsExact
  <2> SUFFICES ASSUME IInv, pc = "save", snapshot # {}
               PROVE  /\ Who(diff.added) = Who(records) \ Who(snapshot)
                      /\ Who(diff.removed) = Who(snapshot) \ Who(records)
                      /\ Who(diff.changed) =
                           {w \in Who(records) \cap Who(snapshot) :
                              \E p \in snapshot, c \in records :
                                p.who = w /\ c.who = w /\ p.st # c.st}
    BY DEF DiffIsExact
  <2>1. /\ records \in SUBSET Record /\ snapshot \in SUBSET Record
        /\ OneRecordEach(snapshot) /\ diff = Diff(records, snapshot)
    BY DEF IInv, TypeOK, NamedOnce, InHand
  <2>2. /\ diff.added = {c \in records : c.who \notin Who(snapshot)}
        /\ diff.changed = {c \in records : \E p \in snapshot : p.who = c.who /\ p.st # c.st}
        /\ diff.removed = {p \in snapshot : p.who \notin Who(records)}
    BY <2>1, DiffSays
  <2>3. Who(diff.added) = Who(records) \ Who(snapshot)
    BY <2>2 DEF Who
  <2>4. Who(diff.removed) = Who(snapshot) \ Who(records)
    BY <2>2 DEF Who
  <2>5. Who(diff.changed) =
          {w \in Who(records) \cap Who(snapshot) :
             \E p \in snapshot, c \in records : p.who = w /\ c.who = w /\ p.st # c.st}
    BY <2>2 DEF Who
  <2> QED BY <2>3, <2>4, <2>5
<1> QED BY <1>1, InductiveInvariant, PTL

\* A partial fetch neither loses a numbered registration from the snapshot nor
\* reports it as gone, whatever the platform answered (src/main.py).
THEOREM PartialCorrect == Spec => []PartialKeepsNumbered
<1>1. IInv => PartialKeepsNumbered
  <2> SUFFICES ASSUME IInv, pc = "save", ~complete
               PROVE  /\ \A p \in diff.removed : ~p.numbered
                      /\ \A p \in snapshot : p.numbered => p.who \in Who(records)
    BY DEF PartialKeepsNumbered
  <2>1. /\ records \in SUBSET Record /\ snapshot \in SUBSET Record
        /\ OneRecordEach(snapshot) /\ diff = Diff(records, snapshot)
    BY DEF IInv, TypeOK, NamedOnce, InHand
  <2>2. PICK F \in SUBSET Record : records = Merge(snapshot, F)
    BY DEF IInv, InHand
  <2>3. \A p \in snapshot : p.numbered => p.who \in Who(records)
    BY <2>1, <2>2, MergeProperties
  <2>4. ASSUME NEW p \in diff.removed
        PROVE  ~p.numbered
    <3>1. CASE snapshot = {}
      BY <2>1, <2>4, <3>1 DEF Diff, NoDiff
    <3>2. CASE snapshot # {}
      <4>2. diff.removed = {q \in snapshot : q.who \notin Who(records)}
        BY <2>1, <3>2, DiffSays
      <4>1. p \in snapshot /\ p.who \notin Who(records)
        BY <2>4, <4>2
      <4> QED BY <2>3, <4>1
    <3> QED BY <3>1, <3>2
  <2> QED BY <2>3, <2>4
<1> QED BY <1>1, InductiveInvariant, PTL

\* A suspicious shrink costs a force_save flag, and one flag each.
THEOREM ConsentCorrect == Spec => ShrinkNeedsConsent
<1>1. IInv /\ [Next]_vars
        => [snapshot' # snapshot /\ NeedsForce(snapshot') => credit > 0]_vars
  <2> SUFFICES ASSUME IInv, [Next]_vars, snapshot' # snapshot, NeedsForce(snapshot')
               PROVE  credit > 0
    OBVIOUS
  <2>1. SaveSnapshot
    <3>1. CASE Arrive \/ Withdraw \/ Progress
      BY <3>1 DEF Arrive, Withdraw, Progress, PlatformFrame, fileVars
    <3>2. CASE FetchPage
      BY <3>2 DEF FetchPage, fileVars
    <3>3. CASE Accept
      BY <3>3 DEF Accept, Take
    <3> QED BY <3>1, <3>2, <3>3, QuietSteps DEF Quiet
  <2>2. pc = "save" /\ snapshot' = records
    BY <2>1 DEF SaveSnapshot
  <2>3. credit = (IF force THEN 1 ELSE 0) + 1
    BY <2>2 DEF IInv, ForceIsCredited
  <2> QED BY <2>3
<1> QED BY <1>1, InductiveInvariant, PTL DEF Spec, ShrinkNeedsConsent

\* Only giving the account up overwrites the outcome of a saved scan.
THEOREM SavedCorrect == Spec => SavedIsNotAnError
<1>1. IInv /\ [Next]_vars
        => [saved' /\ outcome' # outcome
              => outcome' \in {IF complete THEN "ok" ELSE "partial", "timeout"}]_vars
  <2> SUFFICES ASSUME IInv, [Next]_vars, saved', outcome' # outcome
               PROVE  outcome' \in {IF complete THEN "ok" ELSE "partial", "timeout"}
    OBVIOUS
  <2>1. pc \in {"idle", "fetch", "judge", "save"} => ~saved
    BY DEF IInv, Announced
  <2>2. CASE FirstPageFails \/ LoginAgainFails \/ RefuseBaseline \/ RefuseShrink
    BY <2>1, <2>2, FailStep
  <2>3. CASE SaveFails
    BY <2>1, <2>3 DEF SaveFails
  <2>4. CASE RecordOutcome
    BY <2>4 DEF RecordOutcome, Record_scan
  <2>5. CASE Abandon
    BY <2>5 DEF Abandon, Record_scan
  <2>6. CASE Finish \/ Crash
    BY <2>6 DEF Finish, Crash, EndRun
  <2>7. CASE Arrive \/ Withdraw \/ Progress
    BY <2>7 DEF Arrive, Withdraw, Progress, PlatformFrame, tellVars
  <2>8. CASE PressForce \/ RequestStop \/ Start \/ FetchPage \/ UNCHANGED vars
    BY <2>8 DEF PressForce, RequestStop, Start, FetchPage, vars, tellVars
  <2>9. CASE CapReached \/ LaterPageFails \/ TokenExpires \/ Accept \/ SaveSnapshot
    BY <2>9 DEF CapReached, LaterPageFails, EndFetch, TokenExpires, Accept, Take,
                SaveSnapshot, tellVars
  <2>10. CASE Notify \/ AppendEvent \/ SyncAttachments \/ Cancel \/ NotifyBatch
    BY <2>10 DEF Notify, AppendEvent, SyncAttachments, Cancel, NotifyBatch
  <2> QED BY <2>2, <2>3, <2>4, <2>5, <2>6, <2>7, <2>8, <2>9, <2>10 DEF Next
<1> QED BY <1>1, InductiveInvariant, PTL DEF Spec, SavedIsNotAnError

\* A run that was not stopped and did not give the account up announces every
\* change it saved.
THEOREM AnnouncedCorrect == Spec => []ChangesAreAnnounced
<1>1. IInv => ChangesAreAnnounced
  BY DEF IInv, Announced, ChangesAreAnnounced
<1> QED BY <1>1, InductiveInvariant, PTL

\* No false removals: as long as nobody is withdrawn, every page is answered in
\* full and less than a page of registrations arrives, a numbered registration
\* that is there all through the fetch is never reported as gone, whatever the
\* pages overlap, and after a failed page or a reached cap too.
THEOREM RemovedCorrect == Spec => []RemovedAreGone
<1>1. IInv => RemovedAreGone
  <2> SUFFICES ASSUME IInv, pc = "save", Undisturbed, arrivals < PageSize,
                      NEW p \in diff.removed, p.numbered
               PROVE  p.who \notin present
    BY DEF RemovedAreGone
  <2>1. /\ records \in SUBSET Record /\ snapshot \in SUBSET Record
        /\ OneRecordEach(snapshot) /\ diff = Diff(records, snapshot)
    BY DEF IInv, TypeOK, NamedOnce, InHand
  <2>2. snapshot # {}
    BY <2>1 DEF Diff, NoDiff
  <2>3. p \in snapshot /\ p.who \notin Who(records)
    <3>1. diff.removed = {q \in snapshot : q.who \notin Who(records)}
      BY <2>1, <2>2, DiffSays
    <3> QED BY <3>1
  <2>4. CASE complete
    BY <2>3, <2>4 DEF IInv, CompleteIsWhole, Whole
  <2>5. CASE ~complete
    BY <2>1, <2>3, <2>5, MergeProperties DEF IInv, InHand
  <2> QED BY <2>4, <2>5
<1> QED BY <1>1, InductiveInvariant, PTL

\* A fetch that calls itself complete is a copy of a platform that stood still
\* (src/scraper.py: the loop ends at a page that brings nothing new).
THEOREM CompleteCorrect == Spec => []CompleteMeansAll
<1>1. IInv => CompleteMeansAll
  BY DEF IInv, CompleteIsWhole, Whole, CompleteMeansAll
<1> QED BY <1>1, InductiveInvariant, PTL
=============================================================================
