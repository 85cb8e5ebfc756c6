--------------------------- MODULE EventLogProofs ---------------------------
(***************************************************************************)
(* Proofs about EventLog, for any scans, processes, viewers and bounds:    *)
(* the streams are in order and without repetition, and a page is whole.   *)
(***************************************************************************)
EXTENDS EventLog, FiniteSetTheorems, SequenceTheorems, TLAPS

-----------------------------------------------------------------------------
(* The places of a sequence.                                               *)

\* Counting the places up to one numbers them in their order.
LEMMA Ranks ==
  ASSUME NEW n \in Nat, NEW P \in SUBSET (1 .. n)
  PROVE  /\ Cardinality(P) \in Nat
         /\ \A k \in 1 .. Cardinality(P) : Nth(P, k) \in P
         /\ \A k, m \in 1 .. Cardinality(P) : k < m => Nth(P, k) < Nth(P, m)
         /\ \A i \in P : \E k \in 1 .. Cardinality(P) : Nth(P, k) = i
<1> DEFINE UpTo(i) == {j \in P : j <= i}
           rank == [i \in P |-> Cardinality(UpTo(i))]
           N == Cardinality(P)
<1>0. \A i \in P : i \in Int
  OBVIOUS
<1>1. IsFiniteSet(P) /\ N \in Nat
  <2>1. IsFiniteSet(1 .. n)
    BY FS_Interval
  <2>2. IsFiniteSet(P)
    BY <2>1, FS_Subset
  <2> QED BY <2>2, FS_CardinalityType
<1>2. \A i \in P : IsFiniteSet(UpTo(i)) /\ Cardinality(UpTo(i)) \in 1 .. N
  <2> SUFFICES ASSUME NEW i \in P
               PROVE  IsFiniteSet(UpTo(i)) /\ Cardinality(UpTo(i)) \in 1 .. N
    OBVIOUS
  <2>1. UpTo(i) \in SUBSET P
    OBVIOUS
  <2>2. IsFiniteSet(UpTo(i)) /\ Cardinality(UpTo(i)) <= N
    BY <1>1, <2>1, FS_Subset
  <2>3. i \in UpTo(i)
    BY <1>0
  <2>4. Cardinality(UpTo(i)) \in Nat /\ Cardinality(UpTo(i)) # 0
    <3> HIDE DEF UpTo
    <3> QED BY <2>2, <2>3, FS_CardinalityType, FS_EmptySet
  <2> QED BY <1>1, <2>2, <2>4
<1>3. \A i, j \in P : i < j => Cardinality(UpTo(i)) < Cardinality(UpTo(j))
  <2> SUFFICES ASSUME NEW i \in P, NEW j \in P, i < j
               PROVE  Cardinality(UpTo(i)) < Cardinality(UpTo(j))
    OBVIOUS
  <2>0. i \in Int /\ j \in Int
    BY <1>0
  <2>1. j \in UpTo(j) /\ j \notin UpTo(i) /\ \A x \in P : x <= i => x <= j
    BY <1>0, <2>0
  <2>2. UpTo(i) # UpTo(j) /\ UpTo(i) \in SUBSET UpTo(j)
    BY <2>1
  <2>3. Cardinality(UpTo(i)) <= Cardinality(UpTo(j)) /\ Cardinality(UpTo(i)) # Cardinality(UpTo(j))
    <3> HIDE DEF UpTo
    <3> QED BY <1>2, <2>1, <2>2, FS_Subset
  <2>4. Cardinality(UpTo(i)) \in Int /\ Cardinality(UpTo(j)) \in Int
    BY <1>2
  <2> HIDE DEF UpTo
  <2> QED BY <2>3, <2>4
<1>4. /\ rank \in [P -> 1 .. N]
      /\ \A i, j \in P : i < j => rank[i] < rank[j]
  <2> HIDE DEF UpTo
  <2> QED BY <1>2, <1>3
<1>5. \A k \in 1 .. N, i \in P : rank[i] = k <=> Cardinality({j \in P : j <= i}) = k
  OBVIOUS
<1> HIDE DEF rank, N
<1>6. \A i, j \in P : rank[i] = rank[j] => i = j
  <2> SUFFICES ASSUME NEW i \in P, NEW j \in P, rank[i] = rank[j] PROVE i = j
    OBVIOUS
  <2>1. i \in Int /\ j \in Int /\ rank[i] \in Int /\ rank[j] \in Int
    BY <1>0, <1>1, <1>4
  <2> QED BY <1>4, <2>1
<1>7. \A k \in 1 .. N : \E i \in P : rank[i] = k
  <2>1. rank \in Injection(P, 1 .. N)
    BY <1>4, <1>6 DEF Injection, IsInjective
  <2>2. IsFiniteSet(1 .. N) /\ Cardinality(1 .. N) = N
    BY <1>1, FS_Interval
  <2>3. rank \in Surjection(P, 1 .. N)
    BY <2>1, <2>2, FS_Injection DEF N
  <2> QED BY <2>3 DEF Surjection
<1>8. \A k \in 1 .. N : Nth(P, k) \in P /\ rank[Nth(P, k)] = k
  BY <1>5, <1>7 DEF Nth
<1>9. \A k, m \in 1 .. N : k < m => Nth(P, k) < Nth(P, m)
  <2> SUFFICES ASSUME NEW k \in 1 .. N, NEW m \in 1 .. N, k < m
               PROVE  Nth(P, k) < Nth(P, m)
    OBVIOUS
  <2>1. Nth(P, k) \in P /\ Nth(P, m) \in P /\ rank[Nth(P, k)] = k /\ rank[Nth(P, m)] = m
    BY <1>8
  <2>2. Nth(P, k) \in Int /\ Nth(P, m) \in Int
    BY <1>0, <2>1
  <2>3. k \in Int /\ m \in Int
    BY <1>1
  <2> QED BY <1>4, <2>1, <2>2, <2>3
<1>10. \A i \in P : \E k \in 1 .. N : Nth(P, k) = i
  <2> SUFFICES ASSUME NEW i \in P PROVE \E k \in 1 .. N : Nth(P, k) = i
    OBVIOUS
  <2>1. rank[i] \in 1 .. N
    BY <1>4
  <2>2. Nth(P, rank[i]) = i
    BY <1>6, <1>8, <2>1
  <2> QED BY <2>1, <2>2
<1> QED BY <1>1, <1>8, <1>9, <1>10 DEF N

\* All the places of a sequence are all of it.
LEMMA AllPlaces ==
  ASSUME NEW n \in Nat, NEW k \in 1 .. n
  PROVE  Nth(1 .. n, k) = k /\ Cardinality(1 .. n) = n
<1>1. Cardinality(1 .. n) = n
  BY FS_Interval
<1>2. \A i \in 1 .. n : Cardinality({j \in 1 .. n : j <= i}) = i
  <2> SUFFICES ASSUME NEW i \in 1 .. n PROVE Cardinality({j \in 1 .. n : j <= i}) = i
    OBVIOUS
  <2>1. {j \in 1 .. n : j <= i} = 1 .. i
    OBVIOUS
  <2>2. Cardinality(1 .. i) = i
    BY FS_Interval
  <2> QED BY <2>1, <2>2
<1>3. Nth(1 .. n, k) \in 1 .. n /\ Cardinality({j \in 1 .. n : j <= Nth(1 .. n, k)}) = k
  BY <1>2 DEF Nth
<1> QED BY <1>1, <1>2, <1>3

\* Picking members of a sequence keeps their order and their number.
LEMMA PickIs ==
  ASSUME NEW S, NEW s \in Seq(S), NEW P \in SUBSET (1 .. Len(s))
  PROVE  /\ Pick(s, P) \in Seq(S)
         /\ ToSet(Pick(s, P)) = {s[i] : i \in P}
         /\ IsInjective(s) => IsInjective(Pick(s, P))
         /\ P = 1 .. Len(s) => Pick(s, P) = s
<1>1. Len(s) \in Nat /\ DOMAIN s = 1 .. Len(s)
  BY LenProperties
<1>0. \A i \in P : i \in 1 .. Len(s) /\ i \in Int
  BY <1>1
<1> DEFINE N == Cardinality(P)
<1>2. /\ N \in Nat
      /\ \A k \in 1 .. N : Nth(P, k) \in P
      /\ \A k, m \in 1 .. N : k < m => Nth(P, k) < Nth(P, m)
      /\ \A i \in P : \E k \in 1 .. N : Nth(P, k) = i
  BY <1>1, Ranks
<1> HIDE DEF N
<1>3. Pick(s, P) = [k \in 1 .. N |-> s[Nth(P, k)]]
  BY DEF Pick, N
<1>4. \A k \in 1 .. N : s[Nth(P, k)] \in S
  BY <1>1, <1>2, ElementOfSeq
<1>5. Pick(s, P) \in Seq(S) /\ DOMAIN Pick(s, P) = 1 .. N
  BY <1>2, <1>3, <1>4
<1>6. ToSet(Pick(s, P)) = {s[i] : i \in P}
  <2>1. ToSet(Pick(s, P)) = {s[Nth(P, k)] : k \in 1 .. N}
    BY <1>3, <1>5 DEF ToSet
  <2>2. ASSUME NEW i \in P PROVE s[i] \in {s[Nth(P, k)] : k \in 1 .. N}
    BY <1>2
  <2> QED BY <1>2, <2>1, <2>2
<1>7. ASSUME IsInjective(s) PROVE IsInjective(Pick(s, P))
  <2> SUFFICES ASSUME NEW k \in 1 .. N, NEW m \in 1 .. N, s[Nth(P, k)] = s[Nth(P, m)]
               PROVE  k = m
    BY <1>3, <1>5 DEF IsInjective
  <2>1. Nth(P, k) \in P /\ Nth(P, m) \in P
    BY <1>2
  <2>2. Nth(P, k) = Nth(P, m)
    BY <1>1, <1>7, <2>1 DEF IsInjective
  <2>3. k \in Int /\ m \in Int
    BY <1>2
  <2>4. Nth(P, k) \in Int
    BY <1>0, <2>1
  <2>5. ~ (k < m) /\ ~ (m < k)
    <3>1. k < m => Nth(P, k) < Nth(P, m)
      BY <1>2
    <3>2. m < k => Nth(P, m) < Nth(P, k)
      BY <1>2
    <3> QED BY <2>2, <2>4, <3>1, <3>2
  <2> QED BY <2>3, <2>5
<1>8. ASSUME P = 1 .. Len(s) PROVE Pick(s, P) = s
  <2>0. N = Len(s)
    <3>1. \A n \in Nat : Cardinality(1 .. n) = n
      BY FS_Interval
    <3>2. Cardinality(1 .. Len(s)) = Len(s)
      BY <1>1, <3>1
    <3> QED BY <1>8, <3>2 DEF N
  <2>1. N = Len(s) /\ \A k \in 1 .. Len(s) : Nth(P, k) = k
    <3>1. \A k \in 1 .. Len(s) : Nth(1 .. Len(s), k) = k
      BY <1>1, AllPlaces
    <3> QED BY <1>8, <2>0, <3>1
  <2>2. /\ Pick(s, P) \in [1 .. Len(s) -> S] /\ s \in [1 .. Len(s) -> S]
        /\ \A k \in 1 .. Len(s) : Pick(s, P)[k] = s[k]
    BY <1>3, <1>4, <2>1, LenProperties
  <2> QED BY <2>2
<1> QED BY <1>5, <1>6, <1>7, <1>8

\* The members of a sequence.
LEMMA ToSetIs ==
  ASSUME NEW S, NEW s \in Seq(S)
  PROVE  /\ Len(s) \in Nat /\ DOMAIN s = 1 .. Len(s)
         /\ ToSet(s) = {s[i] : i \in 1 .. Len(s)} /\ ToSet(s) \subseteq S
BY LenProperties, ElementOfSeq DEF ToSet

\* A line that can be parsed is two pieces of one scan, side by side.
LEMMA BeginsIs ==
  ASSUME NEW c \in Seq(Piece)
  PROVE  /\ Len(c) \in Nat /\ Begins(c) \in SUBSET (1 .. Len(c))
         /\ \A i \in Begins(c) : /\ i \in Int /\ i + 1 \in 1 .. Len(c)
                                 /\ c[i][1] \in Scans /\ c[i][2] = 1
                                 /\ c[i + 1] = <<c[i][1], 2>>
<1>1. Len(c) \in Nat /\ DOMAIN c = 1 .. Len(c)
  BY LenProperties
<1>2. Begins(c) \in SUBSET (1 .. Len(c))
  BY DEF Begins
<1>3. ASSUME NEW i \in Begins(c)
      PROVE  /\ i \in Int /\ i + 1 \in 1 .. Len(c)
             /\ c[i][1] \in Scans /\ c[i][2] = 1
             /\ c[i + 1] = <<c[i][1], 2>>
  <2>1. i \in 1 .. Len(c) /\ i < Len(c) /\ c[i][2] = 1 /\ c[i + 1] = <<c[i][1], 2>>
    BY <1>3 DEF Begins, Whole
  <2>2. c[i] \in Piece
    BY <2>1, ElementOfSeq
  <2> QED BY <1>1, <2>1, <2>2 DEF Piece
<1> QED BY <1>1, <1>2, <1>3

\* What a text is parsed to, by the places of its lines.
LEMMA ParsedIs ==
  ASSUME NEW c \in Seq(Piece)
  PROVE  /\ Parsed(c) \in Seq(Scans)
         /\ ToSet(Parsed(c)) = {c[i][1] : i \in Begins(c)}
         /\ \A k \in 1 .. Len(Parsed(c)) :
              Nth(Begins(c), k) \in Begins(c) /\ Parsed(c)[k] = c[Nth(Begins(c), k)][1]
         /\ \A k, m \in 1 .. Len(Parsed(c)) : k < m => Nth(Begins(c), k) < Nth(Begins(c), m)
         /\ \A i \in Begins(c) : \E k \in 1 .. Len(Parsed(c)) : Nth(Begins(c), k) = i
<1> DEFINE P == Begins(c)
           N == Cardinality(P)
<1>1. /\ N \in Nat
      /\ \A k \in 1 .. N : Nth(P, k) \in P
      /\ \A k, m \in 1 .. N : k < m => Nth(P, k) < Nth(P, m)
      /\ \A i \in P : \E k \in 1 .. N : Nth(P, k) = i
  BY BeginsIs, Ranks
<1>2. \A i \in P : c[i][1] \in Scans
  BY BeginsIs
<1>3. Parsed(c) = [k \in 1 .. N |-> c[Nth(P, k)][1]]
  BY DEF Parsed
<1> HIDE DEF N, P
<1>4. \A k \in 1 .. N : c[Nth(P, k)][1] \in Scans
  BY <1>1, <1>2
<1>5. Parsed(c) \in Seq(Scans) /\ Len(Parsed(c)) = N /\ DOMAIN Parsed(c) = 1 .. N
  BY <1>1, <1>3, <1>4
<1>6. ToSet(Parsed(c)) = {c[i][1] : i \in P}
  <2>1. ToSet(Parsed(c)) = {c[Nth(P, k)][1] : k \in 1 .. N}
    BY <1>3, <1>5 DEF ToSet
  <2>2. ASSUME NEW i \in P PROVE c[i][1] \in {c[Nth(P, k)][1] : k \in 1 .. N}
    BY <1>1
  <2> QED BY <1>1, <2>1, <2>2
<1> QED BY <1>1, <1>3, <1>5, <1>6 DEF P

\* A message is a piece of the text; it is whole if it ends a line of two pieces.
LEMMA MessageIs ==
  ASSUME NEW c \in Seq(Piece), NEW i \in 1 .. Len(c)
  PROVE  /\ MessageAt(c, i) \in Message
         /\ MessageAt(c, i).scan = c[i][1] /\ MessageAt(c, i).part = c[i][2]
         /\ MessageAt(c, i).part = 2 => c[i] = <<c[i][1], 2>>
         /\ MessageAt(c, i).whole => MessageAt(c, i).part = 2
<1>1. c[i] \in Piece
  BY ElementOfSeq
<1>2. c[i][1] \in Scans /\ c[i][2] \in {1, 2} /\ c[i] = <<c[i][1], c[i][2]>>
  BY <1>1 DEF Piece
<1>3. i > 1 /\ Whole(c, i - 1) => c[i][2] = 2
  <2> SUFFICES ASSUME i > 1, Whole(c, i - 1) PROVE c[i][2] = 2
    OBVIOUS
  <2>1. i - 1 + 1 = i
    BY LenProperties
  <2>2. c[i] = <<c[i - 1][1], 2>>
    BY <2>1 DEF Whole
  <2> QED BY <2>2
<1>4. (i > 1 /\ Whole(c, i - 1)) \in BOOLEAN
  BY DEF Whole, StartsLine
<1> QED BY <1>2, <1>3, <1>4 DEF MessageAt, Message

\* The messages of a text, by the places of their last pieces.
LEMMA MessagesAre ==
  ASSUME NEW c \in Seq(Piece)
  PROVE  /\ Messages(c) \in Seq(Message)
         /\ \A k \in 1 .. Len(Messages(c)) :
              /\ Nth(Ending(c), k) \in 1 .. Len(c)
              /\ Messages(c)[k] = MessageAt(c, Nth(Ending(c), k))
         /\ \A k, m \in 1 .. Len(Messages(c)) : k < m => Nth(Ending(c), k) < Nth(Ending(c), m)
<1> DEFINE P == Ending(c)
           N == Cardinality(P)
<1>0. Len(c) \in Nat /\ P \in SUBSET (1 .. Len(c))
  BY LenProperties DEF Ending
<1>1. /\ N \in Nat
      /\ \A k \in 1 .. N : Nth(P, k) \in P
      /\ \A k, m \in 1 .. N : k < m => Nth(P, k) < Nth(P, m)
  BY <1>0, Ranks
<1>2. Messages(c) = [k \in 1 .. N |-> MessageAt(c, Nth(P, k))]
  BY DEF Messages
<1> HIDE DEF N, P
<1>3. \A k \in 1 .. N : Nth(P, k) \in 1 .. Len(c) /\ MessageAt(c, Nth(P, k)) \in Message
  <2> SUFFICES ASSUME NEW k \in 1 .. N
               PROVE  Nth(P, k) \in 1 .. Len(c) /\ MessageAt(c, Nth(P, k)) \in Message
    OBVIOUS
  <2>1. Nth(P, k) \in 1 .. Len(c)
    BY <1>0, <1>1
  <2> QED BY <2>1, MessageIs
<1>4. Messages(c) \in Seq(Message) /\ Len(Messages(c)) = N
  BY <1>1, <1>2, <1>3
<1> QED BY <1>1, <1>2, <1>3, <1>4 DEF P

\* More on the end of a log makes none of its lines unreadable.
LEMMA BeginsGrow ==
  ASSUME NEW c \in Seq(Piece), NEW more \in Seq(Piece)
  PROVE  /\ Begins(c) \subseteq Begins(c \o more)
         /\ \A i \in Begins(c) : (c \o more)[i] = c[i]
<1>1. /\ Len(c \o more) = Len(c) + Len(more) /\ Len(c) \in Nat /\ Len(more) \in Nat
      /\ \A i \in 1 .. Len(c) : (c \o more)[i] = c[i]
  BY ConcatProperties, LenProperties
<1>2. ASSUME NEW i \in Begins(c) PROVE i \in Begins(c \o more) /\ (c \o more)[i] = c[i]
  <2>1. i \in 1 .. Len(c) /\ i + 1 \in 1 .. Len(c) /\ i < Len(c) /\ i < Len(c) + Len(more)
    BY <1>1, <1>2 DEF Begins, Whole
  <2>2. (c \o more)[i] = c[i] /\ (c \o more)[i + 1] = c[i + 1]
    BY <1>1, <2>1
  <2>3. StartsLine(c, i) => StartsLine(c \o more, i)
    <3>1. CASE i = 1
      BY <3>1 DEF StartsLine
    <3>2. CASE i # 1
      <4>1. i - 1 \in 1 .. Len(c)
        BY <1>1, <2>1, <3>2
      <4> QED BY <1>1, <4>1 DEF StartsLine
    <3> QED BY <3>1, <3>2
  <2> QED BY <1>1, <1>2, <2>1, <2>2, <2>3 DEF Begins, Whole
<1> QED BY <1>2

\* The first members of a sequence: all of them when they are too few.
LEMMA FirstIs ==
  ASSUME NEW S, NEW s \in Seq(S), NEW n \in Int
  PROVE  /\ First(s, n) \in Seq(S)
         /\ Len(First(s, n)) \in Nat /\ Len(First(s, n)) <= Len(s)
         /\ n \in Nat => Len(First(s, n)) <= n
         /\ \A i \in 1 .. Len(First(s, n)) : i \in 1 .. Len(s) /\ First(s, n)[i] = s[i]
         /\ Len(First(s, n)) < n => First(s, n) = s
<1> DEFINE m == IF Len(s) < n THEN Len(s) ELSE n
<1>1. Len(s) \in Nat /\ m \in Int /\ m <= Len(s)
  BY LenProperties
<1>2. \A i \in 1 .. m : s[i] \in S
  <2>1. \A i \in 1 .. m : i \in 1 .. Len(s)
    BY <1>1
  <2> QED BY <2>1, ElementOfSeq
<1>3. First(s, n) = SubSeq(s, 1, m)
  BY DEF First
<1>4. /\ First(s, n) \in Seq(S)
      /\ Len(First(s, n)) = IF 1 <= m THEN m ELSE 0
      /\ \A i \in 1 .. m : First(s, n)[i] = s[i]
  <2> HIDE DEF m
  <2>1. /\ SubSeq(s, 1, m) \in Seq(S)
        /\ Len(SubSeq(s, 1, m)) = IF 1 <= m THEN m - 1 + 1 ELSE 0
        /\ \A i \in 1 .. m - 1 + 1 : SubSeq(s, 1, m)[i] = s[1 + i - 1]
    BY <1>1, <1>2, SubSeqProperties
  <2>2. m - 1 + 1 = m /\ \A i \in 1 .. m : i \in 1 .. m - 1 + 1 /\ 1 + i - 1 = i
    BY <1>1
  <2> QED BY <1>3, <2>1, <2>2
<1>5. ASSUME Len(First(s, n)) < n PROVE First(s, n) = s
  <2>1. Len(s) < n
    BY <1>1, <1>4, <1>5
  <2>2. First(s, n) = SubSeq(s, 1, Len(s))
    BY <1>3, <2>1
  <2> QED BY <2>2, SubSeqFull
<1>6. Len(First(s, n)) \in Nat /\ Len(First(s, n)) <= Len(s) /\ (n \in Nat => Len(First(s, n)) <= n)
  BY <1>1, <1>4
<1>7. \A i \in 1 .. Len(First(s, n)) : i \in 1 .. Len(s) /\ First(s, n)[i] = s[i]
  <2> SUFFICES ASSUME NEW i \in 1 .. Len(First(s, n)) PROVE i \in 1 .. Len(s) /\ First(s, n)[i] = s[i]
    OBVIOUS
  <2>1. i \in 1 .. m
    BY <1>1, <1>4
  <2>2. i \in 1 .. Len(s)
    BY <1>1, <2>1
  <2> QED BY <1>4, <2>1, <2>2
<1> QED BY <1>4, <1>5, <1>6, <1>7

-----------------------------------------------------------------------------
(* Typing.                                                                   *)

\* What the watcher reads lies behind its cursor.
LEMMA UnreadIs ==
  ASSUME TypeOK
  PROVE  /\ Unread \in Seq(Piece) /\ Len(Unread) \in Nat
         /\ live = 0 => Unread = <<>>
         /\ live # 0 => /\ \A j \in 1 .. Len(Unread) :
                             /\ seen.cursor + j \in 1 .. Len(content[live])
                             /\ Unread[j] = content[live][seen.cursor + j]
                        /\ seen.cursor <= Len(content[live])
                             => seen.cursor + Len(Unread) = Len(content[live])
                        /\ seen.cursor > Len(content[live]) => Len(Unread) = 0
<1>1. CASE live = 0
  <2>1. Unread = <<>>
    BY <1>1 DEF Unread
  <2> QED BY <1>1, <2>1
<1>2. CASE live # 0
  <2> DEFINE c == content[live]
             m == seen.cursor + 1
             n == Len(c)
  <2>1. c \in Seq(Piece) /\ seen.cursor \in Nat
    BY <1>2 DEF TypeOK
  <2>2. n \in Nat /\ m \in Nat \ {0}
    BY <2>1, LenProperties
  <2>3. Unread = SubSeq(c, m, n)
    BY <1>2 DEF Unread
  <2>4. \A i \in m .. n : c[i] \in Piece
    <3>1. \A i \in m .. n : i \in 1 .. n
      BY <2>2
    <3> QED BY <2>1, <3>1, ElementOfSeq
  <2> HIDE DEF m, n, c
  <2>5. /\ Unread \in Seq(Piece)
        /\ Len(Unread) = IF m <= n THEN n - m + 1 ELSE 0
        /\ \A i \in 1 .. n - m + 1 : Unread[i] = c[m + i - 1]
    BY <2>2, <2>3, <2>4, SubSeqProperties
  <2>6. Len(Unread) \in Nat
    BY <2>2, <2>5
  <2>7. \A j \in 1 .. Len(Unread) : j \in 1 .. n - m + 1 /\ m + j - 1 \in 1 .. n
    BY <2>2, <2>5
  <2>8. \A j \in 1 .. Len(Unread) : seen.cursor + j \in 1 .. n /\ Unread[j] = c[seen.cursor + j]
    <3>1. \A j \in 1 .. Len(Unread) : m + j - 1 = seen.cursor + j
      BY <2>1, <2>6 DEF m
    <3> QED BY <2>5, <2>7, <3>1
  <2>9. /\ seen.cursor <= n => seen.cursor + Len(Unread) = n
        /\ seen.cursor > n => Len(Unread) = 0
    <3>1. Len(Unread) = IF seen.cursor + 1 <= n THEN n - (seen.cursor + 1) + 1 ELSE 0
      BY <2>5 DEF m
    <3> DEFINE k == seen.cursor
    <3>2. k \in Nat /\ Len(Unread) = IF k + 1 <= n THEN n - (k + 1) + 1 ELSE 0
      BY <2>1, <3>1
    <3> HIDE DEF k
    <3>3. (k <= n => k + Len(Unread) = n) /\ (k > n => Len(Unread) = 0)
      BY <2>2, <3>2
    <3> QED BY <3>3 DEF k
  <2> QED BY <1>2, <2>5, <2>6, <2>8, <2>9 DEF c, n
<1> QED BY <1>1, <1>2

\* What is written goes to the end of the log that was opened.
LEMMA PutIs ==
  ASSUME TypeOK, FilesInv, NEW s \in Scans, pc[s] \in {"open", "torn"},
         NEW pieces \in Seq(Piece), Put(s, pieces)
  PROVE  /\ handle[s] \in Files
         /\ content' \in [Files -> Seq(Piece)]
         /\ content'[handle[s]] = content[handle[s]] \o pieces
         /\ \A f \in Files \ {handle[s]} : content'[f] = content[f]
<1>1. handle[s] \in Files
  BY DEF FilesInv
<1>2. content[handle[s]] \in Seq(Piece)
  BY <1>1 DEF TypeOK
<1>3. content[handle[s]] \o pieces \in Seq(Piece)
  BY <1>2, ConcatProperties
<1> QED BY <1>1, <1>3 DEF Put, TypeOK

\* The pieces of a line.
LEMMA PiecesAre ==
  ASSUME NEW s \in Scans
  PROVE  /\ <<<<s, 1>>>> \in Seq(Piece) /\ <<<<s, 2>>>> \in Seq(Piece)
         /\ <<<<s, 1>>, <<s, 2>>>> \in Seq(Piece)
<1>1. <<s, 1>> \in Piece /\ <<s, 2>> \in Piece
  BY DEF Piece
<1> QED BY <1>1

\* What a queue has room for.
LEMMA RoomIs ==
  ASSUME TypeOK, NEW v \in Viewers, NEW news \in Seq(Message)
  PROVE  /\ Room(v, news) \in Seq(Message)
         /\ Len(Room(v, news)) \in Nat /\ Len(Room(v, news)) <= Len(news)
         /\ \A i \in 1 .. Len(Room(v, news)) : i \in 1 .. Len(news) /\ Room(v, news)[i] = news[i]
<1>1. QueueMax - Len(queue[v]) \in Int
  <2>1. queue[v] \in Seq(Message)
    BY DEF TypeOK
  <2> QED BY <2>1, LenProperties, KeepAssumption
<1> QED BY <1>1, FirstIs DEF Room

\* What a page is given of a log.
LEMMA ChosenIs ==
  ASSUME TypeOK, NEW events \in Seq(Scans)
  PROVE  /\ Recent(events, page.cutoff) \in Seq(Scans)
         /\ Mine(events) \in Seq(Scans) /\ Reverse(Mine(events)) \in Seq(Scans)
         /\ page.found \o Reverse(Mine(events)) \in Seq(Scans)
         /\ Chosen(events) \in Seq(Scans)
<1>0. Len(events) \in Nat
  BY LenProperties
<1>1. Recent(events, page.cutoff) \in Seq(Scans)
  BY PickIs DEF Recent
<1>2. Mine(events) \in Seq(Scans)
  BY PickIs DEF Mine
<1>3. Reverse(Mine(events)) \in Seq(Scans)
  <2> DEFINE m == Mine(events)
  <2>1. Len(m) \in Nat /\ \A i \in 1 .. Len(m) : m[i] \in Scans
    BY <1>2, LenProperties, ElementOfSeq
  <2> HIDE DEF m
  <2>2. \A i \in 1 .. Len(m) : (Len(m) - i) + 1 \in 1 .. Len(m)
    BY <2>1
  <2>3. \A i \in 1 .. Len(m) : m[(Len(m) - i) + 1] \in Scans
    BY <2>1, <2>2
  <2>4. [i \in 1 .. Len(m) |-> m[(Len(m) - i) + 1]] \in Seq(Scans)
    BY <2>1, <2>3
  <2> QED BY <2>4 DEF Reverse, m
<1>4. page.found \in Seq(Scans) /\ page.limit \in Int
  BY DEF TypeOK
<1>5. page.found \o Reverse(Mine(events)) \in Seq(Scans)
  BY <1>3, <1>4, ConcatProperties
<1>6. Chosen(events) \in Seq(Scans)
  BY <1>4, <1>5, FirstIs DEF Chosen
<1> QED BY <1>1, <1>2, <1>3, <1>5, <1>6

\* The log at a path.
LEMMA AtIs ==
  ASSUME TypeOK, NEW path \in Files \cup {LivePath}
  PROVE  /\ At(path) \in Files \cup {0}
         /\ At(path) # 0 => \/ path = LivePath /\ At(path) = live
                            \/ path # LivePath /\ At(path) = path /\ path \in ToSet(rotated)
         /\ \A f \in Standing : PathOf(f) = path => f \in Files /\ At(path) = f
<1>1. \A f \in ToSet(rotated) : f \in Files /\ f # 0
  <2>1. ToSet(rotated) \subseteq Files
    BY ToSetIs DEF TypeOK
  <2> QED BY <2>1 DEF Files
<1> QED BY <1>1 DEF At, TypeOK, Standing, PathOf, LivePath

\* Typing is kept by every step.
LEMMA TypeStep ==
  ASSUME TypeOK, FilesInv, [Next]_vars
  PROVE  TypeOK'
<1>1. ASSUME NEW s \in Scans, TakeTime(s) PROVE TypeOK'
  BY <1>1 DEF TakeTime, TypeOK, streams
<1>2. ASSUME NEW s \in Scans, Open(s) PROVE TypeOK'
  <2>1. live' \in Files \cup {0}
    <3>1. CASE live = 0
      <4>1. Unmade # {} /\ live' = (CHOOSE f \in Unmade : TRUE)
        BY <1>2, <3>1 DEF Open
      <4>2. live' \in Unmade
        BY <4>1
      <4> QED BY <4>2 DEF Unmade
    <3>2. CASE live # 0
      BY <1>2, <3>2 DEF Open, TypeOK
    <3> QED BY <3>1, <3>2
  <2> QED BY <1>2, <2>1 DEF Open, TypeOK, streams
<1>3. ASSUME NEW s \in Scans, Write(s) PROVE TypeOK'
  <2>1. content' \in [Files -> Seq(Piece)]
    BY <1>3, PutIs, PiecesAre DEF Write
  <2>2. /\ pc' \in [Scans -> {"out", "scan", "open", "torn", "done"}]
        /\ handle' \in [Scans -> Files \cup {0}]
    BY <1>3 DEF Write, Finished, TypeOK
  <2>3. written' \in Seq(Scans)
    BY <1>3, AppendProperties DEF Write, TypeOK
  <2>4. UNCHANGED <<clock, stamp, live, rotated, pruner, seen, queue, got, dropped, page>>
    BY <1>3 DEF Write, streams
  <2> QED BY <2>1, <2>2, <2>3, <2>4 DEF TypeOK
<1>4. ASSUME NEW s \in Scans, WriteBegin(s) PROVE TypeOK'
  <2>1. content' \in [Files -> Seq(Piece)]
    BY <1>4, PutIs, PiecesAre DEF WriteBegin
  <2> QED BY <1>4, <2>1 DEF WriteBegin, TypeOK, streams
<1>5. ASSUME NEW s \in Scans, WriteRest(s) PROVE TypeOK'
  <2>1. content' \in [Files -> Seq(Piece)]
    BY <1>5, PutIs, PiecesAre DEF WriteRest
  <2>2. /\ pc' \in [Scans -> {"out", "scan", "open", "torn", "done"}]
        /\ handle' \in [Scans -> Files \cup {0}]
    BY <1>5 DEF WriteRest, Finished, TypeOK
  <2>3. written' \in Seq(Scans)
    BY <1>5, AppendProperties DEF WriteRest, TypeOK
  <2>4. UNCHANGED <<clock, stamp, live, rotated, pruner, seen, queue, got, dropped, page>>
    BY <1>5 DEF WriteRest, streams
  <2> QED BY <2>1, <2>2, <2>3, <2>4 DEF TypeOK
<1>6. ASSUME NEW s \in Scans, WriteFails(s) PROVE TypeOK'
  BY <1>6 DEF WriteFails, Finished, TypeOK, streams
<1>7. ASSUME NEW p \in Processes, Rotate(p) PROVE TypeOK'
  <2>1. live \in Files /\ rotated' \in Seq(Files)
    BY <1>7 DEF Rotate, TypeOK
  <2> QED BY <1>7, <2>1 DEF Rotate, TypeOK, streams
<1>8. ASSUME Unlink PROVE TypeOK'
  <2>1. rotated' \in Seq(Files)
    <3> DEFINE stale == IF Len(rotated) > Keep THEN Len(rotated) - Keep ELSE 0
    <3>1. rotated' = SubSeq(rotated, stale + 1, Len(rotated))
      BY <1>8 DEF Unlink
    <3>2. Len(rotated) \in Nat /\ stale \in Nat
      BY KeepAssumption, LenProperties DEF TypeOK
    <3> HIDE DEF stale
    <3>3. \A i \in stale + 1 .. Len(rotated) : rotated[i] \in Files
      BY <3>2, ElementOfSeq DEF TypeOK
    <3> QED BY <3>1, <3>2, <3>3, SubSeqProperties
  <2> QED BY <1>8, <2>1 DEF Unlink, TypeOK, streams
<1>9. ASSUME TickStat PROVE TypeOK'
  <2>1. live # 0 => Len(content[live]) \in Nat
    BY LenProperties DEF TypeOK
  <2> QED BY <1>9, <2>1 DEF TickStat, TypeOK, logs
<1>10. ASSUME TickRead PROVE TypeOK'
  <2>1. seen' \in [cursor : Nat, size : Nat, pc : {"sleep", "read"}]
    <3>1. Len(Unread) \in Nat
      BY UnreadIs
    <3>2. seen \in [cursor : Nat, size : Nat, pc : {"sleep", "read"}]
      BY DEF TypeOK
    <3>3. seen' = [seen EXCEPT !.pc = "sleep", !.cursor = @ + Len(Unread)]
      BY <1>10 DEF TickRead
    <3>4. seen.cursor + Len(Unread) \in Nat
      BY <3>1, <3>2
    <3> QED BY <3>2, <3>3, <3>4
  <2>2. Messages(Unread) \in Seq(Message)
    BY UnreadIs, MessagesAre
  <2>3. queue' \in [Viewers -> Seq(Message)]
    <3>1. queue' = [v \in Viewers |-> queue[v] \o Room(v, Messages(Unread))]
      BY <1>10 DEF TickRead, Broadcast
    <3>2. ASSUME NEW v \in Viewers PROVE queue[v] \o Room(v, Messages(Unread)) \in Seq(Message)
      BY <2>2, RoomIs, ConcatProperties DEF TypeOK
    <3> QED BY <3>1, <3>2
  <2>4. dropped' \subseteq Viewers \X Scans
    BY <1>10 DEF TickRead, Broadcast, TypeOK
  <2> QED BY <1>10, <2>1, <2>3, <2>4 DEF TickRead, TypeOK, logs
<1>11. ASSUME NEW v \in Viewers, Send(v) PROVE TypeOK'
  <2>1. queue[v] \in Seq(Message) /\ queue[v] # <<>> /\ got[v] \in Seq(Message)
    BY <1>11 DEF Send, TypeOK
  <2>2. Tail(queue[v]) \in Seq(Message) /\ Append(got[v], Head(queue[v])) \in Seq(Message)
    BY <2>1
  <2>3. queue' \in [Viewers -> Seq(Message)] /\ got' \in [Viewers -> Seq(Message)]
    BY <1>11, <2>2 DEF Send, TypeOK
  <2> QED BY <1>11, <2>3 DEF Send, TypeOK, logs
<1>12. ASSUME PageStep PROVE TypeOK'
  <2>1. /\ page' \in [pc : {"none", "list", "read"}, for : SUBSET {Owner[s] : s \in Scans}, cutoff : Nat,
                      limit : Nat, todo : Seq(Files \cup {LivePath}), found : Seq(Scans),
                      must : SUBSET Scans, calm : BOOLEAN]
        /\ UNCHANGED <<logs, streams>>
    <3>0. <<>> \in Seq(Files \cup {LivePath}) /\ <<LivePath>> \in Seq(Files \cup {LivePath})
          /\ <<>> \in Seq(Scans)
      OBVIOUS
    <3>1. ASSUME NEW v \in Viewers, ListLive(v) PROVE <2>1!1
      <4>1. Readable \in SUBSET Scans
        <5>1. ASSUME NEW f \in Standing PROVE ToSet(Parsed(content[f])) \subseteq Scans
          <6>1. f \in Files
            BY DEF Standing, ToSet, TypeOK
          <6>2. Parsed(content[f]) \in Seq(Scans)
            BY <6>1, ParsedIs DEF TypeOK
          <6> QED BY <6>2, LenProperties, ElementOfSeq DEF ToSet
        <5> QED BY <5>1 DEF Readable
      <4>2. Allowed[v] \in SUBSET {Owner[s] : s \in Scans}
        BY ScopeAssumption
      <4>3. PICK cutoff \in Times, limit \in 1 .. Cardinality(Scans) :
              page' = [NoPage EXCEPT !.pc = "list", !.for = Allowed[v], !.cutoff = cutoff, !.limit = limit,
                              !.todo = IF live = 0 THEN <<>> ELSE <<LivePath>>, !.must = Readable]
        BY <3>1 DEF ListLive
      <4>4. cutoff \in Nat /\ limit \in Nat
        BY DEF Times
      <4> QED BY <3>0, <4>1, <4>2, <4>3, <4>4 DEF NoPage
    <3>2. ASSUME ListRotated PROVE <2>1!1
      <4>1. Reverse(rotated) \in Seq(Files \cup {LivePath})
        <5>1. Len(rotated) \in Nat /\ \A i \in 1 .. Len(rotated) : rotated[i] \in Files \cup {LivePath}
          BY LenProperties, ElementOfSeq DEF TypeOK
        <5>2. \A i \in 1 .. Len(rotated) : (Len(rotated) - i) + 1 \in 1 .. Len(rotated)
          BY <5>1
        <5>3. \A i \in 1 .. Len(rotated) : rotated[(Len(rotated) - i) + 1] \in Files \cup {LivePath}
          BY <5>1, <5>2
        <5> QED BY <5>1, <5>3 DEF Reverse
      <4>2. page.todo \o Reverse(rotated) \in Seq(Files \cup {LivePath})
        BY <4>1, ConcatProperties DEF TypeOK
      <4> QED BY <3>2, <4>2 DEF ListRotated, TypeOK
    <3>3. ASSUME ReadLog PROVE <2>1!1
      <4> DEFINE f == At(Head(page.todo))
                 garbled == f # 0 /\ ~Decodes(content[f], 0)
                 events == IF f = 0 \/ garbled THEN <<>> ELSE Parsed(content[f])
                 recent == Recent(events, page.cutoff)
                 hidden == IF garbled THEN ToSet(Parsed(content[f])) ELSE {}
      <4>1. /\ page.todo # <<>> /\ page.todo \in Seq(Files \cup {LivePath})
            /\ page' = [page EXCEPT !.found = Chosen(recent), !.must = @ \ hidden,
                 !.todo = IF recent # events \/ Len(Chosen(recent)) = page.limit THEN <<>> ELSE Tail(@)]
        BY <3>3 DEF ReadLog, TypeOK
      <4>2. Head(page.todo) \in Files \cup {LivePath} /\ Tail(page.todo) \in Seq(Files \cup {LivePath})
        BY <4>1
      <4>3. events \in Seq(Scans)
        <5>1. f # 0 => f \in Files
          BY <4>2, AtIs
        <5> QED BY <3>0, <5>1, ParsedIs DEF TypeOK
      <4>4. Chosen(recent) \in Seq(Scans)
        <5> HIDE DEF events
        <5> QED BY <4>3, ChosenIs
      <4> DEFINE found == Chosen(recent)
                 todo == IF recent # events \/ Len(found) = page.limit THEN <<>> ELSE Tail(page.todo)
      <4>5. page' = [page EXCEPT !.found = found, !.must = @ \ hidden, !.todo = todo]
        BY <4>1
      <4>6. found \in Seq(Scans) /\ todo \in Seq(Files \cup {LivePath})
        BY <3>0, <4>2, <4>4
      <4>7. UNCHANGED <<logs, streams>>
        BY <3>3 DEF ReadLog
      <4> HIDE DEF found, todo, hidden
      <4> QED BY <4>5, <4>6, <4>7 DEF TypeOK
    <3>4. ASSUME PageDone PROVE <2>1!1
      BY <3>0, <3>4 DEF PageDone, NoPage
    <3>5. /\ \A v \in Viewers : ListLive(v) => UNCHANGED <<logs, streams>>
          /\ ListRotated \/ ReadLog \/ PageDone => UNCHANGED <<logs, streams>>
      BY DEF ListLive, ListRotated, ReadLog, PageDone
    <3> QED BY <1>12, <3>1, <3>2, <3>3, <3>4, <3>5 DEF PageStep
  <2> QED BY <2>1 DEF TypeOK, logs, streams
<1>13. CASE UNCHANGED vars
  BY <1>13 DEF vars, logs, streams, TypeOK
<1>14. ASSUME TickFails PROVE TypeOK'
  BY <1>14 DEF TickFails, TypeOK, logs
<1> QED
  BY <1>1, <1>2, <1>3, <1>4, <1>5, <1>6, <1>7, <1>8, <1>9, <1>10, <1>11, <1>12, <1>13, <1>14
  DEF Next, LogStep, Scan, Tick

-----------------------------------------------------------------------------
(* The names of the logs.                                                    *)

\* An appended member.
LEMMA AppendIs ==
  ASSUME NEW S, NEW s \in Seq(S), NEW e \in S
  PROVE  /\ Append(s, e) \in Seq(S) /\ Len(s) \in Nat /\ Len(Append(s, e)) = Len(s) + 1
         /\ \A i \in 1 .. Len(s) : i \in 1 .. Len(s) + 1 /\ Append(s, e)[i] = s[i]
         /\ Append(s, e)[Len(s) + 1] = e
         /\ ToSet(Append(s, e)) = ToSet(s) \cup {e}
<1>1. /\ Append(s, e) \in Seq(S) /\ Len(s) \in Nat /\ Len(Append(s, e)) = Len(s) + 1
      /\ \A i \in 1 .. Len(s) : Append(s, e)[i] = s[i]
      /\ Append(s, e)[Len(s) + 1] = e
  BY LenProperties, AppendProperties
<1>2. \A i \in 1 .. Len(s) + 1 : i \in 1 .. Len(s) \/ i = Len(s) + 1
  BY <1>1
<1>3. \A i \in 1 .. Len(s) : i \in 1 .. Len(s) + 1
  BY <1>1
<1>4. Len(s) + 1 \in 1 .. Len(s) + 1
  BY <1>1
<1>5. /\ ToSet(s) = {s[i] : i \in 1 .. Len(s)}
      /\ ToSet(Append(s, e)) = {Append(s, e)[i] : i \in 1 .. Len(s) + 1}
  BY <1>1, ToSetIs
<1>6. ToSet(Append(s, e)) = ToSet(s) \cup {e}
  BY <1>1, <1>2, <1>3, <1>4, <1>5
<1> QED BY <1>1, <1>3, <1>6

\* The log that is made has neither a name nor anything in it.
LEMMA OpenIs ==
  ASSUME TypeOK, NEW s \in Scans, Open(s)
  PROVE  /\ live' \in Files
         /\ live # 0 => live' = live
         /\ live = 0 => live' \notin ToSet(rotated) /\ content[live'] = <<>>
<1>1. CASE live = 0
  <2>1. Unmade # {} /\ live' = (CHOOSE f \in Unmade : TRUE)
    BY <1>1 DEF Open
  <2>2. live' \in Unmade
    BY <2>1
  <2> QED BY <1>1, <2>2 DEF Unmade, Standing
<1>2. CASE live # 0
  BY <1>2 DEF Open, TypeOK
<1> QED BY <1>1, <1>2

\* The logs that are deleted are the oldest.
LEMMA UnlinkIs ==
  ASSUME TypeOK, Unlink
  PROVE  \E stale \in Nat :
           /\ stale <= Len(rotated) /\ (stale # 0 => stale < Len(rotated))
           /\ rotated' \in Seq(Files) /\ Len(rotated') = Len(rotated) - stale
           /\ \A i \in 1 .. Len(rotated') : stale + i \in 1 .. Len(rotated) /\ rotated'[i] = rotated[stale + i]
           /\ page' = [page EXCEPT !.must = @ \ UNION {ToSet(Parsed(content[rotated[i]])) : i \in 1 .. stale}]
<1> DEFINE stale == IF Len(rotated) > Keep THEN Len(rotated) - Keep ELSE 0
           gone == {rotated[i] : i \in 1 .. stale}
<1>1. /\ rotated' = SubSeq(rotated, stale + 1, Len(rotated))
      /\ page' = [page EXCEPT !.must = @ \ UNION {ToSet(Parsed(content[f])) : f \in gone}]
  BY DEF Unlink
<1>2. Len(rotated) \in Nat /\ stale \in Nat /\ stale <= Len(rotated) /\ (stale # 0 => stale < Len(rotated))
  BY KeepAssumption, LenProperties DEF TypeOK
<1>3. UNION {ToSet(Parsed(content[f])) : f \in gone} = UNION {ToSet(Parsed(content[rotated[i]])) : i \in 1 .. stale}
  <2> HIDE DEF stale
  <2>1. {ToSet(Parsed(content[f])) : f \in gone} = {ToSet(Parsed(content[rotated[i]])) : i \in 1 .. stale}
    OBVIOUS
  <2> QED BY <2>1
<1> HIDE DEF stale
<1>4. \A i \in stale + 1 .. Len(rotated) : rotated[i] \in Files
  <2>1. \A i \in stale + 1 .. Len(rotated) : i \in 1 .. Len(rotated)
    BY <1>2
  <2> QED BY <2>1, ElementOfSeq DEF TypeOK
<1>5. /\ rotated' \in Seq(Files)
      /\ Len(rotated') = IF stale + 1 <= Len(rotated) THEN Len(rotated) - (stale + 1) + 1 ELSE 0
      /\ \A i \in 1 .. Len(rotated) - (stale + 1) + 1 : rotated'[i] = rotated[(stale + 1) + i - 1]
  BY <1>1, <1>2, <1>4, SubSeqProperties
<1>6. Len(rotated') = Len(rotated) - stale
  BY <1>2, <1>5
<1>7. ASSUME NEW i \in 1 .. Len(rotated')
      PROVE  stale + i \in 1 .. Len(rotated) /\ rotated'[i] = rotated[stale + i]
  <2>1. /\ i \in 1 .. Len(rotated) - (stale + 1) + 1 /\ (stale + 1) + i - 1 = stale + i
        /\ stale + i \in 1 .. Len(rotated)
    BY <1>2, <1>6
  <2> QED BY <1>5, <2>1
<1> QED BY <1>1, <1>2, <1>3, <1>5, <1>6, <1>7

\* Nothing that is in a log goes away.
LEMMA Grows ==
  ASSUME TypeOK, FilesInv, [Next]_vars, NEW f \in Files
  PROVE  \E more \in Seq(Piece) : content'[f] = content[f] \o more
<1>0. content[f] \in Seq(Piece)
  BY DEF TypeOK
<1>1. ASSUME NEW s \in Scans, NEW pieces \in Seq(Piece), pc[s] \in {"open", "torn"}, Put(s, pieces)
      PROVE  \E more \in Seq(Piece) : content'[f] = content[f] \o more
  <2>1. CASE f = handle[s]
    BY <1>1, <2>1, PutIs
  <2>2. CASE f # handle[s]
    BY <1>0, <1>1, <2>2, PutIs, ConcatEmptySeq, EmptySeq
  <2> QED BY <2>1, <2>2
<1>2. ASSUME NEW s \in Scans, Write(s) \/ WriteBegin(s) \/ WriteRest(s)
      PROVE  \E more \in Seq(Piece) : content'[f] = content[f] \o more
  BY <1>1, <1>2, PiecesAre DEF Write, WriteBegin, WriteRest
<1>3. \/ \E s \in Scans : Write(s) \/ WriteBegin(s) \/ WriteRest(s)
      \/ content' = content
  BY DEF Next, LogStep, Scan, TakeTime, Open, WriteFails, Rotate, Unlink, Tick, TickStat, TickRead, TickFails, Send,
         PageStep, ListLive, ListRotated, ReadLog, PageDone, vars, logs
<1> QED BY <1>0, <1>2, <1>3, ConcatEmptySeq, EmptySeq

\* Hence what is in a log keeps its place.
LEMMA Kept ==
  ASSUME TypeOK, FilesInv, [Next]_vars, NEW f \in Files
  PROVE  /\ Len(content[f]) \in Nat /\ Len(content'[f]) \in Nat /\ Len(content[f]) <= Len(content'[f])
         /\ \A i \in 1 .. Len(content[f]) : i \in 1 .. Len(content'[f]) /\ content'[f][i] = content[f][i]
         /\ content[f] # <<>> => content'[f] # <<>>
         /\ Begins(content[f]) \subseteq Begins(content'[f])
         /\ ToSet(Parsed(content[f])) \subseteq ToSet(Parsed(content'[f]))
<1> DEFINE c == content[f]
<1>1. PICK more \in Seq(Piece) : content'[f] = c \o more
  BY Grows
<1>2. c \in Seq(Piece)
  BY DEF TypeOK
<1> HIDE DEF c
<1>3. /\ c \o more \in Seq(Piece)
      /\ Len(c) \in Nat /\ Len(more) \in Nat /\ Len(c \o more) = Len(c) + Len(more)
      /\ \A i \in 1 .. Len(c) + Len(more) : (c \o more)[i] = IF i <= Len(c) THEN c[i] ELSE more[i - Len(c)]
  BY <1>2, ConcatProperties, LenProperties
<1>4. \A i \in 1 .. Len(c) : i \in 1 .. Len(c) + Len(more) /\ (c \o more)[i] = c[i]
  BY <1>3
<1>5. c # <<>> => c \o more # <<>>
  BY <1>2, ConcatEqualIffEmpty
<1>6. Begins(c) \subseteq Begins(c \o more) /\ \A i \in Begins(c) : (c \o more)[i] = c[i]
  BY <1>2, BeginsGrow
<1>7. ToSet(Parsed(c)) \subseteq ToSet(Parsed(c \o more))
  <2>1. /\ ToSet(Parsed(c)) = {c[i][1] : i \in Begins(c)}
        /\ ToSet(Parsed(c \o more)) = {(c \o more)[i][1] : i \in Begins(c \o more)}
    BY <1>2, <1>3, ParsedIs
  <2> QED BY <1>6, <2>1
<1> QED BY <1>1, <1>3, <1>4, <1>5, <1>6, <1>7 DEF c

\* Each log keeps one name at most, and a renamed one holds something.
LEMMA FilesStep ==
  ASSUME TypeOK, FilesInv, [Next]_vars
  PROVE  FilesInv'
<1> DEFINE Names == IsInjective(rotated) /\ live \notin ToSet(rotated)
           Filled == \A f \in ToSet(rotated) : content[f] # <<>>
           Handles == \A s \in Scans : pc[s] \in {"open", "torn"} => handle[s] \in Files
<1>0. Names /\ Filled /\ Handles
  BY DEF FilesInv
<1>1. /\ Len(rotated) \in Nat /\ DOMAIN rotated = 1 .. Len(rotated)
      /\ ToSet(rotated) = {rotated[i] : i \in 1 .. Len(rotated)} /\ ToSet(rotated) \subseteq Files
  BY ToSetIs DEF TypeOK
<1>2. \A f \in Files : content[f] # <<>> => content'[f] # <<>>
  BY Kept
<1>3. Handles'
  <2>1. ASSUME NEW s \in Scans, Open(s) PROVE Handles'
    BY <1>0, <2>1, OpenIs DEF Open, TypeOK
  <2>2. ASSUME NEW s \in Scans, TakeTime(s) \/ Write(s) \/ WriteBegin(s) \/ WriteRest(s) \/ WriteFails(s)
        PROVE  Handles'
    BY <1>0, <2>2 DEF TakeTime, Write, WriteBegin, WriteRest, WriteFails, Finished, TypeOK
  <2>3. CASE UNCHANGED <<pc, handle>>
    BY <1>0, <2>3
  <2>4. \/ \E s \in Scans : Scan(s)
        \/ UNCHANGED <<pc, handle>>
    BY DEF Next, LogStep, Rotate, Unlink, Tick, TickStat, TickRead, TickFails, Send,
           PageStep, ListLive, ListRotated, ReadLog, PageDone, vars, logs
  <2> QED BY <2>1, <2>2, <2>3, <2>4 DEF Scan
<1>4. ASSUME NEW s \in Scans, Open(s) PROVE Names' /\ Filled'
  <2>1. rotated' = rotated /\ content' = content
    BY <1>4 DEF Open
  <2>2. live' \notin ToSet(rotated)
    BY <1>0, <1>4, OpenIs
  <2> QED BY <1>0, <2>1, <2>2
<1>5. ASSUME NEW p \in Processes, Rotate(p) PROVE Names' /\ Filled'
  <2>1. /\ live \in Files /\ live' = 0 /\ content' = content
        /\ rotated' = Append(rotated, live) /\ Len(content[live]) > RotateSize
    BY <1>5 DEF Rotate, TypeOK
  <2>2. /\ rotated' \in Seq(Files) /\ Len(rotated') = Len(rotated) + 1
        /\ \A i \in 1 .. Len(rotated) : rotated'[i] = rotated[i]
        /\ rotated'[Len(rotated) + 1] = live
        /\ ToSet(rotated') = ToSet(rotated) \cup {live}
    BY <2>1, AppendIs DEF TypeOK
  <2>3. content[live] # <<>>
    <3>1. Len(<<>>) = 0
      BY EmptySeq
    <3> QED BY <2>1, <3>1, KeepAssumption
  <2>4. 0 \notin Files
    BY DEF Files
  <2>5. Filled' /\ (live \notin ToSet(rotated))'
    BY <1>0, <1>1, <2>1, <2>2, <2>3, <2>4
  <2>6. IsInjective(rotated)'
    <3>1. DOMAIN rotated' = 1 .. Len(rotated) + 1
      BY <2>2, LenProperties
    <3>2. ASSUME NEW a \in 1 .. Len(rotated) + 1, NEW b \in 1 .. Len(rotated) + 1, rotated'[a] = rotated'[b]
          PROVE  a = b
      <4>1. CASE a \in 1 .. Len(rotated) /\ b \in 1 .. Len(rotated)
        BY <1>0, <1>1, <2>2, <3>2, <4>1 DEF IsInjective
      <4>2. CASE a = Len(rotated) + 1 /\ b \in 1 .. Len(rotated)
        BY <1>0, <1>1, <2>2, <3>2, <4>2
      <4>3. CASE a \in 1 .. Len(rotated) /\ b = Len(rotated) + 1
        BY <1>0, <1>1, <2>2, <3>2, <4>3
      <4> QED BY <1>1, <4>1, <4>2, <4>3
    <3> QED BY <3>1, <3>2 DEF IsInjective
  <2> QED BY <2>5, <2>6
<1>6. ASSUME Unlink PROVE Names' /\ Filled'
  <2>1. live' = live /\ content' = content
    BY <1>6 DEF Unlink
  <2>2. PICK stale \in Nat :
          /\ rotated' \in Seq(Files) /\ Len(rotated') = Len(rotated) - stale
          /\ \A i \in 1 .. Len(rotated') : stale + i \in 1 .. Len(rotated) /\ rotated'[i] = rotated[stale + i]
    BY <1>6, UnlinkIs
  <2>3. /\ DOMAIN rotated' = 1 .. Len(rotated')
        /\ ToSet(rotated') = {rotated'[i] : i \in 1 .. Len(rotated')}
    BY <2>2, ToSetIs
  <2>4. ToSet(rotated') \subseteq ToSet(rotated)
    BY <1>1, <2>2, <2>3
  <2>5. IsInjective(rotated)'
    <3>1. ASSUME NEW a \in 1 .. Len(rotated'), NEW b \in 1 .. Len(rotated'), rotated'[a] = rotated'[b]
          PROVE  a = b
      <4>1. stale + a = stale + b
        BY <1>0, <1>1, <2>2, <3>1 DEF IsInjective
      <4> QED BY <4>1
    <3> QED BY <2>3, <3>1 DEF IsInjective
  <2> QED BY <1>0, <2>1, <2>4, <2>5
<1>7. ASSUME UNCHANGED <<rotated, live>> PROVE Names' /\ Filled'
  BY <1>0, <1>1, <1>2, <1>7
<1>8. \/ \E s \in Scans : Open(s)
      \/ \E p \in Processes : Rotate(p)
      \/ Unlink
      \/ UNCHANGED <<rotated, live>>
  BY DEF Next, LogStep, Scan, TakeTime, Write, WriteBegin, WriteRest, WriteFails, Tick, TickStat, TickRead, TickFails, Send,
         PageStep, ListLive, ListRotated, ReadLog, PageDone, vars, logs
<1>9. Names' /\ Filled'
  BY <1>4, <1>5, <1>6, <1>7, <1>8
<1> QED BY <1>3, <1>9 DEF FilesInv

-----------------------------------------------------------------------------
(* The order in which lines are completed.                                   *)

\* The lines that end after the pieces of s were put: those before and those in
\* the pieces.
PutEnds(s, pieces) ==
  \A f \in Files : \A i \in 1 .. Len(content'[f]), t \in Scans :
    content'[f][i] = <<t, 2>> =>
      \/ i \in 1 .. Len(content[f]) /\ Ends(f, i, t)
      \/ /\ f = handle[s] /\ i = Len(content[f]) + (i - Len(content[f]))
         /\ Len(content[f]) \in Nat /\ Len(content'[f]) = Len(content[f]) + Len(pieces)
         /\ i - Len(content[f]) \in 1 .. Len(pieces) /\ pieces[i - Len(content[f])] = <<t, 2>>

\* The line ends of a log after something was written.
LEMMA EndsOfPut ==
  ASSUME TypeOK, FilesInv, NEW s \in Scans, pc[s] \in {"open", "torn"},
         NEW pieces \in Seq(Piece), Put(s, pieces)
  PROVE  PutEnds(s, pieces)
<1> SUFFICES ASSUME NEW f \in Files, NEW i \in 1 .. Len(content'[f]), NEW t \in Scans, content'[f][i] = <<t, 2>>
             PROVE  \/ i \in 1 .. Len(content[f]) /\ Ends(f, i, t)
                    \/ /\ f = handle[s] /\ i = Len(content[f]) + (i - Len(content[f]))
                       /\ Len(content[f]) \in Nat /\ Len(content'[f]) = Len(content[f]) + Len(pieces)
                       /\ i - Len(content[f]) \in 1 .. Len(pieces) /\ pieces[i - Len(content[f])] = <<t, 2>>
  BY DEF PutEnds
<1>0. content[f] \in Seq(Piece) /\ Len(content[f]) \in Nat /\ i \in Int
  BY LenProperties DEF TypeOK
<1>1. CASE f # handle[s]
  <2>1. content'[f] = content[f]
    BY <1>1, PutIs
  <2> QED BY <2>1 DEF Ends
<1>2. CASE f = handle[s]
  <2> DEFINE c == content[f]
             n == Len(c)
  <2>1. content'[f] = c \o pieces
    BY <1>2, PutIs
  <2>2. /\ Len(c \o pieces) = n + Len(pieces) /\ Len(pieces) \in Nat
        /\ \A j \in 1 .. n + Len(pieces) : (c \o pieces)[j] = IF j <= n THEN c[j] ELSE pieces[j - n]
    BY <1>0, ConcatProperties, LenProperties
  <2>3. (c \o pieces)[i] = <<t, 2>> /\ i \in 1 .. n + Len(pieces)
    BY <2>1, <2>2 DEF Ends
  <2> HIDE DEF c
  <2>4. n \in Nat
    BY <1>0 DEF c
  <2> HIDE DEF n
  <2>5. CASE i <= n
    BY <2>2, <2>3, <2>4, <2>5 DEF Ends, c, n
  <2>6. CASE i > n
    <3>1. i - n \in 1 .. Len(pieces) /\ pieces[i - n] = <<t, 2>> /\ i = n + (i - n)
      BY <1>0, <2>2, <2>3, <2>4, <2>6
    <3> QED BY <1>2, <2>1, <2>2, <2>4, <3>1 DEF c, n
  <2> QED BY <1>0, <2>4, <2>5, <2>6
<1> QED BY <1>1, <1>2

\* Completing one more line keeps the order of the lines before, which all come
\* before it.
LEMMA WrittenIs ==
  ASSUME TypeOK, NEW s \in Scans, written' = Append(written, s)
  PROVE  /\ ToSet(written') = ToSet(written) \cup {s}
         /\ \A x, y : Before(x, y) => Before(x, y)'
         /\ \A x \in ToSet(written) : Before(x, s)'
         /\ IsInjective(written) /\ s \notin ToSet(written) => IsInjective(written')
<1> DEFINE n == Len(written)
<1>1. /\ n \in Nat /\ Len(written') = n + 1 /\ written' \in Seq(Scans)
      /\ \A i \in 1 .. n : i \in 1 .. n + 1 /\ written'[i] = written[i]
      /\ written'[n + 1] = s
      /\ ToSet(written') = ToSet(written) \cup {s}
  <2>1. written \in Seq(Scans)
    BY DEF TypeOK
  <2> QED BY <2>1, AppendIs
<1>2. /\ DOMAIN written = 1 .. n /\ DOMAIN written' = 1 .. n + 1
      /\ ToSet(written) = {written[i] : i \in 1 .. n}
  BY <1>1, ToSetIs DEF TypeOK
<1>3. ASSUME NEW x, NEW y, Before(x, y) PROVE Before(x, y)'
  <2>1. PICK i, k \in 1 .. n : i < k /\ written[i] = x /\ written[k] = y
    BY <1>3 DEF Before
  <2>2. i \in 1 .. n + 1 /\ k \in 1 .. n + 1 /\ written'[i] = x /\ written'[k] = y
    BY <1>1, <2>1
  <2> QED BY <1>1, <2>1, <2>2 DEF Before
<1>4. ASSUME NEW x \in ToSet(written) PROVE Before(x, s)'
  <2>1. PICK i \in 1 .. n : written[i] = x
    BY <1>2
  <2>2. i \in 1 .. n + 1 /\ n + 1 \in 1 .. n + 1 /\ i < n + 1
    BY <1>1
  <2> QED BY <1>1, <2>1, <2>2 DEF Before
<1>5. ASSUME IsInjective(written), s \notin ToSet(written) PROVE IsInjective(written')
  <2> HIDE DEF n
  <2>1. ASSUME NEW a \in 1 .. n + 1, NEW b \in 1 .. n + 1, written'[a] = written'[b] PROVE a = b
    <3>1. CASE a \in 1 .. n /\ b \in 1 .. n
      BY <1>1, <1>2, <1>5, <2>1, <3>1 DEF IsInjective
    <3>2. CASE a = n + 1 /\ b \in 1 .. n
      BY <1>1, <1>2, <1>5, <2>1, <3>2
    <3>3. CASE a \in 1 .. n /\ b = n + 1
      BY <1>1, <1>2, <1>5, <2>1, <3>3
    <3> QED BY <1>1, <3>1, <3>2, <3>3
  <2> QED BY <1>2, <2>1 DEF IsInjective
<1> QED BY <1>1, <1>3, <1>4, <1>5

\* The lines of each log stay in the order of their completion.
LEMMA LinesStep ==
  ASSUME TypeOK, FilesInv, LinesInv, [Next]_vars
  PROVE  LinesInv'
<1>0. /\ IsInjective(written)
      /\ \A s \in ToSet(written) : pc[s] = "done"
      /\ \A f \in Files : \A i \in 1 .. Len(content[f]), s \in Scans : Ends(f, i, s) => s \in ToSet(written)
      /\ \A f, g \in Files : \A i \in 1 .. Len(content[f]), k \in 1 .. Len(content[g]), s \in Scans :
           Ends(f, i, s) /\ Ends(g, k, s) => f = g
      /\ \A f \in Files : \A i, k \in 1 .. Len(content[f]), s, t \in Scans :
           i < k /\ Ends(f, i, s) /\ Ends(f, k, t) => Before(s, t)
  BY DEF LinesInv
<1>1. ASSUME NEW s \in Scans, NEW pieces \in Seq(Piece), pc[s] \in {"open", "torn"}, Put(s, pieces),
             Finished(s), written' = Append(written, s),
             \A j \in 1 .. Len(pieces), t \in Scans : pieces[j] = <<t, 2>> => t = s /\ j = Len(pieces)
      PROVE  LinesInv'
  <2>1. s \notin ToSet(written)
    BY <1>0, <1>1
  <2>2. /\ ToSet(written') = ToSet(written) \cup {s}
        /\ \A x, y : Before(x, y) => Before(x, y)'
        /\ \A x \in ToSet(written) : Before(x, s)'
        /\ IsInjective(written')
    BY <1>0, <1>1, <2>1, WrittenIs
  <2>3. \A x \in ToSet(written)' : pc'[x] = "done"
    <3>1. pc' = [pc EXCEPT ![s] = "done"]
      BY <1>1 DEF Finished
    <3>2. ToSet(written) \subseteq Scans
      BY ToSetIs DEF TypeOK
    <3> QED BY <1>0, <2>2, <3>1, <3>2 DEF TypeOK
  <2>4. ASSUME NEW f \in Files, NEW i \in 1 .. Len(content'[f]), NEW t \in Scans, Ends(f, i, t)'
        PROVE  \/ i \in 1 .. Len(content[f]) /\ Ends(f, i, t)
               \/ t = s /\ f = handle[s] /\ i = Len(content'[f])
    <3>1. \/ i \in 1 .. Len(content[f]) /\ Ends(f, i, t)
          \/ /\ f = handle[s] /\ i = Len(content[f]) + (i - Len(content[f]))
             /\ Len(content[f]) \in Nat /\ Len(content'[f]) = Len(content[f]) + Len(pieces)
             /\ i - Len(content[f]) \in 1 .. Len(pieces) /\ pieces[i - Len(content[f])] = <<t, 2>>
      <4>1. content'[f][i] = <<t, 2>>
        BY <2>4 DEF Ends
      <4>2. PutEnds(s, pieces)
        BY <1>1, EndsOfPut
      <4> QED BY <4>1, <4>2 DEF PutEnds
    <3>2. \/ i \in 1 .. Len(content[f]) /\ Ends(f, i, t)
          \/ t = s /\ f = handle[s] /\ i - Len(content[f]) = Len(pieces)
      BY <1>1, <3>1
    <3> QED BY <3>1, <3>2
  <2>5. \A f \in Files : \A i \in 1 .. Len(content'[f]), t \in Scans : Ends(f, i, t)' => t \in ToSet(written)'
    BY <1>0, <2>2, <2>4
  <2>6. \A f, g \in Files : \A i \in 1 .. Len(content'[f]), k \in 1 .. Len(content'[g]), t \in Scans :
          Ends(f, i, t)' /\ Ends(g, k, t)' => f = g
    <3> SUFFICES ASSUME NEW f \in Files, NEW g \in Files, NEW i \in 1 .. Len(content'[f]),
                        NEW k \in 1 .. Len(content'[g]), NEW t \in Scans, Ends(f, i, t)', Ends(g, k, t)'
                 PROVE  f = g
      OBVIOUS
    <3>1. CASE t = s
      BY <1>0, <2>1, <2>4, <3>1
    <3>2. CASE t # s
      <4>1. i \in 1 .. Len(content[f]) /\ Ends(f, i, t) /\ k \in 1 .. Len(content[g]) /\ Ends(g, k, t)
        BY <2>4, <3>2
      <4> QED BY <1>0, <4>1
    <3> QED BY <3>1, <3>2
  <2>7. \A f \in Files : \A i, k \in 1 .. Len(content'[f]), x, y \in Scans :
          i < k /\ Ends(f, i, x)' /\ Ends(f, k, y)' => Before(x, y)'
    <3> SUFFICES ASSUME NEW f \in Files, NEW i \in 1 .. Len(content'[f]), NEW k \in 1 .. Len(content'[f]),
                        NEW x \in Scans, NEW y \in Scans, i < k, Ends(f, i, x)', Ends(f, k, y)'
                 PROVE  Before(x, y)'
      OBVIOUS
    <3>0. Len(content'[f]) \in Nat
      BY Kept
    <3>1. i \in 1 .. Len(content[f]) /\ Ends(f, i, x)
      BY <2>4, <3>0
    <3>2. x \in ToSet(written)
      BY <1>0, <3>1
    <3>3. CASE y = s
      BY <2>2, <3>2, <3>3
    <3>4. CASE y # s
      <4>1. k \in 1 .. Len(content[f]) /\ Ends(f, k, y)
        BY <2>4, <3>4
      <4>2. Before(x, y)
        BY <1>0, <3>1, <4>1
      <4> QED BY <2>2, <4>2
    <3> QED BY <3>3, <3>4
  <2> QED BY <2>2, <2>3, <2>5, <2>6, <2>7 DEF LinesInv
<1>2. ASSUME NEW s \in Scans, Write(s) PROVE LinesInv'
  <2> DEFINE pieces == <<<<s, 1>>, <<s, 2>>>>
  <2>1. /\ Len(pieces) = 2
        /\ \A j \in 1 .. Len(pieces), t \in Scans : pieces[j] = <<t, 2>> => t = s /\ j = Len(pieces)
    OBVIOUS
  <2>2. pieces \in Seq(Piece) /\ Put(s, pieces) /\ Finished(s) /\ written' = Append(written, s) /\ pc[s] = "open"
    BY <1>2, PiecesAre DEF Write
  <2> HIDE DEF pieces
  <2> QED BY <1>1, <2>1, <2>2
<1>3. ASSUME NEW s \in Scans, WriteRest(s) PROVE LinesInv'
  <2> DEFINE pieces == <<<<s, 2>>>>
  <2>1. /\ Len(pieces) = 1
        /\ \A j \in 1 .. Len(pieces), t \in Scans : pieces[j] = <<t, 2>> => t = s /\ j = Len(pieces)
    OBVIOUS
  <2>2. pieces \in Seq(Piece) /\ Put(s, pieces) /\ Finished(s) /\ written' = Append(written, s) /\ pc[s] = "torn"
    BY <1>3, PiecesAre DEF WriteRest
  <2> HIDE DEF pieces
  <2> QED BY <1>1, <2>1, <2>2
<1>4. ASSUME NEW s \in Scans, WriteBegin(s) PROVE LinesInv'
  <2> DEFINE pieces == <<<<s, 1>>>>
  <2>1. \A j \in 1 .. Len(pieces), t \in Scans : pieces[j] # <<t, 2>>
    OBVIOUS
  <2>2. pieces \in Seq(Piece) /\ Put(s, pieces) /\ pc[s] = "open" /\ written' = written
        /\ pc' = [pc EXCEPT ![s] = "torn"]
    BY <1>4, PiecesAre DEF WriteBegin
  <2> HIDE DEF pieces
  <2>3. \A f \in Files : \A i \in 1 .. Len(content'[f]), t \in Scans :
          Ends(f, i, t)' => i \in 1 .. Len(content[f]) /\ Ends(f, i, t)
    <3> SUFFICES ASSUME NEW f \in Files, NEW i \in 1 .. Len(content'[f]), NEW t \in Scans, Ends(f, i, t)'
                 PROVE  i \in 1 .. Len(content[f]) /\ Ends(f, i, t)
      OBVIOUS
    <3>1. \/ i \in 1 .. Len(content[f]) /\ Ends(f, i, t)
          \/ i - Len(content[f]) \in 1 .. Len(pieces) /\ pieces[i - Len(content[f])] = <<t, 2>>
      <4>1. content'[f][i] = <<t, 2>>
        BY DEF Ends
      <4>2. pc[s] \in {"open", "torn"}
        BY <2>2
      <4>3. PutEnds(s, pieces)
        BY <2>2, <4>2, EndsOfPut
      <4> QED BY <4>1, <4>3 DEF PutEnds
    <3> QED BY <2>1, <3>1
  <2>4. \A x, y : Before(x, y)' <=> Before(x, y)
    BY <2>2 DEF Before
  <2>5. \A x \in ToSet(written) : pc'[x] = "done"
    BY <1>0, <2>2 DEF TypeOK
  <2> QED BY <1>0, <2>2, <2>3, <2>4, <2>5 DEF LinesInv
<1>5. ASSUME UNCHANGED <<content, written>>, \A s \in Scans : pc[s] = "done" => pc'[s] = "done"
      PROVE  LinesInv'
  <2>1. ToSet(written) \subseteq Scans
    BY ToSetIs DEF TypeOK
  <2> QED BY <1>0, <1>5, <2>1 DEF LinesInv, Ends, Before
<1>6. ASSUME NEW s \in Scans, TakeTime(s) \/ Open(s) \/ WriteFails(s) PROVE LinesInv'
  BY <1>5, <1>6 DEF TakeTime, Open, WriteFails, Finished, TypeOK
<1>7. CASE UNCHANGED <<content, written, pc>>
  BY <1>5, <1>7
<1>8. \/ \E s \in Scans : Scan(s)
      \/ UNCHANGED <<content, written, pc>>
  BY DEF Next, LogStep, Rotate, Unlink, Tick, TickStat, TickRead, TickFails, Send,
         PageStep, ListLive, ListRotated, ReadLog, PageDone, vars, logs
<1> QED BY <1>2, <1>3, <1>4, <1>6, <1>7, <1>8 DEF Scan

\* Lines that were completed stay in their order.
LEMMA BeforeKept ==
  ASSUME TypeOK, [Next]_vars
  PROVE  /\ \A x, y : Before(x, y) => Before(x, y)'
         /\ ToSet(written) \subseteq ToSet(written')
<1>1. ASSUME NEW s \in Scans, written' = Append(written, s)
      PROVE  /\ \A x, y : Before(x, y) => Before(x, y)'
             /\ ToSet(written) \subseteq ToSet(written')
  BY <1>1, WrittenIs
<1>2. ASSUME written' = written
      PROVE  /\ \A x, y : Before(x, y) => Before(x, y)'
             /\ ToSet(written) \subseteq ToSet(written')
  BY <1>2 DEF Before
<1>3. \/ \E s \in Scans : written' = Append(written, s)
      \/ written' = written
  BY DEF Next, LogStep, Scan, TakeTime, Open, Write, WriteBegin, WriteRest, WriteFails, Rotate, Unlink,
         Tick, TickStat, TickRead, TickFails, Send, PageStep, ListLive, ListRotated, ReadLog, PageDone, vars, logs
<1> QED BY <1>1, <1>2, <1>3

\* A line that comes to an end comes after all that have ended.
LEMMA NewEnds ==
  ASSUME TypeOK, FilesInv, [Next]_vars,
         NEW f \in Files, NEW i \in 1 .. Len(content'[f]), NEW t \in Scans, Ends(f, i, t)'
  PROVE  \/ i \in 1 .. Len(content[f]) /\ Ends(f, i, t)
         \/ \A x \in ToSet(written) : Before(x, t)'
<1> DEFINE Goal == \/ i \in 1 .. Len(content[f]) /\ Ends(f, i, t)
                   \/ \A x \in ToSet(written) : Before(x, t)'
<1>1. ASSUME NEW s \in Scans, NEW pieces \in Seq(Piece), pc[s] \in {"open", "torn"}, Put(s, pieces),
             \A j \in 1 .. Len(pieces) : pieces[j] = <<t, 2>> => t = s /\ written' = Append(written, s)
      PROVE  Goal
  <2>1. \/ i \in 1 .. Len(content[f]) /\ Ends(f, i, t)
        \/ i - Len(content[f]) \in 1 .. Len(pieces) /\ pieces[i - Len(content[f])] = <<t, 2>>
    <3>1. content'[f][i] = <<t, 2>>
      BY DEF Ends
    <3>2. PutEnds(s, pieces)
      BY <1>1, EndsOfPut
    <3> QED BY <3>1, <3>2 DEF PutEnds
  <2>2. CASE t = s /\ written' = Append(written, s)
    BY <2>2, WrittenIs
  <2> QED BY <1>1, <2>1, <2>2
<1>2. ASSUME NEW s \in Scans, Write(s) PROVE Goal
  <2> DEFINE pieces == <<<<s, 1>>, <<s, 2>>>>
  <2>1. \A j \in 1 .. Len(pieces) : pieces[j] = <<t, 2>> => t = s
    OBVIOUS
  <2>2. pieces \in Seq(Piece) /\ Put(s, pieces) /\ written' = Append(written, s) /\ pc[s] = "open"
    BY <1>2, PiecesAre DEF Write
  <2> HIDE DEF pieces
  <2> QED BY <1>1, <2>1, <2>2
<1>3. ASSUME NEW s \in Scans, WriteRest(s) PROVE Goal
  <2> DEFINE pieces == <<<<s, 2>>>>
  <2>1. \A j \in 1 .. Len(pieces) : pieces[j] = <<t, 2>> => t = s
    OBVIOUS
  <2>2. pieces \in Seq(Piece) /\ Put(s, pieces) /\ written' = Append(written, s) /\ pc[s] = "torn"
    BY <1>3, PiecesAre DEF WriteRest
  <2> HIDE DEF pieces
  <2> QED BY <1>1, <2>1, <2>2
<1>4. ASSUME NEW s \in Scans, WriteBegin(s) PROVE Goal
  <2> DEFINE pieces == <<<<s, 1>>>>
  <2>1. \A j \in 1 .. Len(pieces) : pieces[j] # <<t, 2>>
    OBVIOUS
  <2>2. pieces \in Seq(Piece) /\ Put(s, pieces) /\ pc[s] = "open"
    BY <1>4, PiecesAre DEF WriteBegin
  <2> HIDE DEF pieces
  <2> QED BY <1>1, <2>1, <2>2
<1>5. CASE UNCHANGED content
  BY <1>5 DEF Ends
<1>6. \/ \E s \in Scans : Write(s) \/ WriteBegin(s) \/ WriteRest(s)
      \/ UNCHANGED content
  BY DEF Next, LogStep, Scan, TakeTime, Open, WriteFails, Rotate, Unlink, Tick, TickStat, TickRead, TickFails, Send,
         PageStep, ListLive, ListRotated, ReadLog, PageDone, vars, logs
<1> QED BY <1>2, <1>3, <1>4, <1>5, <1>6

-----------------------------------------------------------------------------
(* The streams.                                                              *)

\* What the watcher reads are messages; those that end a line lie behind its
\* cursor, in their order.
LEMMA NewsIs ==
  ASSUME TypeOK, LinesInv
  PROVE  /\ Messages(Unread) \in Seq(Message)
         /\ \A k \in 1 .. Len(Messages(Unread)) :
              Messages(Unread)[k].whole => Messages(Unread)[k].part = 2
         /\ \A k \in 1 .. Len(Messages(Unread)) : Messages(Unread)[k].part = 2 =>
              /\ live # 0 /\ Messages(Unread)[k].scan \in ToSet(written)
              /\ \E i \in 1 .. Len(content[live]) : seen.cursor < i /\ Ends(live, i, Messages(Unread)[k].scan)
         /\ Ordered(Messages(Unread))
<1> DEFINE text == Unread
           news == Messages(Unread)
           at(k) == seen.cursor + Nth(Ending(text), k)
<1>1. text \in Seq(Piece) /\ Len(text) \in Nat
  BY UnreadIs
<1>2. /\ news \in Seq(Message)
      /\ \A k \in 1 .. Len(news) :
           Nth(Ending(text), k) \in 1 .. Len(text) /\ news[k] = MessageAt(text, Nth(Ending(text), k))
      /\ \A k, m \in 1 .. Len(news) : k < m => Nth(Ending(text), k) < Nth(Ending(text), m)
  BY <1>1, MessagesAre
<1>3. \A i \in 1 .. Len(text) :
        /\ MessageAt(text, i).whole => MessageAt(text, i).part = 2
        /\ MessageAt(text, i).part = 2 => text[i] = <<MessageAt(text, i).scan, 2>>
  BY <1>1, MessageIs
<1>4. seen.cursor \in Nat
  BY DEF TypeOK
<1>5. ASSUME NEW k \in 1 .. Len(news)
      PROVE  /\ live # 0 /\ Nth(Ending(text), k) \in Int
             /\ at(k) \in 1 .. Len(content[live]) /\ seen.cursor < at(k)
             /\ news[k].part = 2 => Ends(live, at(k), news[k].scan)
             /\ news[k].whole => news[k].part = 2
  <2> DEFINE b == Nth(Ending(text), k)
             m == news[k]
  <2>1. b \in 1 .. Len(text) /\ m = MessageAt(text, b)
    BY <1>2
  <2>2. /\ b \in Int /\ 0 < b
        /\ m.whole => m.part = 2
        /\ m.part = 2 => text[b] = <<m.scan, 2>>
    <3> HIDE DEF b, m, text
    <3> QED BY <1>1, <1>3, <2>1
  <2>3. live # 0
    <3>1. Len(<<>>) = 0
      BY EmptySeq
    <3> QED BY <2>1, <3>1, UnreadIs
  <2> HIDE DEF b, text, m
  <2>4. seen.cursor + b \in 1 .. Len(content[live]) /\ text[b] = content[live][seen.cursor + b]
    BY <2>1, <2>3, UnreadIs DEF text
  <2>5. seen.cursor < seen.cursor + b
    BY <1>1, <1>4, <2>2
  <2> QED BY <2>2, <2>3, <2>4, <2>5 DEF Ends, b, m
<1>6. live # 0 => live \in Files
  BY DEF TypeOK
<1>7. \A k \in 1 .. Len(news) : news[k].scan \in Scans
  <2>1. \A k \in 1 .. Len(news) : news[k] \in Message
    BY <1>2, ElementOfSeq
  <2> QED BY <2>1 DEF Message
<1>8. \A k \in 1 .. Len(news) : news[k].part = 2 => news[k].scan \in ToSet(written)
  <2> HIDE DEF news, text, at
  <2> QED BY <1>5, <1>6, <1>7 DEF LinesInv
<1>9. Ordered(news)
  <2> SUFFICES ASSUME NEW k \in 1 .. Len(news), NEW m \in 1 .. Len(news), k < m,
                      news[k].part = 2, news[m].part = 2
               PROVE  Before(news[k].scan, news[m].scan)
    BY DEF Ordered, Follows
  <2>1. at(k) < at(m)
    <3> DEFINE a == Nth(Ending(text), k)
               b == Nth(Ending(text), m)
    <3>1. a \in Int /\ b \in Int /\ a < b
      BY <1>2, <1>5
    <3> HIDE DEF a, b
    <3>2. seen.cursor + a < seen.cursor + b
      BY <1>4, <3>1
    <3> QED BY <3>2 DEF a, b
  <2> HIDE DEF at
  <2>2. /\ live \in Files /\ at(k) \in 1 .. Len(content[live]) /\ at(m) \in 1 .. Len(content[live])
        /\ Ends(live, at(k), news[k].scan) /\ Ends(live, at(m), news[m].scan)
        /\ news[k].scan \in Scans /\ news[m].scan \in Scans
    BY <1>5, <1>6, <1>7 DEF at
  <2> HIDE DEF news
  <2> QED BY <2>1, <2>2 DEF LinesInv
<1> QED
  <2>1. \A k \in 1 .. Len(news) : news[k].part = 2 =>
          \E i \in 1 .. Len(content[live]) : seen.cursor < i /\ Ends(live, i, news[k].scan)
    BY <1>5
  <2>2. \A k \in 1 .. Len(news) : live # 0 /\ (news[k].whole => news[k].part = 2)
    BY <1>5
  <2> QED BY <1>2, <1>8, <1>9, <2>1, <2>2

\* What was sent stays before everything the watcher has still to read.
LEMMA PastStep ==
  ASSUME TypeOK, FilesInv, LinesInv, [Next]_vars, NEW s \in ToSet(written), Past(s)
  PROVE  Past(s)'
<1> DEFINE All == \A i \in 1 .. Len(content[live]), t \in Scans : Ends(live, i, t) => Before(s, t)
           Read == seen.cursor <= Len(content[live]) /\ \E i \in 1 .. seen.cursor : Ends(live, i, s)
<1>0. live # 0 => All \/ Read
  BY DEF Past
<1>1. ASSUME live # 0, live' = live, All PROVE All'
  <2>1. live \in Files
    BY <1>1 DEF TypeOK
  <2> SUFFICES ASSUME NEW i \in 1 .. Len(content'[live]), NEW t \in Scans, Ends(live, i, t)'
               PROVE  Before(s, t)'
    BY <1>1 DEF Ends
  <2>2. \/ i \in 1 .. Len(content[live]) /\ Ends(live, i, t)
        \/ Before(s, t)'
    <3>1. \/ i \in 1 .. Len(content[live]) /\ Ends(live, i, t)
          \/ \A x \in ToSet(written) : Before(x, t)'
      BY <1>1, <2>1, NewEnds DEF Ends
    <3> QED BY <3>1
  <2> QED BY <1>1, <2>2, BeforeKept
<1>2. ASSUME live # 0, live' = live, Read, seen'.cursor = seen.cursor PROVE Read'
  <2>1. live \in Files /\ seen.cursor \in Nat
    BY <1>2 DEF TypeOK
  <2>2. /\ Len(content[live]) \in Nat /\ Len(content'[live]) \in Nat /\ Len(content[live]) <= Len(content'[live])
        /\ \A i \in 1 .. Len(content[live]) : content'[live][i] = content[live][i]
    BY <2>1, Kept
  <2>3. PICK i \in 1 .. seen.cursor : Ends(live, i, s)
    BY <1>2
  <2>4. i \in 1 .. Len(content[live]) /\ seen.cursor <= Len(content'[live])
    BY <1>2, <2>1, <2>2
  <2>5. content'[live][i] = <<s, 2>>
    BY <2>2, <2>3, <2>4 DEF Ends
  <2> QED BY <1>2, <2>4, <2>5 DEF Ends
<1>3. ASSUME live' = live, seen'.cursor = seen.cursor PROVE Past(s)'
  BY <1>0, <1>1, <1>2, <1>3 DEF Past
<1>4. ASSUME NEW x \in Scans, Open(x) PROVE Past(s)'
  <2>1. CASE live = 0
    <3>1. content' = content /\ content[live'] = <<>>
      BY <1>4, <2>1, OpenIs DEF Open
    <3>2. Len(content'[live']) = 0
      BY <3>1, EmptySeq
    <3> QED BY <3>2 DEF Past
  <2>2. CASE live # 0
    BY <1>3, <1>4, <2>2 DEF Open, streams
  <2> QED BY <2>1, <2>2
<1>5. ASSUME NEW p \in Processes, Rotate(p) PROVE Past(s)'
  BY <1>5 DEF Rotate, Past
<1>6. ASSUME TickStat PROVE Past(s)'
  <2>1. CASE live = 0
    BY <1>6, <2>1 DEF TickStat, Past, logs
  <2>2. CASE live # 0
    <3>1. live' = live /\ content' = content
      BY <1>6 DEF TickStat, logs
    <3>2. /\ Len(content[live]) \in Nat /\ seen.cursor \in Nat
          /\ seen'.cursor = IF Len(content[live]) < seen.cursor THEN 0 ELSE seen.cursor
      <4>1. Len(content[live]) \in Nat /\ seen.cursor \in Nat
        BY <2>2, LenProperties DEF TypeOK
      <4> QED BY <1>6, <2>2, <4>1 DEF TickStat
    <3>3. CASE Len(content[live]) < seen.cursor
      <4>1. All
        BY <1>0, <2>2, <3>2, <3>3
      <4>2. All'
        BY <1>1, <2>2, <3>1, <4>1
      <4> QED BY <4>2 DEF Past
    <3>4. CASE ~ (Len(content[live]) < seen.cursor)
      BY <1>3, <3>1, <3>2, <3>4
    <3> QED BY <3>3, <3>4
  <2> QED BY <2>1, <2>2
<1>7. ASSUME TickRead PROVE Past(s)'
  <2>1. CASE live = 0
    BY <1>7, <2>1 DEF TickRead, Past, logs
  <2>2. CASE live # 0
    <3>1. live' = live /\ content' = content /\ written' = written
      BY <1>7 DEF TickRead, logs
    <3>2. seen'.cursor = seen.cursor + Len(Unread)
      BY <1>7 DEF TickRead, TypeOK
    <3>3. CASE All
      <4>1. All'
        BY <1>1, <2>2, <3>1, <3>3
      <4> QED BY <4>1 DEF Past
    <3>4. CASE Read
      <4>1. Len(content[live]) \in Nat /\ seen.cursor \in Nat
        BY <2>2, LenProperties DEF TypeOK
      <4>2. seen'.cursor = Len(content[live])
        BY <2>2, <3>2, <3>4, UnreadIs
      <4>3. PICK i \in 1 .. seen.cursor : Ends(live, i, s)
        BY <3>4
      <4>4. i \in 1 .. Len(content[live])
        BY <3>4, <4>1
      <4>5. Read'
        BY <3>1, <4>1, <4>2, <4>3, <4>4 DEF Ends
      <4> QED BY <4>5 DEF Past
    <3> QED BY <1>0, <2>2, <3>3, <3>4
  <2> QED BY <2>1, <2>2
<1>9. ASSUME TickFails PROVE live' = live /\ seen'.cursor = seen.cursor
  BY <1>9 DEF TickFails, TypeOK, logs
<1>8. \/ \E x \in Scans : Open(x)
      \/ \E p \in Processes : Rotate(p)
      \/ TickStat \/ TickRead \/ TickFails
      \/ live' = live /\ seen'.cursor = seen.cursor
  BY DEF Next, LogStep, Scan, TakeTime, Write, WriteBegin, WriteRest, WriteFails, Unlink, Tick, Send,
         PageStep, ListLive, ListRotated, ReadLog, PageDone, vars, logs, streams
<1> QED BY <1>3, <1>4, <1>5, <1>6, <1>7, <1>8, <1>9

\* Two ordered sequences, one before the other, make an ordered one.
LEMMA OrderedConcat ==
  ASSUME NEW q \in Seq(Message), NEW r \in Seq(Message), Ordered(q), Ordered(r),
         \A x \in ToSet(q), y \in ToSet(r) : Follows(y, x)
  PROVE  /\ Ordered(q \o r) /\ q \o r \in Seq(Message)
         /\ ToSet(q \o r) = ToSet(q) \cup ToSet(r)
<1>1. /\ Len(q) \in Nat /\ Len(r) \in Nat /\ Len(q \o r) = Len(q) + Len(r) /\ q \o r \in Seq(Message)
      /\ \A i \in 1 .. Len(q) + Len(r) : (q \o r)[i] = IF i <= Len(q) THEN q[i] ELSE r[i - Len(q)]
  BY ConcatProperties, LenProperties
<1>2. \A i \in 1 .. Len(q) : i \in 1 .. Len(q) + Len(r) /\ (q \o r)[i] = q[i] /\ q[i] \in ToSet(q)
  BY <1>1, ToSetIs
<1>3. \A i \in 1 .. Len(q) + Len(r) :
        i > Len(q) => i - Len(q) \in 1 .. Len(r) /\ (q \o r)[i] = r[i - Len(q)] /\ r[i - Len(q)] \in ToSet(r)
  BY <1>1, ToSetIs
<1>4. \A i \in 1 .. Len(r) : Len(q) + i \in 1 .. Len(q) + Len(r) /\ (q \o r)[Len(q) + i] = r[i]
  <2> SUFFICES ASSUME NEW i \in 1 .. Len(r)
               PROVE  Len(q) + i \in 1 .. Len(q) + Len(r) /\ (q \o r)[Len(q) + i] = r[i]
    OBVIOUS
  <2>1. Len(q) + i \in 1 .. Len(q) + Len(r) /\ Len(q) + i > Len(q) /\ (Len(q) + i) - Len(q) = i
    BY <1>1
  <2> QED BY <1>3, <2>1
<1>5. Ordered(q \o r)
  <2> SUFFICES ASSUME NEW i \in 1 .. Len(q) + Len(r), NEW k \in 1 .. Len(q) + Len(r), i < k
               PROVE  Follows((q \o r)[k], (q \o r)[i])
    BY <1>1 DEF Ordered
  <2>1. CASE k <= Len(q)
    <3>1. i \in 1 .. Len(q) /\ k \in 1 .. Len(q)
      BY <1>1, <2>1
    <3> QED BY <1>2, <3>1 DEF Ordered
  <2>2. CASE i <= Len(q) /\ k > Len(q)
    <3>1. i \in 1 .. Len(q)
      BY <1>1, <2>2
    <3> QED BY <1>2, <1>3, <2>2, <3>1
  <2>3. CASE i > Len(q)
    <3>1. k > Len(q) /\ i - Len(q) < k - Len(q)
      BY <1>1, <2>3
    <3>2. /\ i - Len(q) \in 1 .. Len(r) /\ (q \o r)[i] = r[i - Len(q)]
          /\ k - Len(q) \in 1 .. Len(r) /\ (q \o r)[k] = r[k - Len(q)]
      BY <1>3, <2>3, <3>1
    <3> QED BY <3>1, <3>2 DEF Ordered
  <2> QED BY <1>1, <2>1, <2>2, <2>3
<1>6. ToSet(q \o r) = ToSet(q) \cup ToSet(r)
  <2>1. /\ ToSet(q \o r) = {(q \o r)[i] : i \in 1 .. Len(q) + Len(r)}
        /\ ToSet(q) = {q[i] : i \in 1 .. Len(q)} /\ ToSet(r) = {r[i] : i \in 1 .. Len(r)}
    BY <1>1, ToSetIs
  <2>2. \A i \in 1 .. Len(q) + Len(r) : i \in 1 .. Len(q) \/ i > Len(q)
    BY <1>1
  <2> QED BY <1>2, <1>3, <1>4, <2>1, <2>2
<1> QED BY <1>1, <1>5, <1>6

\* The first of an ordered sequence taken off, and put behind another.
LEMMA OrderedTail ==
  ASSUME NEW q \in Seq(Message), Ordered(q), q # <<>>
  PROVE  /\ Head(q) \in Message /\ Head(q) \in ToSet(q) /\ Tail(q) \in Seq(Message)
         /\ ToSet(Tail(q)) \subseteq ToSet(q) /\ Ordered(Tail(q))
         /\ \A x \in ToSet(Tail(q)) : Follows(x, Head(q))
<1>1. /\ Len(q) \in Nat /\ Head(q) \in Message /\ Tail(q) \in Seq(Message) /\ Len(Tail(q)) = Len(q) - 1
      /\ \A i \in 1 .. Len(Tail(q)) : Tail(q)[i] = q[i + 1]
  BY LenProperties, HeadTailProperties
<1>2. Len(q) # 0 /\ Head(q) = q[1]
  BY EmptySeq
<1>3. \A i \in 1 .. Len(Tail(q)) : i + 1 \in 1 .. Len(q) /\ 1 < i + 1
  BY <1>1
<1>4. 1 \in 1 .. Len(q)
  BY <1>1, <1>2
<1>5. ToSet(Tail(q)) = {q[i + 1] : i \in 1 .. Len(Tail(q))} /\ ToSet(q) = {q[i] : i \in 1 .. Len(q)}
  <2>1. ToSet(Tail(q)) = {Tail(q)[i] : i \in 1 .. Len(Tail(q))}
    BY <1>1, ToSetIs
  <2>2. {Tail(q)[i] : i \in 1 .. Len(Tail(q))} = {q[i + 1] : i \in 1 .. Len(Tail(q))}
    BY <1>1
  <2> QED BY <2>1, <2>2, ToSetIs
<1>6. Ordered(Tail(q))
  <2> SUFFICES ASSUME NEW i \in 1 .. Len(Tail(q)), NEW k \in 1 .. Len(Tail(q)), i < k
               PROVE  Follows(q[k + 1], q[i + 1])
    BY <1>1 DEF Ordered
  <2>1. i + 1 < k + 1
    BY <1>1
  <2> QED BY <1>3, <2>1 DEF Ordered
<1>7. \A x \in ToSet(Tail(q)) : Follows(x, Head(q))
  BY <1>2, <1>3, <1>4, <1>5 DEF Ordered
<1> QED BY <1>1, <1>2, <1>3, <1>4, <1>5, <1>6, <1>7

\* The streams stay in order, and before what is still to be read.
LEMMA StreamStep ==
  ASSUME TypeOK, FilesInv, LinesInv, StreamInv, [Next]_vars
  PROVE  StreamInv'
<1>0. \A v \in Viewers : queue[v] \in Seq(Message) /\ got[v] \in Seq(Message)
  BY DEF TypeOK
<1>1. \A s \in ToSet(written) : Past(s) => s \in ToSet(written') /\ Past(s)'
  BY PastStep, BeforeKept
<1>2. \A x, y : Before(x, y) => Before(x, y)'
  BY BeforeKept
<1>12. \A m, n : Follows(n, m) => Follows(n, m)'
  BY <1>2 DEF Follows
<1>3. ASSUME UNCHANGED <<queue, got>> PROVE StreamInv'
  BY <1>1, <1>12, <1>3 DEF StreamInv, Ordered
<1>4. ASSUME TickRead PROVE StreamInv'
  <2>1. /\ live' = live /\ content' = content /\ written' = written /\ got' = got
        /\ queue' = [v \in Viewers |-> queue[v] \o Room(v, Messages(Unread))]
        /\ seen'.cursor = seen.cursor + Len(Unread)
    BY <1>4 DEF TickRead, Broadcast, logs, TypeOK
  <2>2. \A m, n : Follows(n, m)' <=> Follows(n, m)
    BY <2>1 DEF Before, Follows
  <2> DEFINE news == Messages(Unread)
  <2>3. /\ news \in Seq(Message) /\ Ordered(news)
        /\ \A k \in 1 .. Len(news) : news[k].whole => news[k].part = 2
        /\ \A k \in 1 .. Len(news) : news[k].part = 2 =>
             /\ live # 0 /\ news[k].scan \in ToSet(written)
             /\ \E i \in 1 .. Len(content[live]) : seen.cursor < i /\ Ends(live, i, news[k].scan)
    BY NewsIs
  <2> HIDE DEF news
  <2>4. live # 0 => /\ live \in Files /\ Len(content[live]) \in Nat /\ seen.cursor \in Nat
                    /\ seen.cursor <= Len(content[live]) => seen'.cursor = Len(content[live])
    BY <2>1, LenProperties, UnreadIs DEF TypeOK
  <2>5. ASSUME NEW k \in 1 .. Len(news), news[k].part = 2, NEW x, x = news[k].scan PROVE Past(x)'
    <3>1. PICK i \in 1 .. Len(content[live]) : seen.cursor < i /\ Ends(live, i, x)
      BY <2>3, <2>5
    <3>2. live # 0 /\ seen.cursor <= Len(content[live])
      BY <2>3, <2>4, <2>5, <3>1
    <3>3. seen'.cursor = Len(content[live])
      BY <2>4, <3>2
    <3>4. /\ (seen.cursor <= Len(content[live]))'
          /\ i \in 1 .. seen'.cursor /\ Ends(live, i, x)'
      BY <2>1, <2>4, <3>1, <3>2, <3>3 DEF Ends
    <3> QED BY <3>4 DEF Past
  <2>6. ASSUME NEW s \in ToSet(written), Past(s), NEW k \in 1 .. Len(news), news[k].part = 2
        PROVE  Before(s, news[k].scan)
    <3>1. PICK i \in 1 .. Len(content[live]) : seen.cursor < i /\ Ends(live, i, news[k].scan)
      BY <2>3, <2>6
    <3>2. live # 0 /\ news[k].scan \in Scans /\ s \in Scans
      <4>1. ToSet(written) \subseteq Scans
        BY ToSetIs DEF TypeOK
      <4> QED BY <2>3, <2>6, <4>1
    <3>3. CASE \A n \in 1 .. Len(content[live]), t \in Scans : Ends(live, n, t) => Before(s, t)
      BY <3>1, <3>2, <3>3
    <3>4. CASE seen.cursor <= Len(content[live]) /\ \E n \in 1 .. seen.cursor : Ends(live, n, s)
      <4>1. PICK n \in 1 .. seen.cursor : Ends(live, n, s)
        BY <3>4
      <4>2. n \in 1 .. Len(content[live]) /\ n < i
        BY <2>4, <3>1, <3>2, <3>4
      <4> QED BY <2>4, <3>1, <3>2, <4>1, <4>2 DEF LinesInv
    <3> QED BY <2>6, <3>2, <3>3, <3>4 DEF Past
  <2>7. ASSUME NEW v \in Viewers
        PROVE  /\ \A m \in ToSet(got'[v]) \cup ToSet(queue'[v]) :
                    m.part = 2 => m.scan \in ToSet(written') /\ Past(m.scan)'
               /\ \A m \in ToSet(got'[v]) \cup ToSet(queue'[v]) : m.whole => m.part = 2
               /\ Ordered(got[v])' /\ Ordered(queue[v])'
               /\ \A m \in ToSet(got'[v]), n \in ToSet(queue'[v]) : Follows(n, m)'
               /\ v \notin Unrestricted => \A m \in ToSet(got'[v]) : m.whole /\ Owner[m.scan] \in Allowed[v]
    <3> DEFINE room == Room(v, news)
    <3>1. /\ room \in Seq(Message)
          /\ \A i \in 1 .. Len(room) : i \in 1 .. Len(news) /\ room[i] = news[i]
      BY <2>3, RoomIs
    <3> HIDE DEF room
    <3>2. \A n \in ToSet(room) : \E k \in 1 .. Len(news) : n = news[k]
      BY <3>1, ToSetIs
    <3>3. Ordered(room)
      BY <2>3, <3>1 DEF Ordered
    <3>4. /\ \A m \in ToSet(got[v]) \cup ToSet(queue[v]) :
               m.part = 2 => m.scan \in ToSet(written) /\ Past(m.scan)
          /\ \A m \in ToSet(got[v]) \cup ToSet(queue[v]) : m.whole => m.part = 2
          /\ Ordered(got[v]) /\ Ordered(queue[v])
          /\ \A m \in ToSet(got[v]), n \in ToSet(queue[v]) : Follows(n, m)
          /\ v \notin Unrestricted => \A m \in ToSet(got[v]) : m.whole /\ Owner[m.scan] \in Allowed[v]
      BY DEF StreamInv
    <3>5. ASSUME NEW m \in ToSet(got[v]) \cup ToSet(queue[v]), NEW n \in ToSet(room) PROVE Follows(n, m)
      <4>1. PICK k \in 1 .. Len(news) : n = news[k]
        BY <3>2
      <4> SUFFICES ASSUME m.part = 2, news[k].part = 2 PROVE Before(m.scan, news[k].scan)
        BY <4>1 DEF Follows
      <4>2. m.scan \in ToSet(written) /\ Past(m.scan)
        BY <3>4
      <4> QED BY <2>6, <4>2
    <3>6. /\ Ordered(queue[v] \o room)
          /\ ToSet(queue[v] \o room) = ToSet(queue[v]) \cup ToSet(room)
      BY <1>0, <3>1, <3>3, <3>4, <3>5, OrderedConcat
    <3>7. got'[v] = got[v] /\ queue'[v] = queue[v] \o room
      BY <2>1 DEF news, room
    <3>8. ASSUME NEW m \in ToSet(got[v]) \cup ToSet(queue[v]) \cup ToSet(room)
          PROVE  /\ m.part = 2 => m.scan \in ToSet(written') /\ Past(m.scan)'
                 /\ m.whole => m.part = 2
      <4>1. CASE m \in ToSet(got[v]) \cup ToSet(queue[v])
        <5>1. m.part = 2 => m.scan \in ToSet(written') /\ Past(m.scan)'
          BY <1>1, <3>4, <4>1
        <5> QED BY <3>4, <4>1, <5>1
      <4>2. CASE m \in ToSet(room)
        <5>1. PICK k \in 1 .. Len(news) : m = news[k]
          BY <3>2, <4>2
        <5>2. m.part = 2 => Past(m.scan)'
          BY <2>5, <5>1
        <5> QED BY <2>1, <2>3, <5>1, <5>2
      <4> QED BY <4>1, <4>2
    <3>10. Ordered(got[v])' /\ Ordered(queue[v])'
      BY <2>2, <3>4, <3>6, <3>7 DEF Ordered
    <3>11. \A m \in ToSet(got'[v]), n \in ToSet(queue'[v]) : Follows(n, m)
      BY <3>4, <3>5, <3>6, <3>7
    <3>12. \A m \in ToSet(got'[v]), n \in ToSet(queue'[v]) : Follows(n, m)'
      BY <2>2, <3>11
    <3>13. /\ \A m \in ToSet(got'[v]) \cup ToSet(queue'[v]) :
                m.part = 2 => m.scan \in ToSet(written') /\ Past(m.scan)'
           /\ \A m \in ToSet(got'[v]) \cup ToSet(queue'[v]) : m.whole => m.part = 2
      BY <3>6, <3>7, <3>8
    <3> QED BY <3>4, <3>7, <3>10, <3>12, <3>13
  <2> HIDE DEF news
  <2> QED BY <2>7 DEF StreamInv
<1>5. ASSUME NEW v \in Viewers, Send(v) PROVE StreamInv'
  <2> DEFINE q == queue[v]
             e == Head(q)
  <2>1. /\ q # <<>> /\ queue' = [queue EXCEPT ![v] = Tail(q)]
        /\ got' = got \/ (VisibleTo(v, e) /\ got' = [got EXCEPT ![v] = Append(got[v], e)])
        /\ live' = live /\ content' = content /\ written' = written /\ seen' = seen
    BY <1>5 DEF Send, logs
  <2>2. \A m, n : Follows(n, m)' <=> Follows(n, m)
    BY <2>1 DEF Before, Follows
  <2>3. \A w \in Viewers :
          /\ \A m \in ToSet(got[w]) \cup ToSet(queue[w]) :
               m.part = 2 => m.scan \in ToSet(written') /\ Past(m.scan)'
          /\ \A m \in ToSet(got[w]) \cup ToSet(queue[w]) : m.whole => m.part = 2
          /\ Ordered(got[w]) /\ Ordered(queue[w])
          /\ \A m \in ToSet(got[w]), n \in ToSet(queue[w]) : Follows(n, m)
          /\ w \notin Unrestricted => \A m \in ToSet(got[w]) : m.whole /\ Owner[m.scan] \in Allowed[w]
    BY <1>1 DEF StreamInv
  <2>4. /\ e \in Message /\ e \in ToSet(q) /\ Tail(q) \in Seq(Message)
        /\ ToSet(Tail(q)) \subseteq ToSet(q) /\ Ordered(Tail(q))
        /\ \A x \in ToSet(Tail(q)) : Follows(x, e)
    BY <1>0, <2>1, <2>3, OrderedTail
  <2>5. /\ Ordered(Append(got[v], e)) /\ ToSet(Append(got[v], e)) = ToSet(got[v]) \cup {e}
    <3>1. Append(got[v], e) = got[v] \o <<e>>
      BY <1>0, <2>4, AppendIsConcat
    <3>2. <<e>> \in Seq(Message) /\ Ordered(<<e>>) /\ ToSet(<<e>>) = {e}
      <4>1. <<e>> \in Seq(Message) /\ Len(<<e>>) = 1 /\ <<e>>[1] = e
        BY <2>4
      <4>2. ToSet(<<e>>) = {<<e>>[i] : i \in 1 .. 1}
        BY <4>1, ToSetIs
      <4> HIDE DEF e
      <4>3. Ordered(<<e>>)
        BY <4>1 DEF Ordered
      <4> QED BY <4>1, <4>2, <4>3
    <3>3. \A x \in ToSet(got[v]), y \in ToSet(<<e>>) : Follows(y, x)
      BY <2>3, <2>4, <3>2
    <3>4. Ordered(got[v]) /\ got[v] \in Seq(Message)
      BY <1>0, <2>3
    <3> HIDE DEF e, q
    <3>5. /\ Ordered(got[v] \o <<e>>)
          /\ ToSet(got[v] \o <<e>>) = ToSet(got[v]) \cup ToSet(<<e>>)
      BY <3>2, <3>3, <3>4, OrderedConcat
    <3> QED BY <3>1, <3>2, <3>5
  <2>8. VisibleTo(v, e) /\ v \notin Unrestricted => e.whole /\ Owner[e.scan] \in Allowed[v]
    BY DEF VisibleTo
  <2> HIDE DEF q, e
  <2>6. ASSUME NEW w \in Viewers
        PROVE  /\ \A m \in ToSet(got'[w]) \cup ToSet(queue'[w]) :
                    m.part = 2 => m.scan \in ToSet(written') /\ Past(m.scan)'
               /\ \A m \in ToSet(got'[w]) \cup ToSet(queue'[w]) : m.whole => m.part = 2
               /\ Ordered(got'[w]) /\ Ordered(queue'[w])
               /\ \A m \in ToSet(got'[w]), n \in ToSet(queue'[w]) : Follows(n, m)
               /\ w \notin Unrestricted => \A m \in ToSet(got'[w]) : m.whole /\ Owner[m.scan] \in Allowed[w]
    <3>1. CASE w # v
      <4>1. got'[w] = got[w] /\ queue'[w] = queue[w]
        BY <2>1, <3>1 DEF TypeOK
      <4> QED BY <2>3, <4>1
    <3>2. CASE w = v
      <4>1. /\ queue'[w] = Tail(q) /\ queue[w] = q
            /\ got'[w] = got[w] \/ (VisibleTo(v, e) /\ got'[w] = Append(got[v], e))
        BY <2>1, <3>2 DEF TypeOK, q
      <4>2. /\ e \in ToSet(queue[w]) /\ ToSet(queue'[w]) \subseteq ToSet(queue[w])
            /\ Ordered(queue'[w]) /\ Ordered(got'[w])
            /\ \A n \in ToSet(queue'[w]) : Follows(n, e)
            /\ \A m \in ToSet(got'[w]) : m \in ToSet(got[w]) \/ (m = e /\ VisibleTo(v, e))
        BY <2>3, <2>4, <2>5, <3>2, <4>1
      <4>3. \A m \in ToSet(got'[w]) \cup ToSet(queue'[w]) : m \in ToSet(got[w]) \cup ToSet(queue[w])
        BY <4>2
      <4>4. \A m \in ToSet(got'[w]), n \in ToSet(queue'[w]) : Follows(n, m)
        BY <2>3, <4>2
      <4>5. w \notin Unrestricted => \A m \in ToSet(got'[w]) : m.whole /\ Owner[m.scan] \in Allowed[w]
        BY <2>3, <2>8, <3>2, <4>2
      <4> QED BY <2>3, <4>2, <4>3, <4>4, <4>5
    <3> QED BY <3>1, <3>2
  <2>7. \A w \in Viewers :
          /\ Ordered(got[w])' /\ Ordered(queue[w])'
          /\ \A m \in ToSet(got'[w]), n \in ToSet(queue'[w]) : Follows(n, m)'
    BY <2>2, <2>6 DEF Ordered
  <2> QED BY <2>6, <2>7 DEF StreamInv
<1>6. \/ TickRead
      \/ \E v \in Viewers : Send(v)
      \/ UNCHANGED <<queue, got>>
  BY DEF Next, LogStep, Scan, TakeTime, Open, Write, WriteBegin, WriteRest, WriteFails, Rotate, Unlink, Tick, TickStat,
         TickFails, PageStep, ListLive, ListRotated, ReadLog, PageDone, vars, logs, streams
<1> QED BY <1>3, <1>4, <1>5, <1>6

-----------------------------------------------------------------------------
(* The logs a page has still to read.                                        *)

\* A sequence read backwards.
LEMMA ReverseIs ==
  ASSUME NEW S, NEW s \in Seq(S)
  PROVE  /\ Reverse(s) \in Seq(S) /\ Len(s) \in Nat /\ Len(Reverse(s)) = Len(s)
         /\ \A i \in 1 .. Len(s) : (Len(s) - i) + 1 \in 1 .. Len(s) /\ Reverse(s)[i] = s[(Len(s) - i) + 1]
         /\ ToSet(Reverse(s)) = ToSet(s)
         /\ IsInjective(s) => IsInjective(Reverse(s))
<1>1. Len(s) \in Nat /\ DOMAIN s = 1 .. Len(s) /\ ToSet(s) = {s[i] : i \in 1 .. Len(s)}
  BY ToSetIs
<1>2. \A i \in 1 .. Len(s) : (Len(s) - i) + 1 \in 1 .. Len(s)
  BY <1>1
<1>3. Reverse(s) = [i \in 1 .. Len(s) |-> s[(Len(s) - i) + 1]]
  BY DEF Reverse
<1>4. \A i \in 1 .. Len(s) : s[(Len(s) - i) + 1] \in S
  BY <1>2, ElementOfSeq
<1>5. Reverse(s) \in Seq(S) /\ Len(Reverse(s)) = Len(s) /\ DOMAIN Reverse(s) = 1 .. Len(s)
  BY <1>1, <1>3, <1>4
<1>6. ToSet(Reverse(s)) = ToSet(s)
  <2>1. ToSet(Reverse(s)) = {s[(Len(s) - i) + 1] : i \in 1 .. Len(s)}
    BY <1>3, <1>5 DEF ToSet
  <2>2. ASSUME NEW i \in 1 .. Len(s) PROVE s[i] \in {s[(Len(s) - k) + 1] : k \in 1 .. Len(s)}
    <3>1. (Len(s) - i) + 1 \in 1 .. Len(s) /\ (Len(s) - ((Len(s) - i) + 1)) + 1 = i
      BY <1>1
    <3> QED BY <3>1
  <2> QED BY <1>1, <1>2, <2>1, <2>2
<1>7. ASSUME IsInjective(s) PROVE IsInjective(Reverse(s))
  <2> SUFFICES ASSUME NEW i \in 1 .. Len(s), NEW k \in 1 .. Len(s), Reverse(s)[i] = Reverse(s)[k]
               PROVE  i = k
    BY <1>5 DEF IsInjective
  <2>1. (Len(s) - i) + 1 = (Len(s) - k) + 1
    BY <1>1, <1>2, <1>3, <1>7 DEF IsInjective
  <2> QED BY <1>1, <2>1
<1> QED BY <1>1, <1>2, <1>3, <1>5, <1>6, <1>7

\* Two sequences, one behind the other.
LEMMA ConcatIs ==
  ASSUME NEW S, NEW q \in Seq(S), NEW r \in Seq(S)
  PROVE  /\ q \o r \in Seq(S) /\ Len(q) \in Nat /\ Len(r) \in Nat /\ Len(q \o r) = Len(q) + Len(r)
         /\ \A i \in 1 .. Len(q) : i \in 1 .. Len(q \o r) /\ (q \o r)[i] = q[i]
         /\ \A i \in 1 .. Len(q \o r) : i > Len(q) => i - Len(q) \in 1 .. Len(r) /\ (q \o r)[i] = r[i - Len(q)]
         /\ ToSet(q \o r) = ToSet(q) \cup ToSet(r)
         /\ IsInjective(q) /\ IsInjective(r) /\ ToSet(q) \cap ToSet(r) = {} => IsInjective(q \o r)
<1>1. /\ Len(q) \in Nat /\ Len(r) \in Nat /\ Len(q \o r) = Len(q) + Len(r) /\ q \o r \in Seq(S)
      /\ \A i \in 1 .. Len(q) + Len(r) : (q \o r)[i] = IF i <= Len(q) THEN q[i] ELSE r[i - Len(q)]
  BY ConcatProperties, LenProperties
<1>2. /\ DOMAIN q = 1 .. Len(q) /\ DOMAIN r = 1 .. Len(r) /\ DOMAIN (q \o r) = 1 .. Len(q) + Len(r)
      /\ ToSet(q) = {q[i] : i \in 1 .. Len(q)} /\ ToSet(r) = {r[i] : i \in 1 .. Len(r)}
      /\ ToSet(q \o r) = {(q \o r)[i] : i \in 1 .. Len(q) + Len(r)}
  BY <1>1, ToSetIs
<1>3. \A i \in 1 .. Len(q) : i \in 1 .. Len(q) + Len(r) /\ (q \o r)[i] = q[i]
  BY <1>1
<1>4. \A i \in 1 .. Len(q) + Len(r) : i > Len(q) => i - Len(q) \in 1 .. Len(r) /\ (q \o r)[i] = r[i - Len(q)]
  BY <1>1
<1>5. \A i \in 1 .. Len(q) + Len(r) : i \in 1 .. Len(q) \/ i > Len(q)
  BY <1>1
<1>6. ToSet(q \o r) = ToSet(q) \cup ToSet(r)
  <2>1. ASSUME NEW i \in 1 .. Len(r) PROVE r[i] \in ToSet(q \o r)
    <3>1. Len(q) + i \in 1 .. Len(q) + Len(r) /\ Len(q) + i > Len(q) /\ (Len(q) + i) - Len(q) = i
      BY <1>1
    <3>2. (q \o r)[Len(q) + i] = r[i]
      BY <1>4, <3>1
    <3> QED BY <1>2, <3>1, <3>2
  <2> QED BY <1>2, <1>3, <1>4, <1>5, <2>1
<1>7. ASSUME IsInjective(q), IsInjective(r), ToSet(q) \cap ToSet(r) = {} PROVE IsInjective(q \o r)
  <2> SUFFICES ASSUME NEW i \in 1 .. Len(q) + Len(r), NEW k \in 1 .. Len(q) + Len(r),
                      (q \o r)[i] = (q \o r)[k]
               PROVE  i = k
    BY <1>2 DEF IsInjective
  <2>1. CASE i \in 1 .. Len(q) /\ k \in 1 .. Len(q)
    BY <1>2, <1>3, <1>7, <2>1 DEF IsInjective
  <2>2. CASE i > Len(q) /\ k > Len(q)
    <3>1. i - Len(q) = k - Len(q)
      BY <1>2, <1>4, <1>7, <2>2 DEF IsInjective
    <3> QED BY <1>1, <3>1
  <2>3. CASE i \in 1 .. Len(q) /\ k > Len(q)
    BY <1>2, <1>3, <1>4, <1>7, <2>3
  <2>4. CASE i > Len(q) /\ k \in 1 .. Len(q)
    BY <1>2, <1>3, <1>4, <1>7, <2>4
  <2> QED BY <1>5, <2>1, <2>2, <2>3, <2>4
<1> QED BY <1>1, <1>3, <1>4, <1>6, <1>7

\* The log that a page is about to read holds a character cut in two.
HeadGarbled == At(Head(page.todo)) # 0 /\ ~Decodes(content[At(Head(page.todo))], 0)
Hidden == IF HeadGarbled THEN ToSet(Parsed(content[At(Head(page.todo))])) ELSE {}

\* What a step that reads a log does to the page.
LEMMA ReadIs ==
  ASSUME TypeOK, ReadLog
  PROVE  /\ page.pc = "read" /\ page.todo # <<>> /\ Head(page.todo) = page.todo[1]
         /\ Head(page.todo) \in Files \cup {LivePath}
         /\ \E events \in Seq(Scans) :
              /\ events = IF At(Head(page.todo)) = 0 \/ HeadGarbled THEN <<>>
                          ELSE Parsed(content[At(Head(page.todo))])
              /\ page' = [page EXCEPT !.found = Chosen(Recent(events, page.cutoff)), !.must = @ \ Hidden,
                   !.todo = IF Recent(events, page.cutoff) # events
                               \/ Len(Chosen(Recent(events, page.cutoff))) = page.limit THEN <<>> ELSE Tail(@)]
         /\ page'.pc = "read" /\ UNCHANGED <<logs, streams>>
<1> DEFINE f == At(Head(page.todo))
           events == IF f = 0 \/ HeadGarbled THEN <<>> ELSE Parsed(content[f])
<1>1. /\ page.pc = "read" /\ page.todo # <<>> /\ UNCHANGED <<logs, streams>>
      /\ page' = [page EXCEPT !.found = Chosen(Recent(events, page.cutoff)), !.must = @ \ Hidden,
           !.todo = IF Recent(events, page.cutoff) # events
                       \/ Len(Chosen(Recent(events, page.cutoff))) = page.limit THEN <<>> ELSE Tail(@)]
  <2>1. page.must \ {} = page.must
    OBVIOUS
  <2> QED BY <2>1 DEF ReadLog, HeadGarbled, Hidden
<1>2. page.todo \in Seq(Files \cup {LivePath})
  BY DEF TypeOK
<1>3. Head(page.todo) \in Files \cup {LivePath} /\ Head(page.todo) = page.todo[1]
  BY <1>1, <1>2
<1>4. events \in Seq(Scans)
  <2>1. f # 0 => content[f] \in Seq(Piece)
    BY <1>3, AtIs DEF TypeOK
  <2>2. <<>> \in Seq(Scans)
    BY EmptySeq
  <2> QED BY <2>1, <2>2, ParsedIs
<1>5. page'.pc = "read"
  <2> HIDE DEF events
  <2> QED BY <1>1 DEF TypeOK
<1> QED BY <1>1, <1>3, <1>4, <1>5

\* The rest of a sequence.
LEMMA TailIs ==
  ASSUME NEW S, NEW q \in Seq(S), q # <<>>
  PROVE  /\ Tail(q) \in Seq(S) /\ Len(q) \in Nat \ {0} /\ Len(Tail(q)) = Len(q) - 1
         /\ \A i \in 1 .. Len(Tail(q)) : i \in Nat /\ i + 1 \in 1 .. Len(q) /\ Tail(q)[i] = q[i + 1]
         /\ ToSet(q) = {Head(q)} \cup ToSet(Tail(q))
         /\ IsInjective(q) => IsInjective(Tail(q)) /\ Head(q) \notin ToSet(Tail(q))
<1>1. /\ Len(q) \in Nat \ {0} /\ Tail(q) \in Seq(S) /\ Len(Tail(q)) = Len(q) - 1 /\ Head(q) = q[1]
      /\ \A i \in 1 .. Len(Tail(q)) : Tail(q)[i] = q[i + 1]
  BY EmptySeq, HeadTailProperties
<1>2. /\ DOMAIN q = 1 .. Len(q) /\ ToSet(q) = {q[i] : i \in 1 .. Len(q)}
      /\ DOMAIN Tail(q) = 1 .. Len(Tail(q)) /\ ToSet(Tail(q)) = {Tail(q)[i] : i \in 1 .. Len(Tail(q))}
  BY <1>1, ToSetIs
<1>3. \A i \in 1 .. Len(Tail(q)) : i \in Nat /\ i + 1 \in 1 .. Len(q) /\ i + 1 # 1
  BY <1>1
<1>4. 1 \in 1 .. Len(q) /\ \A i \in 1 .. Len(q) : i = 1 \/ (i - 1 \in 1 .. Len(Tail(q)) /\ (i - 1) + 1 = i)
  BY <1>1
<1>5. ToSet(q) = {Head(q)} \cup ToSet(Tail(q))
  <2>1. ASSUME NEW x \in ToSet(q) PROVE x = Head(q) \/ x \in ToSet(Tail(q))
    <3>1. PICK i \in 1 .. Len(q) : x = q[i]
      BY <1>2
    <3>2. CASE i # 1
      <4>1. i - 1 \in 1 .. Len(Tail(q)) /\ Tail(q)[i - 1] = q[i]
        BY <1>1, <1>4, <3>2
      <4> QED BY <1>2, <3>1, <4>1
    <3> QED BY <1>1, <3>1, <3>2
  <2>2. Head(q) \in ToSet(q) /\ ToSet(Tail(q)) \subseteq ToSet(q)
    BY <1>1, <1>2, <1>3, <1>4
  <2> QED BY <2>1, <2>2
<1>6. ASSUME IsInjective(q) PROVE IsInjective(Tail(q)) /\ Head(q) \notin ToSet(Tail(q))
  <2>1. ASSUME NEW i \in 1 .. Len(Tail(q)), NEW k \in 1 .. Len(Tail(q)), Tail(q)[i] = Tail(q)[k]
        PROVE  i = k
    <3>1. i + 1 = k + 1
      BY <1>1, <1>2, <1>3, <1>6, <2>1 DEF IsInjective
    <3> QED BY <1>3, <3>1
  <2>2. \A i \in 1 .. Len(Tail(q)) : Tail(q)[i] # Head(q)
    BY <1>1, <1>2, <1>3, <1>4, <1>6 DEF IsInjective
  <2> QED BY <1>2, <2>1, <2>2 DEF IsInjective
<1> QED BY <1>1, <1>3, <1>5, <1>6

\* The page that is being read is kept by the other steps, but for a rotation's
\* mark and the events that are deleted.
LEMMA PageKept ==
  ASSUME TypeOK, TodoInv, [Next]_vars, ~ PageStep
  PROVE  /\ page'.pc = page.pc /\ page'.for = page.for /\ page'.cutoff = page.cutoff
         /\ page'.limit = page.limit /\ page'.todo = page.todo /\ page'.found = page.found
         /\ page'.pc = "none" => page' = NoPage
         /\ page'.must \subseteq page.must
         /\ page'.calm => page.calm
<1> DEFINE Goal == /\ page'.pc = page.pc /\ page'.for = page.for /\ page'.cutoff = page.cutoff
                   /\ page'.limit = page.limit /\ page'.todo = page.todo /\ page'.found = page.found
                   /\ page'.pc = "none" => page' = NoPage
                   /\ page'.must \subseteq page.must
                   /\ page'.calm => page.calm
<1>0. page.pc = "none" => page = NoPage
  BY DEF TodoInv
<1>1. ASSUME NEW p \in Processes, Rotate(p) PROVE Goal
  <2>1. page' = [page EXCEPT !.calm = page.pc = "none"]
    BY <1>1 DEF Rotate
  <2>2. CASE page.pc = "none"
    <3>1. page = NoPage
      BY <1>0, <2>2
    <3>2. page' = [NoPage EXCEPT !.calm = TRUE]
      BY <2>1, <2>2, <3>1, Zenon
    <3>3. page' = NoPage
      BY <3>2, Zenon DEF NoPage
    <3> QED BY <3>1, <3>3
  <2>3. CASE page.pc # "none"
    BY <2>1, <2>3 DEF TypeOK
  <2> QED BY <2>2, <2>3
<1>2. ASSUME Unlink PROVE Goal
  <2>1. PICK gone : page' = [page EXCEPT !.must = @ \ gone]
    BY <1>2 DEF Unlink
  <2>2. CASE page.pc = "none"
    <3>1. NoPage.must = {} /\ [NoPage EXCEPT !.must = {}] = NoPage
      BY DEF NoPage
    <3>2. page' = [NoPage EXCEPT !.must = {} \ gone] /\ page = NoPage
      BY <1>0, <2>1, <2>2, <3>1
    <3>3. {} \ gone = {}
      OBVIOUS
    <3> QED BY <3>1, <3>2, <3>3
  <2>3. CASE page.pc # "none"
    BY <2>1, <2>3 DEF TypeOK
  <2> QED BY <2>2, <2>3
<1>3. CASE UNCHANGED page
  BY <1>0, <1>3
<1>4. \/ \E p \in Processes : Rotate(p)
      \/ Unlink
      \/ UNCHANGED page
  BY DEF Next, LogStep, Scan, TakeTime, Open, Write, WriteBegin, WriteRest, WriteFails, Tick, TickStat, TickRead, TickFails, Send, vars
<1> QED BY <1>1, <1>2, <1>3, <1>4

\* The logs to be read stay the live one first and the others from the newest on.
LEMMA TodoStep ==
  ASSUME TypeOK, FilesInv, TodoInv, [Next]_vars
  PROVE  TodoInv'
<1> DEFINE Unread_ == /\ IsInjective(page.todo)
                      /\ \A i \in 1 .. Len(page.todo) : page.todo[i] = LivePath => i = 1 /\ page.found = <<>>
           Old == \A f \in ToSet(page.todo) \ {LivePath} : f # live /\ content[f] # <<>>
           Newest == \A i, k \in 1 .. Len(page.todo), m, n \in 1 .. Len(rotated) :
                       i < k /\ page.todo[i] = rotated[m] /\ page.todo[k] = rotated[n] => n < m
           Shape == /\ page.pc = "none" => page = NoPage
                    /\ page.pc = "list" => page.found = <<>> /\ page.todo \in {<<>>, <<LivePath>>}
<1>0. Unread_ /\ Old /\ Newest /\ Shape
  BY DEF TodoInv
<1>1. /\ page.todo \in Seq(Files \cup {LivePath}) /\ Len(page.todo) \in Nat
      /\ DOMAIN page.todo = 1 .. Len(page.todo)
      /\ ToSet(page.todo) = {page.todo[i] : i \in 1 .. Len(page.todo)}
      /\ ToSet(page.todo) \subseteq Files \cup {LivePath}
  <2>1. page.todo \in Seq(Files \cup {LivePath})
    BY DEF TypeOK
  <2> QED BY <2>1, ToSetIs
<1>2. /\ rotated \in Seq(Files) /\ Len(rotated) \in Nat /\ DOMAIN rotated = 1 .. Len(rotated)
      /\ ToSet(rotated) = {rotated[i] : i \in 1 .. Len(rotated)} /\ ToSet(rotated) \subseteq Files
  <2>1. rotated \in Seq(Files)
    BY DEF TypeOK
  <2> QED BY <2>1, ToSetIs
<1>3. \A f \in Files : content[f] # <<>> => content'[f] # <<>>
  BY Kept
<1>4. 0 \notin Files /\ LivePath = 0
  BY DEF Files, LivePath
<1>5. ASSUME ~ PageStep PROVE TodoInv'
  <2>1. /\ page'.pc = page.pc /\ page'.todo = page.todo /\ page'.found = page.found
        /\ page'.pc = "none" => page' = NoPage
    BY <1>5, PageKept
  <2>2. Unread_' /\ Shape'
    BY <1>0, <2>1
  <2>3. ASSUME UNCHANGED <<live, rotated>> PROVE Old' /\ Newest'
    BY <1>0, <1>1, <1>3, <2>1, <2>3
  <2>4. ASSUME NEW s \in Scans, Open(s) PROVE Old' /\ Newest'
    <3>1. rotated' = rotated /\ content' = content
      BY <2>4 DEF Open
    <3>2. live' = live \/ content[live'] = <<>>
      BY <2>4, OpenIs
    <3> QED BY <1>0, <2>1, <3>1, <3>2
  <2>5. ASSUME NEW p \in Processes, Rotate(p) PROVE Old' /\ Newest'
    <3>1. live' = 0 /\ content' = content /\ rotated' = Append(rotated, live) /\ live \in Files
      BY <2>5 DEF Rotate, TypeOK
    <3>2. /\ Len(rotated') = Len(rotated) + 1 /\ rotated'[Len(rotated) + 1] = live
          /\ \A i \in 1 .. Len(rotated) : rotated'[i] = rotated[i]
      BY <1>2, <3>1, AppendIs
    <3>3. Old'
      BY <1>0, <1>4, <2>1, <3>1
    <3>4. \A i \in 1 .. Len(page.todo) : page.todo[i] # live
      BY <1>0, <1>1, <1>4, <3>1
    <3>5. ASSUME NEW i \in 1 .. Len(page.todo), NEW k \in 1 .. Len(page.todo),
                 NEW m \in 1 .. Len(rotated) + 1, NEW n \in 1 .. Len(rotated) + 1,
                 i < k, page.todo[i] = rotated'[m], page.todo[k] = rotated'[n]
          PROVE  n < m
      <4>1. m \in 1 .. Len(rotated) /\ n \in 1 .. Len(rotated)
        BY <1>2, <3>2, <3>4, <3>5
      <4> QED BY <1>0, <3>2, <3>5, <4>1
    <3> QED BY <2>1, <3>2, <3>3, <3>5
  <2>6. ASSUME Unlink PROVE Old' /\ Newest'
    <3>1. live' = live /\ content' = content
      BY <2>6 DEF Unlink
    <3>2. PICK stale \in Nat :
            \A i \in 1 .. Len(rotated') : stale + i \in 1 .. Len(rotated) /\ rotated'[i] = rotated[stale + i]
      BY <2>6, UnlinkIs
    <3>3. Len(rotated') \in Nat
      BY <2>6, UnlinkIs, LenProperties
    <3>4. ASSUME NEW i \in 1 .. Len(page.todo), NEW k \in 1 .. Len(page.todo),
                 NEW m \in 1 .. Len(rotated'), NEW n \in 1 .. Len(rotated'),
                 i < k, page.todo[i] = rotated'[m], page.todo[k] = rotated'[n]
          PROVE  n < m
      <4>1. stale + n < stale + m
        BY <1>0, <3>2, <3>4
      <4> QED BY <3>3, <4>1
    <3> QED BY <1>0, <2>1, <3>1, <3>4
  <2>7. \/ \E s \in Scans : Open(s)
        \/ \E p \in Processes : Rotate(p)
        \/ Unlink
        \/ UNCHANGED <<live, rotated>>
    BY DEF Next, LogStep, Scan, TakeTime, Write, WriteBegin, WriteRest, WriteFails, Tick, TickStat, TickRead, TickFails, Send,
           PageStep, ListLive, ListRotated, ReadLog, PageDone, vars, logs
  <2>8. Old' /\ Newest'
    BY <2>3, <2>4, <2>5, <2>6, <2>7
  <2> QED BY <2>2, <2>8 DEF TodoInv
<1>6. ASSUME NEW v \in Viewers, ListLive(v) PROVE TodoInv'
  <2>1. PICK cutoff \in Times, limit \in 1 .. Cardinality(Scans) :
          page' = [NoPage EXCEPT !.pc = "list", !.for = Allowed[v], !.cutoff = cutoff, !.limit = limit,
                          !.todo = IF live = 0 THEN <<>> ELSE <<LivePath>>, !.must = Readable]
    BY <1>6 DEF ListLive
  <2>2. page'.pc = "list" /\ page'.found = <<>> /\ page'.todo \in {<<>>, <<LivePath>>}
    BY <2>1 DEF NoPage
  <2> DEFINE todo == page'.todo
  <2>3. /\ Len(todo) \in {0, 1} /\ DOMAIN todo = 1 .. Len(todo)
        /\ \A i \in 1 .. Len(todo) : todo[i] = LivePath
    BY <2>2
  <2>4. ToSet(todo) = {todo[i] : i \in 1 .. Len(todo)}
    BY <2>3 DEF ToSet
  <2> HIDE DEF todo
  <2>5. /\ IsInjective(todo)
        /\ \A i \in 1 .. Len(todo) : i = 1
        /\ ToSet(todo) \subseteq {LivePath}
    BY <2>3, <2>4 DEF IsInjective
  <2>6. Shape' /\ Unread_'
    BY <2>2, <2>5 DEF todo
  <2>7. Old'
    BY <2>5 DEF todo
  <2>8. Newest'
    BY <2>3, <2>5 DEF todo
  <2> QED BY <2>6, <2>7, <2>8 DEF TodoInv
<1>7. ASSUME ListRotated PROVE TodoInv'
  <2> DEFINE old == page.todo
             back == Reverse(rotated)
             todo == page'.todo
  <2>1. /\ page.pc = "list" /\ page'.pc = "read" /\ page'.found = page.found /\ todo = old \o back
        /\ live' = live /\ content' = content /\ rotated' = rotated
    BY <1>7 DEF ListRotated, TypeOK, logs
  <2>2. page.found = <<>> /\ old \in {<<>>, <<LivePath>>}
    BY <1>0, <2>1
  <2>3. /\ Len(old) \in {0, 1} /\ ToSet(old) \subseteq {LivePath}
        /\ \A i \in 1 .. Len(old) : i = 1
    <3>1. CASE old = <<>>
      <4>1. Len(old) = 0
        BY <3>1
      <4> QED BY <1>1, <4>1
    <3>2. CASE old = <<LivePath>>
      <4>1. Len(old) = 1 /\ old[1] = LivePath
        BY <3>2
      <4> QED BY <1>1, <4>1
    <3> QED BY <2>2, <3>1, <3>2
  <2>4. /\ back \in Seq(Files) /\ Len(back) = Len(rotated) /\ IsInjective(back)
        /\ \A i \in 1 .. Len(rotated) :
             (Len(rotated) - i) + 1 \in 1 .. Len(rotated) /\ back[i] = rotated[(Len(rotated) - i) + 1]
        /\ ToSet(back) = ToSet(rotated)
    BY <1>2, ReverseIs DEF FilesInv
  <2>5. back \in Seq(Files \cup {LivePath})
    BY <2>4, SeqMonotonic
  <2> HIDE DEF back
  <2>6. /\ Len(todo) = Len(old) + Len(rotated)
        /\ \A i \in 1 .. Len(old) : todo[i] = old[i]
        /\ \A i \in 1 .. Len(todo) : i > Len(old) => i - Len(old) \in 1 .. Len(rotated) /\ todo[i] = back[i - Len(old)]
        /\ ToSet(todo) = ToSet(old) \cup ToSet(rotated)
        /\ IsInjective(todo)
    <3>1. ToSet(old) \cap ToSet(back) = {}
      BY <1>2, <1>4, <2>3, <2>4
    <3>2. IsInjective(old)
      BY <1>0
    <3>3. old \in Seq(Files \cup {LivePath})
      BY <1>1
    <3> HIDE DEF old, todo
    <3>4. ASSUME NEW q \in Seq(Files \cup {LivePath}), NEW r \in Seq(Files \cup {LivePath})
          PROVE  /\ Len(q \o r) = Len(q) + Len(r)
                 /\ \A i \in 1 .. Len(q) : (q \o r)[i] = q[i]
                 /\ \A i \in 1 .. Len(q \o r) : i > Len(q) => i - Len(q) \in 1 .. Len(r) /\ (q \o r)[i] = r[i - Len(q)]
                 /\ ToSet(q \o r) = ToSet(q) \cup ToSet(r)
                 /\ IsInjective(q) /\ IsInjective(r) /\ ToSet(q) \cap ToSet(r) = {} => IsInjective(q \o r)
      BY ConcatIs
    <3>5. /\ Len(old \o back) = Len(old) + Len(back)
          /\ \A i \in 1 .. Len(old) : (old \o back)[i] = old[i]
          /\ \A i \in 1 .. Len(old \o back) :
               i > Len(old) => i - Len(old) \in 1 .. Len(back) /\ (old \o back)[i] = back[i - Len(old)]
          /\ ToSet(old \o back) = ToSet(old) \cup ToSet(back)
          /\ IsInjective(old) /\ IsInjective(back) /\ ToSet(old) \cap ToSet(back) = {} => IsInjective(old \o back)
      BY <2>5, <3>3, <3>4, Zenon
    <3>6. IsInjective(old \o back)
      BY <2>4, <3>1, <3>2, <3>5, Zenon
    <3> QED BY <2>1, <2>4, <3>5, <3>6
  <2>7. \A i \in 1 .. Len(todo) : i > Len(old) => todo[i] \in Files
    BY <1>2, <2>4, <2>6
  <2>8. Unread_' /\ Shape'
    <3>1. \A i \in 1 .. Len(todo) : todo[i] = LivePath => i = 1
      <4> SUFFICES ASSUME NEW i \in 1 .. Len(todo), todo[i] = LivePath PROVE i = 1
        OBVIOUS
      <4>1. ~ (i > Len(old))
        BY <1>4, <2>7
      <4>2. i \in 1 .. Len(old)
        BY <1>1, <1>2, <2>6, <4>1
      <4> QED BY <2>3, <4>2
    <3> QED BY <2>1, <2>2, <2>6, <3>1
  <2>9. Old'
    <3>1. \A f \in ToSet(rotated) : f # live /\ content[f] # <<>>
      BY DEF FilesInv
    <3> QED BY <2>1, <2>3, <2>6, <3>1
  <2>10. Newest'
    <3>1. ASSUME NEW i \in 1 .. Len(todo), NEW k \in 1 .. Len(todo),
                 NEW m \in 1 .. Len(rotated), NEW n \in 1 .. Len(rotated),
                 i < k, todo[i] = rotated[m], todo[k] = rotated[n]
          PROVE  n < m
      <4>1. i > Len(old) /\ k > Len(old)
        <5>1. rotated[m] \in Files /\ rotated[n] \in Files
          BY <1>2
        <5>2. \A x \in 1 .. Len(old) : old[x] = LivePath
          BY <2>2
        <5>3. i \notin 1 .. Len(old) /\ k \notin 1 .. Len(old)
          BY <1>4, <2>6, <3>1, <5>1, <5>2
        <5> QED BY <1>1, <1>2, <2>6, <5>3
      <4> DEFINE a == i - Len(old)
                 b == k - Len(old)
      <4>2. a \in 1 .. Len(rotated) /\ b \in 1 .. Len(rotated) /\ todo[i] = back[a] /\ todo[k] = back[b]
        BY <2>6, <4>1
      <4>3. a < b
        BY <1>1, <1>2, <2>6, <3>1
      <4> HIDE DEF a, b
      <4>4. m = (Len(rotated) - a) + 1 /\ n = (Len(rotated) - b) + 1
        <5>1. rotated[m] = rotated[(Len(rotated) - a) + 1] /\ rotated[n] = rotated[(Len(rotated) - b) + 1]
          BY <2>4, <3>1, <4>2
        <5> QED BY <1>2, <2>4, <4>2, <5>1 DEF FilesInv, IsInjective
      <4> QED BY <1>2, <4>2, <4>3, <4>4
    <3> QED BY <2>1, <3>1
  <2> QED BY <2>8, <2>9, <2>10 DEF TodoInv
<1>8. ASSUME ReadLog PROVE TodoInv'
  <2>1. /\ page.pc = "read" /\ page'.pc = "read" /\ page.todo # <<>>
        /\ page'.todo \in {<<>>, Tail(page.todo)}
        /\ live' = live /\ content' = content /\ rotated' = rotated
    BY <1>8, ReadIs DEF logs, TypeOK
  <2>2. /\ Tail(page.todo) \in Seq(Files \cup {LivePath})
        /\ \A i \in 1 .. Len(Tail(page.todo)) :
             i \in Nat /\ i + 1 \in 1 .. Len(page.todo) /\ Tail(page.todo)[i] = page.todo[i + 1]
        /\ ToSet(Tail(page.todo)) \subseteq ToSet(page.todo) /\ IsInjective(Tail(page.todo))
    BY <1>0, <1>1, <2>1, TailIs
  <2> DEFINE todo == page'.todo
  <2>3. /\ IsInjective(todo) /\ ToSet(todo) \subseteq ToSet(page.todo)
        /\ \A i \in 1 .. Len(todo) : i \in Nat /\ i + 1 \in 1 .. Len(page.todo) /\ todo[i] = page.todo[i + 1]
    <3>1. CASE todo = <<>>
      <4>1. Len(todo) = 0 /\ DOMAIN todo = {} /\ ToSet(todo) = {}
        BY <3>1 DEF ToSet
      <4> QED BY <4>1 DEF IsInjective
    <3>2. CASE todo = Tail(page.todo)
      BY <2>2, <3>2
    <3> QED BY <2>1, <3>1, <3>2
  <2> HIDE DEF todo
  <2>4. \A i \in 1 .. Len(todo) : todo[i] # LivePath
    <3> SUFFICES ASSUME NEW i \in 1 .. Len(todo), todo[i] = LivePath PROVE FALSE
      OBVIOUS
    <3>1. i + 1 = 1
      BY <1>0, <2>3
    <3> QED BY <2>3, <3>1
  <2>5. Unread_' /\ Shape' /\ Old'
    BY <1>0, <2>1, <2>3, <2>4 DEF todo
  <2>6. Newest'
    <3>1. ASSUME NEW i \in 1 .. Len(todo), NEW k \in 1 .. Len(todo),
                 NEW m \in 1 .. Len(rotated), NEW n \in 1 .. Len(rotated),
                 i < k, todo[i] = rotated[m], todo[k] = rotated[n]
          PROVE  n < m
      <4>1. i + 1 < k + 1
        BY <2>3, <3>1
      <4> QED BY <1>0, <2>3, <3>1, <4>1
    <3> QED BY <2>1, <3>1 DEF todo
  <2> QED BY <2>5, <2>6 DEF TodoInv
<1>9. ASSUME PageDone PROVE TodoInv'
  <2>1. page' = NoPage /\ page'.pc = "none" /\ page'.todo = <<>>
    BY <1>9 DEF PageDone, NoPage
  <2>2. Len(page'.todo) = 0 /\ DOMAIN page'.todo = {} /\ ToSet(page'.todo) = {}
    BY <2>1 DEF ToSet
  <2> QED BY <2>1, <2>2 DEF TodoInv, IsInjective
<1> QED BY <1>5, <1>6, <1>7, <1>8, <1>9 DEF PageStep

\* What is parsed of a log ends in it, and no scan has two lines there.
LEMMA ParsedEnds ==
  ASSUME TypeOK, LinesInv, NEW f \in Files
  PROVE  /\ content[f] \in Seq(Piece) /\ Parsed(content[f]) \in Seq(Scans)
         /\ \A s \in ToSet(Parsed(content[f])) :
              s \in ToSet(written) /\ \E i \in 1 .. Len(content[f]) : Ends(f, i, s)
         /\ IsInjective(Parsed(content[f]))
<1> DEFINE c == content[f]
           q == Parsed(c)
<1>1. c \in Seq(Piece)
  BY DEF TypeOK
<1> HIDE DEF c
<1>2. /\ q \in Seq(Scans) /\ Len(q) \in Nat /\ DOMAIN q = 1 .. Len(q) /\ ToSet(q) = {q[k] : k \in 1 .. Len(q)}
      /\ \A k \in 1 .. Len(q) : Nth(Begins(c), k) \in Begins(c) /\ q[k] = c[Nth(Begins(c), k)][1]
      /\ \A k, m \in 1 .. Len(q) : k < m => Nth(Begins(c), k) < Nth(Begins(c), m)
  BY <1>1, ParsedIs, ToSetIs
<1>3. ASSUME NEW i \in Begins(c)
      PROVE  i \in Int /\ i + 1 \in 1 .. Len(c) /\ Ends(f, i + 1, c[i][1]) /\ c[i][1] \in Scans
  BY <1>1, <1>3, BeginsIs DEF Ends, c
<1>4. ASSUME NEW s \in ToSet(q)
      PROVE  s \in ToSet(written) /\ \E i \in 1 .. Len(c) : Ends(f, i, s)
  <2>1. PICK k \in 1 .. Len(q) : s = q[k]
    BY <1>2
  <2>2. PICK i \in 1 .. Len(c) : Ends(f, i, s) /\ s \in Scans
    BY <1>2, <1>3, <2>1
  <2> QED BY <2>2 DEF LinesInv, c
<1>5. ASSUME NEW k \in 1 .. Len(q), NEW m \in 1 .. Len(q), k < m, q[k] = q[m] PROVE FALSE
  <2> DEFINE i == Nth(Begins(c), k)
             j == Nth(Begins(c), m)
  <2>1. i \in Begins(c) /\ j \in Begins(c) /\ i < j /\ q[k] = c[i][1] /\ q[k] = c[j][1]
    BY <1>2, <1>5
  <2> HIDE DEF i, j
  <2>2. /\ i + 1 \in 1 .. Len(c) /\ j + 1 \in 1 .. Len(c) /\ Ends(f, i + 1, q[k]) /\ Ends(f, j + 1, q[k])
        /\ q[k] \in Scans /\ i + 1 < j + 1
    <3>1. i \in Int /\ i + 1 \in 1 .. Len(c) /\ Ends(f, i + 1, c[i][1]) /\ c[i][1] \in Scans
      BY <1>3, <2>1
    <3>2. j \in Int /\ j + 1 \in 1 .. Len(c) /\ Ends(f, j + 1, c[j][1])
      BY <1>3, <2>1
    <3>3. i + 1 < j + 1
      BY <2>1, <3>1, <3>2
    <3> QED BY <2>1, <3>1, <3>2, <3>3, Zenon
  <2>3. Before(q[k], q[k])
    BY <2>2 DEF LinesInv, c
  <2>4. DOMAIN written = 1 .. Len(written) /\ Len(written) \in Nat
    BY ToSetIs DEF TypeOK
  <2> QED BY <2>3, <2>4 DEF Before, LinesInv, IsInjective
<1>6. IsInjective(q)
  <2>1. ASSUME NEW k \in 1 .. Len(q), NEW m \in 1 .. Len(q), q[k] = q[m] PROVE k = m
    <3>1. k \in Nat /\ m \in Nat /\ (k < m \/ m < k \/ k = m)
      BY <1>2
    <3> QED BY <1>5, <2>1, <3>1
  <2> QED BY <1>2, <2>1 DEF IsInjective
<1> QED BY <1>1, <1>2, <1>4, <1>6 DEF c

\* What reading a log does to the page: the events of the window that are its
\* viewer's come after those it holds, cut off at the limit.
LEMMA ReadPage ==
  ASSUME TypeOK, LinesInv, TodoInv, ReadLog
  PROVE  \E f \in Files \cup {0}, events \in Seq(Scans), new \in Seq(Scans) :
           /\ f = At(Head(page.todo)) /\ events = IF f = 0 \/ HeadGarbled THEN <<>> ELSE Parsed(content[f])
           /\ IsInjective(new)
           /\ \A s \in ToSet(new) : s \in ToSet(events)
           /\ \A k \in 1 .. Len(events) :
                Owner[events[k]] \in page.for /\ (\A j \in k .. Len(events) : stamp[events[j]] >= page.cutoff)
                  => events[k] \in ToSet(new)
           /\ page'.found = First(page.found \o new, page.limit)
           /\ page'.todo \in {<<>>, Tail(page.todo)}
           /\ (\A j \in 1 .. Len(events) : stamp[events[j]] >= page.cutoff) /\ Len(page'.found) # page.limit
                => page'.todo = Tail(page.todo)
           /\ UNCHANGED <<page.pc, page.for, page.cutoff, page.limit, page.calm>>
           /\ page'.must = page.must \ Hidden
<1> DEFINE f == At(Head(page.todo))
<1>1. PICK events \in Seq(Scans) :
        /\ events = IF f = 0 \/ HeadGarbled THEN <<>> ELSE Parsed(content[f])
        /\ page' = [page EXCEPT !.found = Chosen(Recent(events, page.cutoff)), !.must = @ \ Hidden,
                      !.todo = IF Recent(events, page.cutoff) # events
                                  \/ Len(Chosen(Recent(events, page.cutoff))) = page.limit THEN <<>> ELSE Tail(@)]
  BY ReadIs
<1>2. f \in Files \cup {0}
  BY ReadIs, AtIs
<1> HIDE DEF f
<1>3. IsInjective(events) /\ Len(events) \in Nat /\ DOMAIN events = 1 .. Len(events)
  <2>1. CASE f = 0 \/ HeadGarbled
    BY <1>1, <2>1, EmptySeq DEF IsInjective
  <2>2. CASE ~ (f = 0 \/ HeadGarbled)
    BY <1>1, <1>2, <2>2, ParsedEnds, ToSetIs
  <2> QED BY <2>1, <2>2
<1> DEFINE P == {i \in 1 .. Len(events) : \A k \in i .. Len(events) : stamp[events[k]] >= page.cutoff}
           recent == Recent(events, page.cutoff)
<1>4. /\ recent \in Seq(Scans) /\ ToSet(recent) = {events[i] : i \in P} /\ IsInjective(recent)
      /\ P = 1 .. Len(events) => recent = events
  <2>1. P \in SUBSET (1 .. Len(events)) /\ recent = Pick(events, P)
    BY DEF Recent
  <2> HIDE DEF P, recent
  <2> QED BY <1>3, <2>1, PickIs
<1>5. (\A j \in 1 .. Len(events) : stamp[events[j]] >= page.cutoff) => recent = events
  <2>1. ASSUME \A j \in 1 .. Len(events) : stamp[events[j]] >= page.cutoff PROVE P = 1 .. Len(events)
    <3>1. \A i \in 1 .. Len(events) : \A k \in i .. Len(events) : k \in 1 .. Len(events)
      BY <1>3
    <3> QED BY <2>1, <3>1
  <2> QED BY <1>4, <2>1
<1>6. /\ page'.found = Chosen(recent) /\ page'.todo \in {<<>>, Tail(page.todo)}
      /\ recent = events /\ Len(page'.found) # page.limit => page'.todo = Tail(page.todo)
      /\ UNCHANGED <<page.pc, page.for, page.cutoff, page.limit, page.calm>>
      /\ page'.must = page.must \ Hidden
  <2> HIDE DEF recent
  <2>1. page' = [page EXCEPT !.found = Chosen(recent), !.must = @ \ Hidden,
                   !.todo = IF recent # events \/ Len(Chosen(recent)) = page.limit THEN <<>> ELSE Tail(@)]
    BY <1>1 DEF recent
  <2> QED BY <2>1 DEF TypeOK
<1> DEFINE Q == {i \in 1 .. Len(recent) : Owner[recent[i]] \in page.for}
           mine == Mine(recent)
<1>7. /\ mine \in Seq(Scans) /\ IsInjective(mine)
      /\ ToSet(mine) = {s \in ToSet(recent) : Owner[s] \in page.for}
  <2> HIDE DEF recent
  <2>1. Q \in SUBSET (1 .. Len(recent)) /\ mine = Pick(recent, Q)
    BY DEF Mine
  <2> HIDE DEF mine
  <2>2. mine \in Seq(Scans) /\ IsInjective(mine) /\ ToSet(mine) = {recent[i] : i \in Q}
    <3> HIDE DEF Q
    <3> QED BY <1>4, <2>1, PickIs
  <2>3. ToSet(recent) = {recent[i] : i \in 1 .. Len(recent)}
    BY <1>4, ToSetIs
  <2>4. ToSet(mine) = {s \in ToSet(recent) : Owner[s] \in page.for}
    BY <2>2, <2>3
  <2> QED BY <2>2, <2>4
<1> DEFINE new == Reverse(mine)
<1>8. new \in Seq(Scans) /\ IsInjective(new) /\ ToSet(new) = ToSet(mine)
  <2> HIDE DEF mine
  <2> QED BY <1>7, ReverseIs
<1>9. page'.found = First(page.found \o new, page.limit)
  BY <1>6 DEF Chosen
<1>10. ToSet(events) = {events[i] : i \in 1 .. Len(events)}
  BY ToSetIs
<1> HIDE DEF recent, mine, new
<1>11. \A s \in ToSet(new) : s \in ToSet(events)
  BY <1>4, <1>7, <1>8, <1>10
<1>12. ASSUME NEW k \in 1 .. Len(events), Owner[events[k]] \in page.for,
              \A j \in k .. Len(events) : stamp[events[j]] >= page.cutoff
       PROVE  events[k] \in ToSet(new)
  <2>1. events[k] \in ToSet(recent)
    BY <1>4, <1>12
  <2> QED BY <1>7, <1>8, <1>12, <2>1
<1>13. (\A j \in 1 .. Len(events) : stamp[events[j]] >= page.cutoff) /\ Len(page'.found) # page.limit
         => page'.todo = Tail(page.todo)
  BY <1>5, <1>6
<1> HIDE DEF P
<1> QED BY <1>1, <1>2, <1>6, <1>8, <1>9, <1>11, <1>12, <1>13 DEF f

\* A page holds no event twice, and what it holds comes from logs it has read.
LEMMA FoundStep ==
  ASSUME TypeOK, FilesInv, LinesInv, TodoInv, FoundInv, [Next]_vars
  PROVE  FoundInv'
<1> DEFINE From(f, s) == \E i \in 1 .. Len(content[f]) : Ends(f, i, s)
<1>0. /\ IsInjective(page.found)
      /\ \A s \in ToSet(page.found) : \E f \in Files \ ToSet(page.todo) : From(f, s)
  BY DEF FoundInv
<1>1. ASSUME NEW f \in Files, NEW s, From(f, s) PROVE \E i \in 1 .. Len(content'[f]) : Ends(f, i, s)'
  <2>1. PICK i \in 1 .. Len(content[f]) : Ends(f, i, s)
    BY <1>1
  <2>2. i \in 1 .. Len(content'[f]) /\ content'[f][i] = content[f][i]
    BY Kept
  <2> QED BY <2>1, <2>2 DEF Ends
<1>2. ASSUME page'.found = page.found, ToSet(page'.todo) = ToSet(page.todo) PROVE FoundInv'
  BY <1>0, <1>1, <1>2 DEF FoundInv
<1>3. ASSUME page'.found = <<>> PROVE FoundInv'
  <2>1. ToSet(<<>>) = {} /\ IsInjective(<<>>)
    BY DEF ToSet, IsInjective
  <2> QED BY <1>3, <2>1 DEF FoundInv
<1>4. ASSUME ~ PageStep PROVE FoundInv'
  BY <1>2, <1>4, PageKept
<1>5. ASSUME NEW v \in Viewers, ListLive(v) PROVE FoundInv'
  <2>1. page'.found = <<>>
    BY <1>5 DEF ListLive, NoPage
  <2> QED BY <1>3, <2>1
<1>6. ASSUME ListRotated PROVE FoundInv'
  <2>1. page'.found = <<>>
    BY <1>6 DEF ListRotated, TypeOK, TodoInv
  <2> QED BY <1>3, <2>1
<1>7. ASSUME PageDone PROVE FoundInv'
  <2>1. page'.found = <<>>
    BY <1>7 DEF PageDone, NoPage
  <2> QED BY <1>3, <2>1
<1>8. ASSUME ReadLog PROVE FoundInv'
  <2> DEFINE path == Head(page.todo)
  <2>1. PICK f \in Files \cup {0}, events \in Seq(Scans), new \in Seq(Scans) :
          /\ f = At(path) /\ events = IF f = 0 \/ HeadGarbled THEN <<>> ELSE Parsed(content[f])
          /\ IsInjective(new)
          /\ \A s \in ToSet(new) : s \in ToSet(events)
          /\ page'.found = First(page.found \o new, page.limit)
          /\ page'.todo \in {<<>>, Tail(page.todo)}
    BY <1>8, ReadPage
  <2>2. /\ page.todo \in Seq(Files \cup {LivePath}) /\ page.todo # <<>> /\ IsInjective(page.todo)
        /\ path = page.todo[1] /\ path \in Files \cup {LivePath}
        /\ Len(page.todo) \in Nat \ {0} /\ path \in ToSet(page.todo)
    <3>1. page.todo \in Seq(Files \cup {LivePath})
      BY DEF TypeOK
    <3>2. page.todo # <<>> /\ path = page.todo[1] /\ path \in Files \cup {LivePath}
      BY <1>8, ReadIs
    <3>3. Len(page.todo) \in Nat \ {0} /\ path \in ToSet(page.todo)
      BY <3>1, <3>2, TailIs
    <3> QED BY <3>1, <3>2, <3>3 DEF TodoInv
  <2>3. ToSet(page'.todo) \subseteq ToSet(page.todo) /\ path \notin ToSet(page'.todo)
    <3>1. CASE page'.todo = <<>>
      <4>1. ToSet(page'.todo) = {}
        BY <3>1 DEF ToSet
      <4> QED BY <4>1
    <3>2. CASE page'.todo = Tail(page.todo)
      BY <2>2, <3>2, TailIs
    <3> QED BY <2>1, <3>1, <3>2
  <2>4. ASSUME NEW s \in ToSet(new)
        PROVE  f \in Files /\ From(f, s) /\ f \notin ToSet(page'.todo)
               /\ (path = LivePath \/ f \in ToSet(page.todo))
    <3>1. f # 0 /\ ~ HeadGarbled
      <4>1. ToSet(<<>>) = {}
        BY DEF ToSet
      <4> QED BY <2>1, <2>4, <4>1
    <3>2. f \in Files /\ From(f, s)
      BY <2>1, <2>4, <3>1, ParsedEnds
    <3>3. CASE path = LivePath
      <4>1. f = live /\ f # LivePath
        BY <2>1, <2>2, <3>1, <3>3, AtIs DEF LivePath
      <4>2. f \notin ToSet(page.todo)
        BY <4>1 DEF TodoInv
      <4> QED BY <2>3, <3>2, <3>3, <4>2
    <3>4. CASE path # LivePath
      <4>1. f = path
        BY <2>1, <2>2, <3>1, <3>4, AtIs
      <4> QED BY <2>2, <2>3, <3>2, <4>1
    <3> QED BY <3>3, <3>4
  <2>5. ToSet(page.found) \cap ToSet(new) = {}
    <3> SUFFICES ASSUME NEW s \in ToSet(page.found), s \in ToSet(new) PROVE FALSE
      OBVIOUS
    <3>1. PICK g \in Files \ ToSet(page.todo) : From(g, s)
      BY <1>0
    <3>2. f \in Files /\ From(f, s)
      BY <2>4
    <3>3. s \in Scans
      BY ToSetIs DEF TypeOK
    <3>4. f = g
      BY <3>1, <3>2, <3>3 DEF LinesInv
    <3>5. path = LivePath
      BY <2>4, <3>1, <3>4
    <3>6. 1 \in 1 .. Len(page.todo)
      BY <2>2
    <3>7. page.found = <<>>
      BY <2>2, <3>5, <3>6 DEF TodoInv
    <3> QED BY <3>7 DEF ToSet
  <2> DEFINE all == page.found \o new
  <2>6. /\ page.found \in Seq(Scans) /\ all \in Seq(Scans) /\ IsInjective(all)
        /\ ToSet(all) = ToSet(page.found) \cup ToSet(new)
    <3>1. page.found \in Seq(Scans)
      BY DEF TypeOK
    <3>2. ASSUME NEW q \in Seq(Scans), NEW r \in Seq(Scans)
          PROVE  /\ q \o r \in Seq(Scans) /\ ToSet(q \o r) = ToSet(q) \cup ToSet(r)
                 /\ IsInjective(q) /\ IsInjective(r) /\ ToSet(q) \cap ToSet(r) = {} => IsInjective(q \o r)
      BY ConcatIs
    <3> QED BY <1>0, <2>1, <2>5, <3>1, <3>2, Zenon
  <2> HIDE DEF all
  <2>7. /\ Len(all) \in Nat /\ DOMAIN all = 1 .. Len(all) /\ ToSet(all) = {all[i] : i \in 1 .. Len(all)}
    BY <2>6, ToSetIs
  <2>8. page.limit \in Int
    BY DEF TypeOK
  <2> DEFINE found == page'.found
  <2>9. /\ found \in Seq(Scans) /\ \A i \in 1 .. Len(found) : i \in 1 .. Len(all) /\ found[i] = all[i]
    <3>1. found = First(all, page.limit)
      BY <2>1 DEF all
    <3> HIDE DEF found
    <3> QED BY <2>6, <2>8, <3>1, FirstIs
  <2>10. DOMAIN found = 1 .. Len(found) /\ ToSet(found) = {found[i] : i \in 1 .. Len(found)}
    BY <2>9, ToSetIs
  <2>11. IsInjective(found) /\ ToSet(found) \subseteq ToSet(page.found) \cup ToSet(new)
    <3> HIDE DEF found
    <3>1. IsInjective(found)
      BY <2>6, <2>7, <2>9, <2>10 DEF IsInjective
    <3> QED BY <2>6, <2>7, <2>9, <2>10, <3>1
  <2>12. ASSUME NEW s \in ToSet(found) PROVE \E g \in Files \ ToSet(page'.todo) : From(g, s)
    <3>1. CASE s \in ToSet(page.found)
      BY <1>0, <2>3, <3>1
    <3>2. CASE s \in ToSet(new)
      BY <2>4, <3>2
    <3> QED BY <2>11, <2>12, <3>1, <3>2
  <2> QED BY <1>1, <2>11, <2>12 DEF FoundInv
<1> QED BY <1>4, <1>5, <1>6, <1>7, <1>8 DEF PageStep

\* The logs as they stand: the renamed ones and then the live one.
LEMMA WithLive ==
  ASSUME NEW S, NEW r \in Seq(S), NEW l, l = 0 \/ l \in S
  PROVE  /\ r \o (IF l = 0 THEN <<>> ELSE <<l>>) \in Seq(S) /\ Len(r) \in Nat
         /\ Len(r \o (IF l = 0 THEN <<>> ELSE <<l>>)) = IF l = 0 THEN Len(r) ELSE Len(r) + 1
         /\ \A i \in 1 .. Len(r) : (r \o (IF l = 0 THEN <<>> ELSE <<l>>))[i] = r[i]
         /\ l # 0 => (r \o (IF l = 0 THEN <<>> ELSE <<l>>))[Len(r) + 1] = l
<1>0. Len(r) \in Nat
  BY LenProperties
<1>1. CASE l = 0
  <2>1. r \o <<>> = r
    BY ConcatEmptySeq
  <2> QED BY <1>0, <1>1, <2>1
<1>2. CASE l # 0
  <2>1. /\ <<l>> \in Seq(S) /\ Len(<<l>>) = 1 /\ <<l>>[1] = l
    BY <1>2
  <2> DEFINE one == <<l>>
  <2>2. one \in Seq(S) /\ Len(one) = 1 /\ one[1] = l
    BY <2>1
  <2> HIDE DEF one
  <2>3. /\ r \o one \in Seq(S) /\ Len(r \o one) = Len(r) + Len(one)
        /\ \A i \in 1 .. Len(r) + Len(one) : (r \o one)[i] = IF i <= Len(r) THEN r[i] ELSE one[i - Len(r)]
    BY <2>2, ConcatProperties
  <2>4. \A i \in 1 .. Len(r) : i \in 1 .. Len(r) + 1 /\ i <= Len(r)
    BY <1>0
  <2>5. Len(r) + 1 \in 1 .. Len(r) + 1 /\ ~ (Len(r) + 1 <= Len(r)) /\ (Len(r) + 1) - Len(r) = 1
    BY <1>0
  <2>6. \A i \in 1 .. Len(r) : (r \o one)[i] = r[i]
    BY <2>2, <2>3, <2>4
  <2>7. (r \o one)[Len(r) + 1] = l
    BY <2>2, <2>3, <2>5
  <2>8. r \o (IF l = 0 THEN <<>> ELSE <<l>>) = r \o one
    BY <1>2 DEF one
  <2> QED BY <1>0, <1>2, <2>2, <2>3, <2>6, <2>7, <2>8
<1> QED BY <1>1, <1>2

\* The places of the logs move down by those that are deleted, and what was
\* deleted is no longer owed.
LEMMA PlacesKept ==
  ASSUME TypeOK, FilesInv, [Next]_vars, \A p \in Processes : ~ Rotate(p)
  PROVE  \E d \in Nat : \A m \in 1 .. Len(LogFiles) :
           \/ m - d \in 1 .. Len(LogFiles') /\ LogFiles'[m - d] = LogFiles[m] /\ m > d
           \/ m <= d /\ \A s \in ToSet(Parsed(content[LogFiles[m]])) : s \notin page'.must
<1> DEFINE n == Len(rotated)
<1>1. /\ rotated \in Seq(Files) /\ n \in Nat /\ (live = 0 \/ live \in Files)
      /\ Len(LogFiles) = IF live = 0 THEN n ELSE n + 1
      /\ \A i \in 1 .. n : LogFiles[i] = rotated[i]
      /\ live # 0 => LogFiles[n + 1] = live
  <2>1. rotated \in Seq(Files) /\ (live = 0 \/ live \in Files)
    BY DEF TypeOK
  <2> QED BY <2>1, WithLive DEF LogFiles
<1>2. ASSUME NEW s \in Scans, Open(s)
      PROVE  \A m \in 1 .. Len(LogFiles) : m - 0 \in 1 .. Len(LogFiles') /\ LogFiles'[m - 0] = LogFiles[m] /\ m > 0
  <2>1. rotated' = rotated /\ live' \in Files /\ live' # 0 /\ (live # 0 => live' = live)
    <3>1. live' \in Files /\ (live # 0 => live' = live)
      BY <1>2, OpenIs
    <3>2. 0 \notin Files
      BY DEF Files
    <3> QED BY <1>2, <3>1, <3>2 DEF Open
  <2>2. /\ Len(LogFiles') = n + 1
        /\ \A i \in 1 .. n : LogFiles'[i] = rotated[i]
        /\ LogFiles'[n + 1] = live'
    <3> DEFINE l == live'
    <3>1. l \in Files /\ l # 0 /\ LogFiles' = rotated \o (IF l = 0 THEN <<>> ELSE <<l>>)
      BY <2>1 DEF LogFiles
    <3> HIDE DEF l
    <3>2. /\ Len(LogFiles') = n + 1
          /\ \A i \in 1 .. n : LogFiles'[i] = rotated[i]
          /\ LogFiles'[n + 1] = l
      BY <1>1, <3>1, WithLive
    <3> QED BY <3>2 DEF l
  <2> SUFFICES ASSUME NEW m \in 1 .. Len(LogFiles)
               PROVE  m - 0 \in 1 .. Len(LogFiles') /\ LogFiles'[m - 0] = LogFiles[m] /\ m > 0
    OBVIOUS
  <2>3. m \in 1 .. n \/ (live # 0 /\ m = n + 1)
    BY <1>1
  <2>4. m - 0 = m /\ m > 0 /\ m \in 1 .. Len(LogFiles')
    BY <1>1, <2>2, <2>3
  <2> QED BY <1>1, <2>1, <2>2, <2>3, <2>4
<1>3. ASSUME Unlink
      PROVE  \E d \in Nat : \A m \in 1 .. Len(LogFiles) :
               \/ m - d \in 1 .. Len(LogFiles') /\ LogFiles'[m - d] = LogFiles[m] /\ m > d
               \/ m <= d /\ \A s \in ToSet(Parsed(content[LogFiles[m]])) : s \notin page'.must
  <2>1. PICK d \in Nat :
          /\ d <= n
          /\ rotated' \in Seq(Files) /\ Len(rotated') = n - d
          /\ \A i \in 1 .. Len(rotated') : d + i \in 1 .. n /\ rotated'[i] = rotated[d + i]
          /\ page' = [page EXCEPT !.must = @ \ UNION {ToSet(Parsed(content[rotated[i]])) : i \in 1 .. d}]
    BY <1>3, UnlinkIs
  <2>2. live' = live
    BY <1>3 DEF Unlink
  <2>3. /\ Len(LogFiles') = IF live = 0 THEN n - d ELSE (n - d) + 1
        /\ \A i \in 1 .. Len(rotated') : LogFiles'[i] = rotated'[i]
        /\ live # 0 => LogFiles'[(n - d) + 1] = live
    BY <1>1, <2>1, <2>2, WithLive DEF LogFiles
  <2>4. ASSUME NEW m \in 1 .. Len(LogFiles), m <= d, NEW s \in ToSet(Parsed(content[LogFiles[m]]))
        PROVE  s \notin page'.must
    <3>1. m \in 1 .. n /\ m \in 1 .. d
      BY <1>1, <2>1, <2>4
    <3>2. s \in ToSet(Parsed(content[rotated[m]]))
      BY <1>1, <2>4, <3>1
    <3>3. s \in UNION {ToSet(Parsed(content[rotated[i]])) : i \in 1 .. d}
      BY <3>1, <3>2
    <3>4. page'.must = page.must \ UNION {ToSet(Parsed(content[rotated[i]])) : i \in 1 .. d}
      BY <2>1 DEF TypeOK
    <3> QED BY <3>3, <3>4
  <2>5. ASSUME NEW m \in 1 .. Len(LogFiles), m > d
        PROVE  m - d \in 1 .. Len(LogFiles') /\ LogFiles'[m - d] = LogFiles[m]
    <3>1. CASE m \in 1 .. n
      <4>1. m - d \in 1 .. Len(rotated') /\ d + (m - d) = m /\ m - d \in 1 .. Len(LogFiles')
        BY <1>1, <2>1, <2>3, <2>5, <3>1
      <4>2. LogFiles'[m - d] = rotated'[m - d] /\ rotated'[m - d] = rotated[m]
        BY <2>1, <2>3, <4>1
      <4> QED BY <1>1, <3>1, <4>1, <4>2
    <3>2. CASE live # 0 /\ m = n + 1
      <4>1. m - d = (n - d) + 1 /\ m - d \in 1 .. Len(LogFiles')
        BY <1>1, <2>1, <2>3, <3>2
      <4> QED BY <1>1, <2>3, <3>2, <4>1
    <3>3. m \in 1 .. n \/ (live # 0 /\ m = n + 1)
      BY <1>1
    <3> QED BY <3>1, <3>2, <3>3
  <2>6. \A m \in 1 .. Len(LogFiles) : m <= d \/ m > d
    BY <1>1, <2>1
  <2> QED BY <2>4, <2>5, <2>6
<1>4. ASSUME UNCHANGED <<live, rotated>>
      PROVE  \A m \in 1 .. Len(LogFiles) : m - 0 \in 1 .. Len(LogFiles') /\ LogFiles'[m - 0] = LogFiles[m] /\ m > 0
  <2>1. LogFiles' = LogFiles
    BY <1>4 DEF LogFiles
  <2>2. \A m \in 1 .. Len(LogFiles) : m - 0 = m /\ m > 0
    BY <1>1
  <2> QED BY <2>1, <2>2
<1>5. \/ \E s \in Scans : Open(s)
      \/ Unlink
      \/ UNCHANGED <<live, rotated>>
  BY DEF Next, LogStep, Scan, TakeTime, Write, WriteBegin, WriteRest, WriteFails, Tick, TickStat, TickRead, TickFails, Send,
         PageStep, ListLive, ListRotated, ReadLog, PageDone, vars, logs
<1>6. 0 \in Nat
  OBVIOUS
<1> QED BY <1>2, <1>3, <1>4, <1>5, <1>6

\* The timestamp of a line that is complete stays.
LEMMA StampKept ==
  ASSUME TypeOK, LinesInv, [Next]_vars
  PROVE  \A t \in ToSet(written) : t \in Scans /\ stamp'[t] = stamp[t]
<1> SUFFICES ASSUME NEW t \in ToSet(written) PROVE t \in Scans /\ stamp'[t] = stamp[t]
  OBVIOUS
<1>1. t \in Scans /\ pc[t] = "done"
  BY ToSetIs DEF TypeOK, LinesInv
<1>2. ASSUME NEW s \in Scans, TakeTime(s) PROVE stamp'[t] = stamp[t]
  BY <1>1, <1>2 DEF TakeTime, TypeOK
<1>3. (\E s \in Scans : TakeTime(s)) \/ stamp' = stamp
  BY DEF Next, LogStep, Scan, Open, Write, WriteBegin, WriteRest, WriteFails, Rotate, Unlink, Tick, TickStat, TickRead, TickFails,
         Send, PageStep, ListLive, ListRotated, ReadLog, PageDone, vars, logs
<1> QED BY <1>1, <1>2, <1>3

\* An older event that follows goes on to follow.
LEMMA OlderKept ==
  ASSUME TypeOK, FilesInv, LinesInv, [Next]_vars, \A p \in Processes : ~ Rotate(p),
         NEW s \in page'.must, OlderFollows(s)
  PROVE  OlderFollows(s)'
<1>1. PICK m \in 1 .. Len(LogFiles), n \in 1 .. Len(LogFiles) :
        \E i \in Begins(content[LogFiles[m]]), k \in Begins(content[LogFiles[n]]) :
          /\ m < n \/ (m = n /\ i < k)
          /\ content[LogFiles[m]][i][1] = s /\ stamp[content[LogFiles[n]][k][1]] < stamp[s]
  BY DEF OlderFollows
<1> DEFINE f == LogFiles[m]
           g == LogFiles[n]
<1>2. PICK i \in Begins(content[f]), k \in Begins(content[g]) :
        /\ m < n \/ (m = n /\ i < k)
        /\ content[f][i][1] = s /\ stamp[content[g][k][1]] < stamp[s]
  BY <1>1
<1>3. LogFiles \in Seq(Files) /\ Len(LogFiles) \in Nat
  <2>1. rotated \in Seq(Files) /\ (live = 0 \/ live \in Files)
    BY DEF TypeOK
  <2>2. LogFiles \in Seq(Files)
    BY <2>1, WithLive DEF LogFiles
  <2> QED BY <2>2, LenProperties
<1>4. f \in Files /\ g \in Files
  BY <1>3, ElementOfSeq
<1> HIDE DEF f, g
<1>5. content[f] \in Seq(Piece) /\ content[g] \in Seq(Piece)
  BY <1>4 DEF TypeOK
<1>6. /\ i \in 1 .. Len(content[f]) /\ i \in Begins(content'[f]) /\ content'[f][i] = content[f][i]
      /\ k \in 1 .. Len(content[g]) /\ k \in Begins(content'[g]) /\ content'[g][k] = content[g][k]
  <2>1. i \in 1 .. Len(content[f]) /\ k \in 1 .. Len(content[g])
    BY <1>2, <1>5, BeginsIs
  <2> QED BY <1>2, <1>4, <2>1, Kept
<1>7. s \in ToSet(Parsed(content[f])) /\ content[g][k][1] \in ToSet(Parsed(content[g]))
  BY <1>2, <1>5, ParsedIs
<1>8. stamp'[s] = stamp[s] /\ stamp'[content[g][k][1]] = stamp[content[g][k][1]]
  BY <1>4, <1>7, ParsedEnds, StampKept
<1>9. PICK d \in Nat : \A x \in 1 .. Len(LogFiles) :
        \/ x - d \in 1 .. Len(LogFiles') /\ LogFiles'[x - d] = LogFiles[x] /\ x > d
        \/ x <= d /\ \A t \in ToSet(Parsed(content[LogFiles[x]])) : t \notin page'.must
  BY PlacesKept
<1>10. m - d \in 1 .. Len(LogFiles') /\ LogFiles'[m - d] = f /\ m > d
  BY <1>7, <1>9 DEF f
<1>11. m \in Nat /\ n \in Nat /\ n > d
  <2>1. m \in Nat /\ n \in Nat
    BY <1>3
  <2>2. m < n \/ m = n
    BY <1>2
  <2> QED BY <1>10, <2>1, <2>2
<1>12. n - d \in 1 .. Len(LogFiles') /\ LogFiles'[n - d] = g
  <2>1. ~ (n <= d)
    BY <1>11
  <2> QED BY <1>9, <2>1 DEF g
<1>13. m - d < n - d \/ (m - d = n - d /\ i < k)
  BY <1>2, <1>11
<1>14. /\ i \in Begins(content'[LogFiles'[m - d]]) /\ k \in Begins(content'[LogFiles'[n - d]])
       /\ content'[LogFiles'[m - d]][i][1] = s
       /\ stamp'[content'[LogFiles'[n - d]][k][1]] < stamp'[s]
  BY <1>2, <1>6, <1>8, <1>10, <1>12
<1> QED BY <1>10, <1>12, <1>13, <1>14 DEF OlderFollows

\* What lies in a log that is still to be read goes on to lie there.
LEMMA AheadKept ==
  ASSUME TypeOK, FilesInv, [Next]_vars, \A p \in Processes : ~ Rotate(p), ~ PageStep, TodoInv,
         NEW s \in page'.must, Ahead(s)
  PROVE  Ahead(s)'
<1>1. PICK f \in Standing :
        /\ s \in ToSet(Parsed(content[f]))
        /\ (PathOf(f) \in ToSet(page.todo)) \/ (page.pc = "list" /\ f \in ToSet(rotated))
  BY DEF Ahead
<1>2. /\ rotated \in Seq(Files) /\ DOMAIN rotated = 1 .. Len(rotated) /\ Len(rotated) \in Nat
      /\ ToSet(rotated) = {rotated[i] : i \in 1 .. Len(rotated)} /\ ToSet(rotated) \subseteq Files
  <2>1. rotated \in Seq(Files)
    BY DEF TypeOK
  <2> QED BY <2>1, ToSetIs
<1>3. 0 \notin Files
  BY DEF Files
<1>4. f \in Files /\ (f = live \/ f \in ToSet(rotated))
  BY <1>2 DEF Standing, TypeOK
<1>5. s \in ToSet(Parsed(content'[f]))
  BY <1>1, <1>4, Kept
<1>6. page'.pc = page.pc /\ page'.todo = page.todo
  BY PageKept
<1>7. /\ f = live => live' = live
      /\ f \in ToSet(rotated) => f \in ToSet(rotated') /\ f # live'
  <2>1. f \in ToSet(rotated) => f # live
    BY DEF FilesInv
  <2>2. ASSUME NEW t \in Scans, Open(t)
        PROVE  (f = live => live' = live) /\ (f \in ToSet(rotated) => f \in ToSet(rotated') /\ f # live')
    <3>1. rotated' = rotated
      BY <2>2 DEF Open
    <3> QED BY <1>3, <1>4, <2>1, <2>2, <3>1, OpenIs
  <2>3. ASSUME Unlink
        PROVE  (f = live => live' = live) /\ (f \in ToSet(rotated) => f \in ToSet(rotated') /\ f # live')
    <3>1. live' = live
      BY <2>3 DEF Unlink
    <3>2. PICK d \in Nat :
            /\ d <= Len(rotated)
            /\ rotated' \in Seq(Files) /\ Len(rotated') = Len(rotated) - d
            /\ \A i \in 1 .. Len(rotated') : d + i \in 1 .. Len(rotated) /\ rotated'[i] = rotated[d + i]
            /\ page' = [page EXCEPT !.must = @ \ UNION {ToSet(Parsed(content[rotated[i]])) : i \in 1 .. d}]
      BY <2>3, UnlinkIs
    <3>3. ASSUME NEW m \in 1 .. Len(rotated), f = rotated[m] PROVE f \in ToSet(rotated')
      <4>1. m > d
        <5>1. m \notin 1 .. d
          <6>1. page'.must = page.must \ UNION {ToSet(Parsed(content[rotated[i]])) : i \in 1 .. d}
            BY <3>2 DEF TypeOK
          <6> QED BY <1>1, <3>3, <6>1
        <5> QED BY <1>2, <3>2, <5>1
      <4>2. m - d \in 1 .. Len(rotated') /\ d + (m - d) = m
        BY <1>2, <3>2, <4>1
      <4>3. rotated'[m - d] = f
        BY <3>2, <3>3, <4>2
      <4> QED BY <3>2, <4>2, <4>3, ToSetIs
    <3> QED BY <1>2, <2>1, <3>1, <3>3
  <2>4. \/ \E t \in Scans : Open(t)
        \/ Unlink
        \/ UNCHANGED <<live, rotated>>
    BY DEF Next, LogStep, Scan, TakeTime, Write, WriteBegin, WriteRest, WriteFails, Tick, TickStat, TickRead, TickFails, Send,
           vars, logs
  <2> QED BY <2>1, <2>2, <2>3, <2>4
<1>8. f \in Standing'
  BY <1>3, <1>4, <1>7 DEF Standing
<1>9. PathOf(f)' = PathOf(f)
  BY <1>4, <1>7 DEF PathOf, FilesInv
<1> QED BY <1>1, <1>5, <1>6, <1>7, <1>8, <1>9 DEF Ahead

\* What is listed when a page begins is ahead of it.
LEMMA OwedFromStart ==
  ASSUME TypeOK, LinesInv, NEW v \in Viewers, ListLive(v)
  PROVE  page'.must \subseteq ToSet(written) /\ \A s \in page'.must : Ahead(s)'
<1>1. PICK cutoff \in Times, limit \in 1 .. Cardinality(Scans) :
        page' = [NoPage EXCEPT !.pc = "list", !.for = Allowed[v], !.cutoff = cutoff, !.limit = limit,
                        !.todo = IF live = 0 THEN <<>> ELSE <<LivePath>>, !.must = Readable]
  BY DEF ListLive
<1>2. /\ page'.pc = "list" /\ page'.must = Readable
      /\ page'.todo = IF live = 0 THEN <<>> ELSE <<LivePath>>
  BY <1>1 DEF NoPage
<1>3. UNCHANGED <<content, live, rotated>>
  BY DEF ListLive, logs
<1>4. \A f \in Standing : f \in Files
  <2>1. ToSet(rotated) \subseteq Files
    BY ToSetIs DEF TypeOK
  <2> QED BY <2>1 DEF Standing, TypeOK
<1>5. ASSUME NEW s \in Readable PROVE s \in ToSet(written) /\ Ahead(s)'
  <2>1. PICK f \in Standing : s \in ToSet(Parsed(content[f]))
    BY <1>5 DEF Readable
  <2>2. s \in ToSet(written)
    BY <1>4, <2>1, ParsedEnds
  <2>3. CASE f \in ToSet(rotated)
    BY <1>2, <1>3, <2>1, <2>2, <2>3 DEF Ahead, Standing
  <2>4. CASE f = live /\ live # 0
    <3>1. PathOf(f)' = LivePath
      BY <1>3, <2>4 DEF PathOf
    <3>2. LivePath \in ToSet(page'.todo)
      <4>1. page'.todo = <<LivePath>>
        BY <1>2, <2>4
      <4>2. 1 \in DOMAIN <<LivePath>> /\ <<LivePath>>[1] = LivePath
        OBVIOUS
      <4> QED BY <4>1, <4>2 DEF ToSet
    <3> QED BY <1>2, <1>3, <2>1, <2>2, <3>1, <3>2 DEF Ahead, Standing
  <2> QED BY <2>3, <2>4 DEF Standing
<1> QED BY <1>2, <1>5

\* The renamed logs are listed before a page can miss them.
LEMMA AheadListed ==
  ASSUME TypeOK, FilesInv, TodoInv, ListRotated, NEW s, Ahead(s)
  PROVE  Ahead(s)'
<1>1. PICK f \in Standing :
        /\ s \in ToSet(Parsed(content[f]))
        /\ (PathOf(f) \in ToSet(page.todo)) \/ (page.pc = "list" /\ f \in ToSet(rotated))
  BY DEF Ahead
<1>2. page'.todo = page.todo \o Reverse(rotated) /\ UNCHANGED <<content, live, rotated>>
  BY DEF ListRotated, TypeOK, logs
<1>3. rotated \in Seq(Files) /\ page.todo \in Seq(Files \cup {LivePath})
  BY DEF TypeOK
<1>4. Reverse(rotated) \in Seq(Files) /\ ToSet(Reverse(rotated)) = ToSet(rotated)
  BY <1>3, ReverseIs
<1>5. Reverse(rotated) \in Seq(Files \cup {LivePath})
  BY <1>4, SeqMonotonic
<1>6. ASSUME NEW q \in Seq(Files \cup {LivePath}), NEW r \in Seq(Files \cup {LivePath})
      PROVE  ToSet(q \o r) = ToSet(q) \cup ToSet(r)
  BY ConcatIs
<1>7. ToSet(page'.todo) = ToSet(page.todo) \cup ToSet(rotated)
  BY <1>2, <1>3, <1>4, <1>5, <1>6
<1>8. PathOf(f)' = PathOf(f) /\ (f \in ToSet(rotated) => PathOf(f) = f)
  BY <1>2 DEF PathOf, FilesInv
<1>9. f \in Standing'
  BY <1>2 DEF Standing
<1> QED BY <1>1, <1>2, <1>7, <1>8, <1>9 DEF Ahead

\* Where the logs stand.
LEMMA LogFilesAre ==
  ASSUME TypeOK
  PROVE  /\ rotated \in Seq(Files) /\ Len(rotated) \in Nat
         /\ \A n \in 1 .. Len(rotated) : n \in 1 .. Len(LogFiles) /\ LogFiles[n] = rotated[n]
         /\ live # 0 => Len(rotated) + 1 \in 1 .. Len(LogFiles) /\ LogFiles[Len(rotated) + 1] = live
         /\ \A f \in Standing : f \in Files /\ \E m \in 1 .. Len(LogFiles) : LogFiles[m] = f
<1>1. rotated \in Seq(Files) /\ (live = 0 \/ live \in Files)
  BY DEF TypeOK
<1>2. /\ Len(rotated) \in Nat
      /\ Len(LogFiles) = IF live = 0 THEN Len(rotated) ELSE Len(rotated) + 1
      /\ \A i \in 1 .. Len(rotated) : LogFiles[i] = rotated[i]
      /\ live # 0 => LogFiles[Len(rotated) + 1] = live
  BY <1>1, WithLive DEF LogFiles
<1>3. ToSet(rotated) = {rotated[i] : i \in 1 .. Len(rotated)} /\ ToSet(rotated) \subseteq Files
  BY <1>1, ToSetIs
<1>4. \A n \in 1 .. Len(rotated) : n \in 1 .. Len(LogFiles) /\ LogFiles[n] = rotated[n]
  <2>1. \A n \in 1 .. Len(rotated) : n \in 1 .. Len(LogFiles)
    BY <1>2
  <2> QED BY <1>2, <2>1
<1>5. live # 0 => Len(rotated) + 1 \in 1 .. Len(LogFiles) /\ LogFiles[Len(rotated) + 1] = live
  BY <1>2
<1>6. ASSUME NEW f \in Standing PROVE f \in Files /\ \E m \in 1 .. Len(LogFiles) : LogFiles[m] = f
  <2>1. (f = live /\ live # 0) \/ f \in ToSet(rotated)
    BY DEF Standing
  <2>2. CASE f = live /\ live # 0
    BY <1>1, <1>5, <2>2
  <2>3. CASE f \in ToSet(rotated)
    BY <1>3, <1>4, <2>3
  <2> QED BY <2>1, <2>2, <2>3
<1> QED BY <1>1, <1>2, <1>4, <1>5, <1>6

\* An event below the cutoff in the log itself, or in a newer one.
LEMMA OlderIs ==
  ASSUME TypeOK, NEW m \in 1 .. Len(LogFiles), NEW n \in 1 .. Len(LogFiles),
         LogFiles[m] \in Files, LogFiles[n] \in Files,
         NEW k \in 1 .. Len(Parsed(content[LogFiles[m]])), NEW j \in 1 .. Len(Parsed(content[LogFiles[n]])),
         m < n \/ (m = n /\ k < j),
         stamp[Parsed(content[LogFiles[n]])[j]] < stamp[Parsed(content[LogFiles[m]])[k]]
  PROVE  OlderFollows(Parsed(content[LogFiles[m]])[k])
<1> DEFINE c == content[LogFiles[m]]
           e == content[LogFiles[n]]
           s == Parsed(c)[k]
           i == Nth(Begins(c), k)
           h == Nth(Begins(e), j)
<1>1. c \in Seq(Piece) /\ e \in Seq(Piece)
  BY DEF TypeOK
<1>2. /\ i \in Begins(c) /\ c[i][1] = s
      /\ h \in Begins(e) /\ e[h][1] = Parsed(e)[j]
      /\ m = n /\ k < j => i < h
  <2> HIDE DEF c, e
  <2>1. i \in Begins(c) /\ s = c[i][1]
    BY <1>1, ParsedIs DEF c
  <2>2. h \in Begins(e) /\ e[h][1] = Parsed(e)[j]
    BY <1>1, ParsedIs DEF e
  <2>3. ASSUME m = n, k < j PROVE i < h
    <3>1. c = e
      BY <2>3 DEF c, e
    <3>2. k \in 1 .. Len(Parsed(e)) /\ j \in 1 .. Len(Parsed(e))
      BY <3>1 DEF c, e
    <3>3. Nth(Begins(e), k) < Nth(Begins(e), j)
      BY <1>1, <2>3, <3>2, ParsedIs
    <3> QED BY <3>1, <3>3
  <2> QED BY <2>1, <2>2, <2>3
<1>3. stamp[e[h][1]] < stamp[s]
  BY <1>2
<1> HIDE DEF i, h, s
<1>4. m < n \/ (m = n /\ i < h)
  BY <1>2
<1>5. OlderFollows(s)
  BY <1>2, <1>3, <1>4 DEF OlderFollows
<1> QED BY <1>5 DEF s

\* Reading a log loses nothing that is owed.
LEMMA OwedRead ==
  ASSUME TypeOK, FilesInv, LinesInv, TodoInv, OwedInv, ReadLog, page'.calm, Len(page'.found) < page'.limit,
         NEW s \in Owed'
  PROVE  s \in ToSet(page'.found) \/ OlderFollows(s)' \/ Ahead(s)'
<1> DEFINE path == Head(page.todo)
<1>1. PICK f \in Files \cup {0}, events \in Seq(Scans), new \in Seq(Scans) :
        /\ f = At(path) /\ events = IF f = 0 \/ HeadGarbled THEN <<>> ELSE Parsed(content[f])
        /\ \A k \in 1 .. Len(events) :
             Owner[events[k]] \in page.for /\ (\A j \in k .. Len(events) : stamp[events[j]] >= page.cutoff)
               => events[k] \in ToSet(new)
        /\ page'.found = First(page.found \o new, page.limit)
        /\ (\A j \in 1 .. Len(events) : stamp[events[j]] >= page.cutoff) /\ Len(page'.found) # page.limit
             => page'.todo = Tail(page.todo)
        /\ UNCHANGED <<page.pc, page.for, page.cutoff, page.limit, page.calm>>
        /\ page'.must = page.must \ Hidden
  BY ReadPage
<1>2. UNCHANGED <<content, live, rotated, stamp>> /\ page.pc = "read"
  BY ReadIs DEF logs
<1>3. s \in page.must /\ Owner[s] \in page.for /\ stamp[s] >= page.cutoff /\ s \in Owed
  BY <1>1, <1>2 DEF Owed
<1>13. s \notin Hidden
  BY <1>1 DEF Owed
<1>4. page.limit \in Nat /\ page.cutoff \in Nat /\ page.found \in Seq(Scans) /\ page.must \subseteq Scans /\ s \in Scans
  BY <1>3 DEF TypeOK
<1>5. /\ Len(page.found) < page.limit /\ Len(page'.found) # page.limit
      /\ ToSet(page'.found) = ToSet(page.found) \cup ToSet(new)
  <2> DEFINE all == page.found \o new
  <2>1. ASSUME NEW q \in Seq(Scans), NEW r \in Seq(Scans)
        PROVE  /\ q \o r \in Seq(Scans) /\ Len(q) \in Nat /\ Len(r) \in Nat /\ Len(q \o r) = Len(q) + Len(r)
               /\ ToSet(q \o r) = ToSet(q) \cup ToSet(r)
    BY ConcatIs
  <2>2. /\ all \in Seq(Scans) /\ Len(page.found) \in Nat /\ Len(new) \in Nat /\ Len(all) = Len(page.found) + Len(new)
        /\ ToSet(all) = ToSet(page.found) \cup ToSet(new)
    BY <1>4, <2>1, Zenon
  <2>3. page'.found = First(all, page.limit) /\ Len(First(all, page.limit)) < page.limit
    BY <1>1
  <2> HIDE DEF all
  <2>4. First(all, page.limit) = all
    <3>1. page.limit \in Int
      BY <1>4
    <3> QED BY <2>2, <2>3, <3>1, FirstIs
  <2>5. page'.found = all /\ Len(all) < page.limit
    BY <2>3, <2>4
  <2>6. Len(page.found) < page.limit /\ Len(all) # page.limit
    BY <1>4, <2>2, <2>5
  <2> QED BY <2>2, <2>5, <2>6
<1>6. s \in ToSet(page.found) \/ OlderFollows(s) \/ Ahead(s)
  BY <1>1, <1>3, <1>5 DEF OwedInv
<1>7. OlderFollows(s) => OlderFollows(s)'
  BY <1>2 DEF OlderFollows, LogFiles
<1>8. /\ page.todo \in Seq(Files \cup {LivePath}) /\ page.todo # <<>>
      /\ path = page.todo[1] /\ path \in Files \cup {LivePath}
      /\ Len(page.todo) \in Nat \ {0}
      /\ ToSet(page.todo) = {page.todo[i] : i \in 1 .. Len(page.todo)}
      /\ ToSet(page.todo) = {path} \cup ToSet(Tail(page.todo))
  <2>1. page.todo \in Seq(Files \cup {LivePath})
    BY DEF TypeOK
  <2>2. page.todo # <<>> /\ path = page.todo[1] /\ path \in Files \cup {LivePath}
    BY ReadIs
  <2> QED BY <2>1, <2>2, TailIs, ToSetIs
<1>9. \A x \in Scans : stamp[x] \in Nat
  BY DEF TypeOK
<1>10. \A j \in 1 .. Len(events) : events[j] \in Scans
  BY ElementOfSeq
<1> HIDE DEF path
<1>11. ASSUME Ahead(s) PROVE s \in ToSet(page'.found) \/ OlderFollows(s) \/ Ahead(s)'
  <2>1. PICK g \in Standing : s \in ToSet(Parsed(content[g])) /\ PathOf(g) \in ToSet(page.todo)
    BY <1>2, <1>11 DEF Ahead
  <2>2. g \in Files /\ content[g] \in Seq(Piece) /\ Parsed(content[g]) \in Seq(Scans)
    BY LogFilesAre, ParsedEnds
  <2>3. PICK k \in 1 .. Len(Parsed(content[g])) : Parsed(content[g])[k] = s
    BY <2>1, <2>2, ToSetIs
  <2>4. CASE PathOf(g) = path
    <3>1. f = g /\ events = Parsed(content[g])
      <4>1. At(path) = g
        BY <1>8, <2>4, AtIs
      <4>2. g # 0
        BY <2>2 DEF Files
      <4>3. ~ HeadGarbled
        BY <1>13, <2>1, <4>1 DEF Hidden, path
      <4> QED BY <1>1, <4>1, <4>2, <4>3
    <3>2. CASE \A j \in k .. Len(events) : stamp[events[j]] >= page.cutoff
      <4>1. s \in ToSet(new)
        BY <1>1, <1>3, <2>3, <3>1, <3>2
      <4> QED BY <1>5, <4>1
    <3>3. CASE \E j \in k .. Len(events) : ~ (stamp[events[j]] >= page.cutoff)
      <4>1. PICK j \in k .. Len(events) : ~ (stamp[events[j]] >= page.cutoff)
        BY <3>3
      <4>2. Len(events) \in Nat /\ k \in Nat
        BY <2>3, <3>1, LenProperties
      <4>3. j \in 1 .. Len(events) /\ j # k
        <5>1. j # k
          BY <1>3, <2>3, <3>1, <4>1
        <5> QED BY <2>3, <3>1, <4>2, <5>1
      <4>4. k < j
        BY <4>2, <4>3
      <4>5. stamp[events[j]] < stamp[s]
        <5>1. stamp[events[j]] \in Nat /\ stamp[s] \in Nat
          BY <1>4, <1>9, <1>10, <4>3
        <5> QED BY <1>3, <1>4, <4>1, <5>1
      <4>6. PICK m \in 1 .. Len(LogFiles) : LogFiles[m] = g
        BY LogFilesAre
      <4>7. OlderFollows(Parsed(content[LogFiles[m]])[k])
        BY <2>2, <2>3, <3>1, <4>3, <4>4, <4>5, <4>6, OlderIs
      <4> QED BY <2>3, <4>6, <4>7
    <3> QED BY <3>2, <3>3
  <2>5. CASE PathOf(g) # path
    <3>1. PathOf(g) \in ToSet(Tail(page.todo))
      BY <1>8, <2>1, <2>5
    <3>2. CASE \A j \in 1 .. Len(events) : stamp[events[j]] >= page.cutoff
      <4>1. page'.todo = Tail(page.todo)
        BY <1>1, <1>5, <3>2
      <4>2. g \in Standing' /\ PathOf(g)' = PathOf(g)
        BY <1>2 DEF Standing, PathOf
      <4>3. s \in ToSet(Parsed(content'[g])) /\ PathOf(g)' \in ToSet(page'.todo)
        BY <1>2, <2>1, <3>1, <4>1, <4>2
      <4> QED BY <4>2, <4>3 DEF Ahead
    <3>3. CASE \E j \in 1 .. Len(events) : ~ (stamp[events[j]] >= page.cutoff)
      <4>1. PICK j \in 1 .. Len(events) : ~ (stamp[events[j]] >= page.cutoff)
        BY <3>3
      <4>2. f # 0 /\ f \in Files /\ events = Parsed(content[f])
        <5>1. Len(<<>>) = 0
          OBVIOUS
        <5>2. f # 0 /\ ~ HeadGarbled
          BY <1>1, <4>1, <5>1
        <5> QED BY <1>1, <5>2
      <4>3. stamp[events[j]] < stamp[s]
        <5>1. stamp[events[j]] \in Nat /\ stamp[s] \in Nat
          BY <1>4, <1>9, <1>10
        <5> QED BY <1>3, <1>4, <4>1, <5>1
      <4>4. PICK x \in 1 .. Len(page.todo) : PathOf(g) = page.todo[x]
        BY <1>8, <2>1
      <4>5. 1 \in 1 .. Len(page.todo) /\ x # 1 /\ 1 < x
        <5>1. x # 1
          BY <1>8, <2>5, <4>4
        <5> QED BY <1>8, <5>1
      <4>6. PathOf(g) # LivePath
        BY <4>4, <4>5 DEF TodoInv
      <4>7. g # live /\ PathOf(g) = g /\ g \in ToSet(rotated)
        BY <4>6 DEF PathOf, Standing
      <4>8. PICK n \in 1 .. Len(rotated) : rotated[n] = g
        BY <4>7, LogFilesAre, ToSetIs
      <4>9. \E m \in 1 .. Len(LogFiles) : LogFiles[m] = f /\ n < m
        <5>1. CASE path = LivePath
          <6>1. f = live /\ live # 0
            BY <1>1, <1>8, <4>2, <5>1, AtIs
          <6>2. n < Len(rotated) + 1
            BY LogFilesAre
          <6> QED BY <6>1, <6>2, LogFilesAre
        <5>2. CASE path # LivePath
          <6>1. f = path /\ path \in ToSet(rotated)
            BY <1>1, <1>8, <4>2, <5>2, AtIs
          <6>2. PICK m \in 1 .. Len(rotated) : rotated[m] = f
            BY <6>1, LogFilesAre, ToSetIs
          <6>3. page.todo[1] = rotated[m] /\ page.todo[x] = rotated[n]
            BY <1>8, <4>4, <4>7, <4>8, <6>1, <6>2
          <6>4. n < m
            BY <4>5, <6>3 DEF TodoInv
          <6> QED BY <6>2, <6>4, LogFilesAre
        <5> QED BY <5>1, <5>2
      <4>10. PICK m \in 1 .. Len(LogFiles) : LogFiles[m] = f /\ n < m
        BY <4>9
      <4>11. n \in 1 .. Len(LogFiles) /\ LogFiles[n] = g
        BY <4>8, LogFilesAre
      <4>12. OlderFollows(Parsed(content[LogFiles[n]])[k])
        BY <2>2, <2>3, <4>2, <4>3, <4>10, <4>11, OlderIs
      <4> QED BY <2>3, <4>11, <4>12
    <3> QED BY <3>2, <3>3
  <2> QED BY <2>4, <2>5
<1> QED BY <1>5, <1>6, <1>7, <1>11

\* What a page owes is kept by every step.
LEMMA OwedStep ==
  ASSUME TypeOK, FilesInv, LinesInv, TodoInv, OwedInv, [Next]_vars
  PROVE  OwedInv'
<1> DEFINE Held(s) == s \in ToSet(page.found) \/ OlderFollows(s) \/ Ahead(s)
           Owes == page.calm /\ Len(page.found) < page.limit => \A s \in Owed : Held(s)
<1>0. page.must \subseteq ToSet(written) /\ Owes
  BY DEF OwedInv
<1>1. ToSet(written) \subseteq ToSet(written')
  BY BeforeKept
<1>2. ASSUME NEW s \in page'.must, page'.must \subseteq page.must, s \in Owed',
             page'.for = page.for, page'.cutoff = page.cutoff
      PROVE  s \in Owed
  <2>1. stamp'[s] = stamp[s]
    BY <1>0, <1>2, StampKept
  <2> QED BY <1>2, <2>1 DEF Owed
<1>3. ASSUME page'.must = {} PROVE OwedInv'
  BY <1>3 DEF OwedInv, Owed
<1>4. ASSUME ~ PageStep PROVE OwedInv'
  <2>1. /\ page'.for = page.for /\ page'.cutoff = page.cutoff
        /\ page'.limit = page.limit /\ page'.found = page.found
        /\ page'.pc = "none" => page' = NoPage
        /\ page'.must \subseteq page.must
        /\ page'.calm => page.calm
    BY <1>4, PageKept
  <2>2. page'.must \subseteq ToSet(written')
    BY <1>0, <1>1, <2>1
  <2>3. CASE \A p \in Processes : ~ Rotate(p)
    <3>1. ASSUME page'.calm, Len(page'.found) < page'.limit, NEW s \in Owed' PROVE Held(s)'
      <4>1. s \in page'.must
        BY <3>1 DEF Owed
      <4>2. s \in Owed
        BY <1>2, <2>1, <3>1, <4>1
      <4>3. Held(s)
        BY <1>0, <2>1, <3>1, <4>2
      <4>4. OlderFollows(s) => OlderFollows(s)'
        BY <2>3, <4>1, OlderKept
      <4>5. Ahead(s) => Ahead(s)'
        BY <1>4, <2>3, <4>1, AheadKept
      <4> QED BY <2>1, <4>3, <4>4, <4>5
    <3> QED BY <2>2, <3>1 DEF OwedInv
  <2>4. CASE \E p \in Processes : Rotate(p)
    <3>1. page' = [page EXCEPT !.calm = page.pc = "none"]
      BY <2>4 DEF Rotate
    <3>2. page'.calm = (page.pc = "none") /\ page'.pc = page.pc
      BY <3>1 DEF TypeOK
    <3>3. CASE page.pc = "none"
      <4>1. page' = NoPage
        BY <2>1, <3>2, <3>3
      <4>2. page'.must = {}
        BY <4>1 DEF NoPage
      <4> QED BY <1>3, <4>2
    <3>4. CASE page.pc # "none"
      <4>1. ~ page'.calm
        BY <3>2, <3>4
      <4> QED BY <2>2, <4>1 DEF OwedInv
    <3> QED BY <3>3, <3>4
  <2> QED BY <2>3, <2>4
<1>5. ASSUME NEW v \in Viewers, ListLive(v) PROVE OwedInv'
  <2>1. page'.must \subseteq ToSet(written) /\ \A s \in page'.must : Ahead(s)'
    BY <1>5, OwedFromStart
  <2>2. \A s \in Owed' : s \in page'.must
    BY DEF Owed
  <2> QED BY <1>1, <2>1, <2>2 DEF OwedInv
<1>6. ASSUME ListRotated PROVE OwedInv'
  <2>1. /\ UNCHANGED <<page.must, page.for, page.cutoff, page.limit, page.found, page.calm>>
        /\ UNCHANGED <<content, live, rotated, stamp>>
    <3> DEFINE rest == page.todo \o Reverse(rotated)
    <3>1. page' = [page EXCEPT !.pc = "read", !.todo = rest] /\ UNCHANGED logs
      BY <1>6 DEF ListRotated
    <3> HIDE DEF rest
    <3>2. UNCHANGED <<page.must, page.for, page.cutoff, page.limit, page.found, page.calm>>
      BY <3>1 DEF TypeOK
    <3>3. UNCHANGED <<content, live, rotated, stamp>>
      BY <3>1 DEF logs
    <3> QED BY <3>2, <3>3
  <2>2. ASSUME NEW s, OlderFollows(s) PROVE OlderFollows(s)'
    <3>1. UNCHANGED <<content, live, rotated, stamp>>
      BY <2>1
    <3> QED BY <2>2, <3>1 DEF OlderFollows, LogFiles
  <2>3. \A s : Ahead(s) => Ahead(s)'
    BY <1>6, AheadListed
  <2>4. Owed' = Owed
    BY <2>1 DEF Owed
  <2> QED BY <1>0, <1>1, <2>1, <2>2, <2>3, <2>4 DEF OwedInv
<1>7. ASSUME PageDone PROVE OwedInv'
  <2>1. page'.must = {}
    BY <1>7 DEF PageDone, NoPage
  <2> QED BY <1>3, <2>1
<1>8. ASSUME ReadLog PROVE OwedInv'
  <2>1. page'.must \subseteq page.must
    BY <1>8, ReadPage
  <2>2. page'.calm /\ Len(page'.found) < page'.limit => \A s \in Owed' : Held(s)'
    BY <1>8, OwedRead
  <2> QED BY <1>0, <1>1, <2>1, <2>2 DEF OwedInv
<1> QED BY <1>4, <1>5, <1>6, <1>7, <1>8 DEF PageStep

\* The events in two sequences of messages, one behind the other.
LEMMA EventsConcat ==
  ASSUME NEW q, NEW r, NEW all, ToSet(all) = ToSet(q) \cup ToSet(r)
  PROVE  EventsIn(all) = EventsIn(q) \cup EventsIn(r)
BY DEF EventsIn

\* The watcher's cursor passes over nothing before the first rotation.
LEMMA SkippedStep ==
  ASSUME TypeOK, FilesInv, NothingSkipped, [Next]_vars
  PROVE  NothingSkipped'
<1> DEFINE Within == seen.cursor <= IF live = 0 THEN 0 ELSE Len(content[live])
           Passed == live # 0 => \A i \in 1 .. seen.cursor, v \in Viewers :
                       Owner[content[live][i][1]] \in Allowed[v] => Taken(v, content[live][i][1])
<1>0. seen.cursor \in Nat /\ seen \in [cursor : Nat, size : Nat, pc : {"sleep", "read"}]
      /\ (live = 0 \/ live \in Files) /\ 0 \notin Files
  BY DEF TypeOK, Files
<1>1. rotated' = <<>> => rotated = <<>>
  <2>1. rotated \in Seq(Files) /\ Len(rotated) \in Nat
    BY LenProperties DEF TypeOK
  <2>2. ASSUME NEW p \in Processes, Rotate(p) PROVE rotated' # <<>>
    <3>1. live \in Files /\ rotated' = Append(rotated, live)
      BY <2>2 DEF Rotate, TypeOK
    <3>2. Len(rotated') = Len(rotated) + 1
      BY <2>1, <3>1, AppendIs
    <3> QED BY <2>1, <3>2
  <2>3. ASSUME Unlink, rotated' = <<>> PROVE rotated = <<>>
    <3>1. PICK stale \in Nat : /\ (stale # 0 => stale < Len(rotated)) /\ stale <= Len(rotated)
                               /\ Len(rotated') = Len(rotated) - stale
      BY <2>3, UnlinkIs
    <3>2. Len(rotated') = 0
      BY <2>3
    <3>3. Len(rotated) = 0
      BY <2>1, <3>1, <3>2
    <3> QED BY <2>1, <3>3, EmptySeq
  <2>4. (\E p \in Processes : Rotate(p)) \/ Unlink \/ rotated' = rotated
    BY DEF Next, LogStep, Scan, TakeTime, Open, Write, WriteBegin, WriteRest, WriteFails, Tick, TickStat, TickRead, TickFails, Send,
           PageStep, ListLive, ListRotated, ReadLog, PageDone, vars, logs
  <2> QED BY <2>2, <2>3, <2>4
<1> SUFFICES ASSUME rotated' = <<>> PROVE Within' /\ Passed'
  BY DEF NothingSkipped
<1>2. Within /\ Passed
  BY <1>1 DEF NothingSkipped
<1>3. live # 0 => /\ Len(content[live]) \in Nat /\ Len(content'[live]) \in Nat
                  /\ Len(content[live]) <= Len(content'[live])
                  /\ \A i \in 1 .. Len(content[live]) : content'[live][i] = content[live][i]
  BY <1>0, Kept
<1>4. live # 0 => \A i \in 1 .. seen.cursor : i \in 1 .. Len(content[live])
  BY <1>0, <1>2, <1>3
<1>5. ASSUME live' = live, seen'.cursor \in {0, seen.cursor},
             \A v \in Viewers, s \in Scans : Owner[s] \in Allowed[v] /\ Taken(v, s) => Taken(v, s)'
      PROVE  Within' /\ Passed'
  <2>1. CASE live = 0
    BY <1>0, <1>2, <1>5, <2>1
  <2>2. CASE live # 0
    <3>1. Within'
      BY <1>0, <1>2, <1>3, <1>5, <2>2
    <3>2. ASSUME NEW i \in 1 .. seen'.cursor
          PROVE  /\ i \in 1 .. seen.cursor
                 /\ content'[live][i] = content[live][i]
                 /\ content[live][i][1] \in Scans
      <4>1. i \in 1 .. seen.cursor
        BY <1>0, <1>5
      <4>2. i \in 1 .. Len(content[live]) /\ content'[live][i] = content[live][i]
        BY <1>3, <1>4, <2>2, <4>1
      <4>3. content[live] \in Seq(Piece)
        BY <1>0, <2>2 DEF TypeOK
      <4>4. content[live][i] \in Piece
        BY <4>2, <4>3, ElementOfSeq
      <4> QED BY <4>1, <4>2, <4>4 DEF Piece
    <3>3. ASSUME NEW i \in 1 .. seen'.cursor, NEW v \in Viewers
          PROVE  (Owner[content[live][i][1]] \in Allowed[v] => Taken(v, content[live][i][1]))'
      <4> DEFINE q == content[live][i][1]
      <4>1. q \in Scans /\ q' = q
        BY <1>5, <3>2
      <4>2. Owner[q] \in Allowed[v] => Taken(v, q)
        BY <1>2, <2>2, <3>2
      <4> HIDE DEF q
      <4>4. PICK s \in Scans : s = q
        BY <4>1
      <4>5. Owner[s] \in Allowed[v] => Taken(v, s)'
        BY <1>5, <4>2, <4>4
      <4>6. q' = s
        BY <4>1, <4>4
      <4>7. Owner[q'] \in Allowed[v] => Taken(v, q)'
        BY <4>5, <4>6 DEF Taken
      <4> QED BY <4>7 DEF q, Taken
    <3> QED BY <1>5, <3>1, <3>3
  <2> QED BY <2>1, <2>2
<1>6. ASSUME NEW s \in Scans, Open(s) PROVE Within' /\ Passed'
  <2>1. UNCHANGED <<content, seen, queue, got, dropped>> /\ live' \in Files /\ (live # 0 => live' = live)
    BY <1>6, OpenIs DEF Open, streams
  <2>2. CASE live # 0
    BY <1>5, <2>1, <2>2 DEF Taken
  <2>3. CASE live = 0
    <3>1. seen'.cursor = 0
      BY <1>0, <1>2, <2>1, <2>3
    <3>2. content'[live'] \in Seq(Piece)
      BY <2>1 DEF TypeOK
    <3>3. Len(content'[live']) \in Nat
      BY <3>2, LenProperties
    <3>4. 1 .. 0 = {} /\ live' # 0
      BY <1>0, <2>1
    <3> QED BY <3>1, <3>3, <3>4
  <2> QED BY <2>2, <2>3
<1>7. ASSUME TickStat PROVE Within' /\ Passed'
  <2>1. UNCHANGED <<content, live, queue, got, dropped>>
    BY <1>7 DEF TickStat, logs
  <2>2. seen'.cursor \in {0, seen.cursor}
    BY <1>0, <1>7 DEF TickStat
  <2> QED BY <1>5, <2>1, <2>2 DEF Taken
<1>8. ASSUME TickRead PROVE Within' /\ Passed'
  <2> DEFINE news == Messages(Unread)
  <2>1. /\ UNCHANGED <<content, live, got>> /\ seen'.cursor = seen.cursor + Len(Unread)
        /\ queue' = [v \in Viewers |-> queue[v] \o Room(v, news)]
        /\ dropped' = dropped \cup {r \in Viewers \X Scans :
                        r[2] \in {Unread[i][1] : i \in 1 .. Len(Unread)} \ EventsIn(Room(r[1], news))}
    BY <1>0, <1>8 DEF TickRead, Broadcast, logs
  <2>2. /\ Unread \in Seq(Piece) /\ Len(Unread) \in Nat /\ news \in Seq(Message)
    BY UnreadIs, MessagesAre
  <2> HIDE DEF news
  <2>3. ASSUME NEW v \in Viewers
        PROVE  EventsIn(queue'[v]) = EventsIn(queue[v]) \cup EventsIn(Room(v, news))
    <3>1. queue[v] \in Seq(Message) /\ Room(v, news) \in Seq(Message)
      BY <2>2, RoomIs DEF TypeOK
    <3>2. ASSUME NEW q \in Seq(Message), NEW r \in Seq(Message) PROVE ToSet(q \o r) = ToSet(q) \cup ToSet(r)
      BY ConcatIs
    <3>3. queue'[v] = queue[v] \o Room(v, news)
      BY <2>1
    <3>4. ToSet(queue'[v]) = ToSet(queue[v]) \cup ToSet(Room(v, news))
      BY <3>1, <3>2, <3>3
    <3> QED BY <3>4, EventsConcat
  <2>4. \A v \in Viewers, s \in Scans : Taken(v, s) => Taken(v, s)'
    BY <2>1, <2>3 DEF Taken
  <2>5. CASE live = 0
    <3>1. Len(Unread) = 0
      <4>1. Unread = <<>>
        BY <2>5, UnreadIs
      <4> QED BY <4>1
    <3> QED BY <1>0, <1>5, <2>1, <2>4, <3>1
  <2>6. CASE live # 0
    <3>1. /\ \A j \in 1 .. Len(Unread) : Unread[j] = content[live][seen.cursor + j]
          /\ seen.cursor + Len(Unread) = Len(content[live])
      <4>1. seen.cursor <= Len(content[live])
        BY <1>2, <2>6
      <4> QED BY <2>6, <4>1, UnreadIs
    <3>2. Within'
      BY <1>0, <1>3, <2>1, <2>6, <3>1
    <3>3. ASSUME NEW i \in 1 .. seen'.cursor, NEW v \in Viewers, Owner[content[live][i][1]] \in Allowed[v]
          PROVE  Taken(v, content[live][i][1])'
      <4> DEFINE s == content[live][i][1]
      <4>1. s \in Scans
        <5>1. content[live] \in Seq(Piece)
          BY <1>0, <2>6 DEF TypeOK
        <5>2. i \in 1 .. Len(content[live])
          BY <2>1, <3>1
        <5>3. content[live][i] \in Piece
          BY <5>1, <5>2, ElementOfSeq
        <5> QED BY <5>3 DEF Piece
      <4>2. CASE i \in 1 .. seen.cursor
        <5>1. Taken(v, s)
          BY <1>2, <2>6, <3>3, <4>2
        <5> HIDE DEF s
        <5>2. Taken(v, s)'
          BY <2>4, <4>1, <5>1, <2>1 DEF s
        <5> QED BY <2>1, <5>2 DEF s
      <4>3. CASE i \notin 1 .. seen.cursor
        <5>1. i - seen.cursor \in 1 .. Len(Unread) /\ seen.cursor + (i - seen.cursor) = i
          BY <1>0, <2>1, <2>2, <4>3
        <5>2. Unread[i - seen.cursor][1] = s
          BY <3>1, <5>1
        <5> HIDE DEF s
        <5>3. s \in {Unread[k][1] : k \in 1 .. Len(Unread)}
          BY <5>1, <5>2
        <5>4. CASE s \in EventsIn(Room(v, news))
          BY <2>1, <2>3, <5>4 DEF Taken, s
        <5>5. CASE s \notin EventsIn(Room(v, news))
          <6>1. <<v, s>> \in dropped'
            BY <2>1, <4>1, <5>3, <5>5
          <6> QED BY <2>1, <6>1 DEF Taken, s
        <5> QED BY <5>4, <5>5
      <4> QED BY <4>2, <4>3
    <3> QED BY <2>1, <2>6, <3>2, <3>3
  <2> QED BY <2>5, <2>6
<1>9. ASSUME NEW v \in Viewers, Send(v) PROVE Within' /\ Passed'
  <2> DEFINE q == queue[v]
             e == Head(q)
  <2>1. /\ q # <<>> /\ queue' = [queue EXCEPT ![v] = Tail(q)]
        /\ got' = IF VisibleTo(v, e) THEN [got EXCEPT ![v] = Append(got[v], e)] ELSE got
        /\ UNCHANGED <<content, live, seen, dropped>>
    BY <1>9 DEF Send, logs
  <2>2. q \in Seq(Message) /\ got[v] \in Seq(Message)
    BY DEF TypeOK
  <2>3. ToSet(q) = {e} \cup ToSet(Tail(q)) /\ e \in Message
    <3>1. Head(q) \in Message
      BY <2>1, <2>2, HeadTailProperties
    <3> QED BY <2>1, <2>2, <3>1, TailIs
  <2>4. ToSet(Append(got[v], e)) = ToSet(got[v]) \cup {e}
    BY <2>2, <2>3, AppendIs
  <2> HIDE DEF q, e
  <2>5. ASSUME NEW w \in Viewers, NEW s \in Scans, Owner[s] \in Allowed[w], Taken(w, s) PROVE Taken(w, s)'
    <3>1. CASE w # v
      <4>1. got'[w] = got[w] /\ queue'[w] = queue[w]
        BY <2>1, <3>1 DEF TypeOK
      <4> QED BY <2>1, <2>5, <4>1 DEF Taken
    <3>2. CASE w = v
      <4>1. queue'[v] = Tail(q) /\ queue[v] = q
        BY <2>1 DEF TypeOK, q
      <4>2. CASE e.whole /\ e.scan = s
        <5>1. VisibleTo(v, e)
          BY <2>5, <3>2, <4>2 DEF VisibleTo
        <5>2. got'[v] = Append(got[v], e)
          BY <2>1, <5>1 DEF TypeOK
        <5>3. s \in EventsIn(got'[v])
          BY <2>4, <4>2, <5>2 DEF EventsIn
        <5> QED BY <3>2, <5>3 DEF Taken
      <4>3. CASE ~ (e.whole /\ e.scan = s)
        <5>1. got'[v] = got[v] \/ got'[v] = Append(got[v], e)
          BY <2>1 DEF TypeOK
        <5>2. ToSet(got[v]) \subseteq ToSet(got'[v])
          BY <2>4, <5>1
        <5>3. EventsIn(got[v]) \subseteq EventsIn(got'[v])
          BY <5>2 DEF EventsIn
        <5>4. s \in EventsIn(q) => s \in EventsIn(Tail(q))
          BY <2>3, <4>3 DEF EventsIn
        <5> QED BY <2>1, <2>5, <3>2, <4>1, <5>3, <5>4 DEF Taken
      <4> QED BY <4>2, <4>3
    <3> QED BY <3>1, <3>2
  <2> QED BY <1>5, <2>1, <2>5
<1>10. ASSUME UNCHANGED <<live, seen.cursor, queue, got, dropped>> PROVE Within' /\ Passed'
  BY <1>5, <1>10 DEF Taken
<1>11. \/ \E s \in Scans : Open(s)
       \/ \E p \in Processes : Rotate(p)
       \/ TickStat \/ TickRead
       \/ \E v \in Viewers : Send(v)
       \/ UNCHANGED <<live, seen.cursor, queue, got, dropped>>
  <2>1. ASSUME TickFails PROVE UNCHANGED <<live, seen.cursor, queue, got, dropped>>
    BY <1>0, <2>1 DEF TickFails, logs
  <2>2. \/ \E s \in Scans : Open(s)
        \/ \E p \in Processes : Rotate(p)
        \/ TickStat \/ TickRead \/ TickFails
        \/ \E v \in Viewers : Send(v)
        \/ UNCHANGED <<live, seen, queue, got, dropped>>
    BY DEF Next, LogStep, Scan, TakeTime, Write, WriteBegin, WriteRest, WriteFails, Unlink, Tick,
           PageStep, ListLive, ListRotated, ReadLog, PageDone, vars, logs, streams
  <2> QED BY <2>1, <2>2
<1>12. ASSUME NEW p \in Processes, Rotate(p) PROVE FALSE
  <2>1. live \in Files /\ rotated' = Append(rotated, live) /\ rotated \in Seq(Files)
    BY <1>12 DEF Rotate, TypeOK
  <2>2. Len(rotated') = Len(rotated) + 1 /\ Len(rotated) \in Nat
    BY <2>1, AppendIs
  <2> QED BY <2>2
<1> QED BY <1>6, <1>7, <1>8, <1>9, <1>10, <1>11, <1>12

LEMMA InitInv == Init => IInv
<1> SUFFICES ASSUME Init PROVE IInv
  OBVIOUS
<1>1. /\ ToSet(<<>>) = {} /\ IsInjective(<<>>) /\ Len(<<>>) = 0 /\ <<>> \in Seq({}) /\ \A S : <<>> \in Seq(S)
  BY EmptySeq DEF ToSet, IsInjective
<1>2. /\ written = <<>> /\ rotated = <<>> /\ live = 0
      /\ \A f \in Files : content[f] = <<>>
      /\ \A v \in Viewers : queue[v] = <<>> /\ got[v] = <<>>
      /\ page = NoPage
  BY DEF Init
<1>3. NoPage.todo = <<>> /\ NoPage.found = <<>> /\ NoPage.must = {} /\ NoPage.limit = 0 /\ NoPage.pc = "none"
  BY DEF NoPage
<1>4. TypeOK
  <2>1. page \in [pc : {"none", "list", "read"}, for : SUBSET {Owner[s] : s \in Scans}, cutoff : Nat, limit : Nat,
                  todo : Seq(Files \cup {LivePath}), found : Seq(Scans), must : SUBSET Scans, calm : BOOLEAN]
    BY <1>1, <1>2 DEF NoPage
  <2>2. /\ written \in Seq(Scans) /\ rotated \in Seq(Files) /\ live \in Files \cup {0}
        /\ content \in [Files -> Seq(Piece)]
        /\ queue \in [Viewers -> Seq(Message)] /\ got \in [Viewers -> Seq(Message)]
    BY <1>1 DEF Init
  <2> QED BY <2>1, <2>2 DEF Init, TypeOK
<1>5. FilesInv
  BY <1>1, <1>2 DEF FilesInv, Init
<1>6. LinesInv
  <2>1. \A f \in Files : 1 .. Len(content[f]) = {}
    BY <1>1, <1>2
  <2> QED BY <1>1, <1>2, <2>1 DEF LinesInv
<1>7. StreamInv
  BY <1>1, <1>2 DEF StreamInv, Ordered
<1>8. TodoInv
  BY <1>1, <1>2, <1>3 DEF TodoInv
<1>9. FoundInv
  BY <1>1, <1>2, <1>3 DEF FoundInv
<1>10. OwedInv
  BY <1>2, <1>3 DEF OwedInv, Owed
<1> QED BY <1>4, <1>5, <1>6, <1>7, <1>8, <1>9, <1>10 DEF IInv

\* The invariant the properties of the logs rest on: each log has one name at
\* most; a line that is complete lies in one log, in the order in which the
\* lines were completed; what was sent was completed before everything the
\* watcher has still to read; and what a page owes is in a log it has still to
\* read, or was followed by an older event.
THEOREM LogInvariant == Spec => []IInv
<1>1. Init => IInv
  BY InitInv
<1>2. IInv /\ [Next]_vars => IInv'
  <2> SUFFICES ASSUME IInv, [Next]_vars PROVE IInv'
    OBVIOUS
  <2> USE DEF IInv
  <2>1. TypeOK'
    BY TypeStep
  <2>2. FilesInv'
    BY FilesStep
  <2>3. LinesInv'
    BY LinesStep
  <2>4. StreamInv'
    BY StreamStep
  <2>5. TodoInv'
    BY TodoStep
  <2>6. FoundInv'
    BY FoundStep
  <2>7. OwedInv'
    BY OwedStep
  <2> QED BY <2>1, <2>2, <2>3, <2>4, <2>5, <2>6, <2>7
<1> QED BY <1>1, <1>2, PTL DEF Spec

\* A page is sent the lines in the order in which they were completed and none
\* of them twice, however many logs are renamed or deleted under the watcher;
\* what ends no line is in nobody's order, and only an administrator's page is
\* sent it: any other is sent lines that can be parsed and are its accounts'
\* (broadcast, _stream and _visible_to of web/sse.py).
THEOREM StreamsOrdered == Spec => []StreamInOrder
<1>1. IInv => StreamInOrder
  <2> SUFFICES ASSUME IInv, NEW v \in Viewers
               PROVE  LET sent == got[v] \o queue[v]
                          At_(s) == CHOOSE i \in 1 .. Len(written) : written[i] = s
                      IN  /\ \A i \in 1 .. Len(sent) : sent[i].whole => sent[i].part = 2
                          /\ \A i \in 1 .. Len(sent) : sent[i].part = 2 => sent[i].scan \in ToSet(written)
                          /\ \A i, k \in 1 .. Len(sent) :
                               i < k /\ sent[i].part = 2 /\ sent[k].part = 2
                                 => At_(sent[i].scan) < At_(sent[k].scan)
                          /\ v \notin Unrestricted => \A m \in ToSet(got[v]) : m.whole /\ Owner[m.scan] \in Allowed[v]
    BY DEF StreamInOrder
  <2> DEFINE sent == got[v] \o queue[v]
             At_(s) == CHOOSE i \in 1 .. Len(written) : written[i] = s
  <2>1. got[v] \in Seq(Message) /\ queue[v] \in Seq(Message)
    BY DEF IInv, TypeOK
  <2>2. /\ \A m \in ToSet(got[v]) \cup ToSet(queue[v]) : m.part = 2 => m.scan \in ToSet(written)
        /\ \A m \in ToSet(got[v]) \cup ToSet(queue[v]) : m.whole => m.part = 2
        /\ Ordered(got[v]) /\ Ordered(queue[v])
        /\ \A m \in ToSet(got[v]), n \in ToSet(queue[v]) : Follows(n, m)
        /\ v \notin Unrestricted => \A m \in ToSet(got[v]) : m.whole /\ Owner[m.scan] \in Allowed[v]
    BY DEF IInv, StreamInv
  <2>3. /\ Ordered(sent) /\ ToSet(sent) = ToSet(got[v]) \cup ToSet(queue[v])
        /\ \A i \in 1 .. Len(sent) : sent[i] \in ToSet(sent)
    <3>1. ASSUME NEW q \in Seq(Message), NEW r \in Seq(Message), Ordered(q), Ordered(r),
                 \A x \in ToSet(q), y \in ToSet(r) : Follows(y, x)
          PROVE  Ordered(q \o r) /\ q \o r \in Seq(Message) /\ ToSet(q \o r) = ToSet(q) \cup ToSet(r)
      BY <3>1, OrderedConcat
    <3>2. Ordered(sent) /\ sent \in Seq(Message) /\ ToSet(sent) = ToSet(got[v]) \cup ToSet(queue[v])
      BY <2>1, <2>2, <3>1
    <3> HIDE DEF sent
    <3>3. ToSet(sent) = {sent[i] : i \in 1 .. Len(sent)}
      BY <3>2, ToSetIs
    <3> QED BY <3>2, <3>3
  <2>4. IsInjective(written) /\ DOMAIN written = 1 .. Len(written)
    BY ToSetIs DEF IInv, TypeOK, LinesInv
  <2>5. ASSUME NEW i \in 1 .. Len(written) PROVE At_(written[i]) = i
    BY <2>4, <2>5 DEF IsInjective
  <2> HIDE DEF sent
  <2>6. ASSUME NEW i \in 1 .. Len(sent), NEW k \in 1 .. Len(sent), i < k, sent[i].part = 2, sent[k].part = 2
        PROVE  At_(sent[i].scan) < At_(sent[k].scan)
    <3>1. Before(sent[i].scan, sent[k].scan)
      BY <2>3, <2>6 DEF Ordered, Follows
    <3>2. PICK a \in 1 .. Len(written), b \in 1 .. Len(written) :
            a < b /\ written[a] = sent[i].scan /\ written[b] = sent[k].scan
      BY <3>1 DEF Before
    <3>3. At_(written[a]) = a /\ At_(written[b]) = b
      BY <2>5
    <3> QED BY <3>2, <3>3
  <2>7. \A i \in 1 .. Len(sent) :
          /\ sent[i].whole => sent[i].part = 2
          /\ sent[i].part = 2 => sent[i].scan \in ToSet(written)
    BY <2>2, <2>3
  <2> QED BY <2>2, <2>6, <2>7 DEF sent
<1> QED BY <1>1, LogInvariant, PTL

\* A page lists no event twice, and what it misses although no rotation fell
\* into its reading and its limit is not reached was followed by an older
\* event or lies in a log that could not be decoded when the page read it, from
\* which nothing is taken (read_events and _load_parsed of web/services/events.py).
THEOREM PagesWhole == Spec => []PageIsWhole
<1>1. IInv => PageIsWhole
  <2> SUFFICES ASSUME IInv PROVE PageIsWhole
    OBVIOUS
  <2>1. IsInjective(page.found)
    BY DEF IInv, FoundInv
  <2>2. ASSUME NEW s \in Missed PROVE OlderFollows(s)
    <3>1. /\ page.pc = "read" /\ page.todo = <<>> /\ page.calm /\ Len(page.found) < page.limit
          /\ s \in Owed /\ s \notin ToSet(page.found)
      BY <2>2 DEF Missed, PageFinished
    <3>2. OlderFollows(s) \/ Ahead(s)
      BY <3>1 DEF IInv, OwedInv
    <3>3. ToSet(page.todo) = {}
      BY <3>1 DEF ToSet
    <3>4. ~ Ahead(s)
      BY <3>1, <3>3 DEF Ahead
    <3> QED BY <3>2, <3>4
  <2> QED BY <2>1, <2>2 DEF PageIsWhole
<1> QED BY <1>1, LogInvariant, PTL

\* Until the first rotation every piece of a line under the watcher's cursor
\* was queued for each page that may see it, unless its queue was full or the
\* line was read in two pieces, also after a poll that could not decode what it
\* read: what StreamDelivers needs besides fairness.
THEOREM CursorSkipsNothing == Spec => []NothingSkipped
<1>1. Init => NothingSkipped
  BY DEF Init, NothingSkipped
<1>2. IInv /\ NothingSkipped /\ [Next]_vars => NothingSkipped'
  BY SkippedStep DEF IInv
<1> QED BY <1>1, <1>2, LogInvariant, PTL DEF Spec

=============================================================================
