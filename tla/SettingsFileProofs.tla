------------------------- MODULE SettingsFileProofs -------------------------
(***************************************************************************)
(* IInv of SettingsFile is inductive, for any threads, sizes, plans and    *)
(* bounds; a cached read is therefore never older than the call, and a     *)
(* save never takes back another save.  The heart of the argument: a key   *)
(* was the file's before the text was read, so a later version under the   *)
(* same key makes the key a twin.                                          *)
(***************************************************************************)
EXTENDS SettingsFile, TLAPS

\* The history only grows, and keys and contents of old versions stay.
Grows == /\ hist \in Seq(Entry) /\ hist' \in Seq(Entry)
         /\ Now \in Nat /\ Now' \in Nat /\ Now <= Now'
         /\ \A n \in 1..Now : hist'[n] = hist[n]

\* An unchanged history, or one version more, is a grown one.
LEMMA SameHistory == ASSUME TypeOK, UNCHANGED hist PROVE Grows
  BY DEF TypeOK, Grows, Now, Version

LEMMA NewVersion ==
  ASSUME TypeOK, NEW c \in Contents, NEW by \in {"hand", "console"}, Replace(c, by), tick \in 0..MaxTick
  PROVE  /\ Grows /\ Now' = Now + 1 /\ Now' \in Version
         /\ hist'[Now + 1].content = c /\ hist'[Now + 1].by = by
<1>1. PICK s \in Sizes : hist' = Append(hist, [key |-> <<tick, s>>, content |-> c, by |-> by])
  BY DEF Replace
<1>2. [key |-> <<tick, s>>, content |-> c, by |-> by] \in Entry
  BY DEF Entry, Stamp
<1>3. hist \in Seq(Entry) /\ Now \in Nat /\ Now < MaxVersions /\ MaxVersions \in Nat
  BY BoundsAssumption DEF TypeOK, Version, Now, Replace
<1>4. /\ hist' \in Seq(Entry) /\ Now' = Now + 1
      /\ \A n \in 1..Now : hist'[n] = hist[n]
      /\ hist'[Now + 1] = [key |-> <<tick, s>>, content |-> c, by |-> by]
  BY <1>1, <1>2, <1>3 DEF Now
<1>5. Now' \in Version
  BY <1>3, <1>4 DEF Version
<1> QED BY <1>3, <1>4, <1>5 DEF Grows

\* A twin stays a twin.
LEMMA TwinStays == ASSUME Grows, NEW k, Twin(k) PROVE Twin(k)'
<1>1. PICK m \in 1..Now, n \in 1..Now : m # n /\ KeyOf(m) = k /\ KeyOf(n) = k
  BY DEF Twin
<1>2. m \in 1..Now' /\ n \in 1..Now'
  BY DEF Grows
<1>3. hist'[m] = hist[m] /\ hist'[n] = hist[n]
  BY DEF Grows
<1> QED BY <1>1, <1>2, <1>3 DEF Twin, KeyOf

\* What fitted a key still does: a new version under the key makes it a twin.
LEMMA FitsStays == ASSUME Grows, NEW k, NEW v \in Nat, Fits(k, v) PROVE Fits(k, v)'
<1>1. PICK m \in 1..Now : KeyOf(m) = k
  BY DEF Fits
<1>2. m \in 1..Now' /\ KeyOf(m)' = k
  BY <1>1 DEF Grows, KeyOf
<1>3. ASSUME NEW n \in 1..Now', KeyOf(n)' = k PROVE n <= v \/ Twin(k)'
  <2>1. CASE n \in 1..Now
    <3>1. KeyOf(n) = k
      BY <1>3, <2>1 DEF Grows, KeyOf
    <3>2. n <= v \/ Twin(k)
      BY <3>1, <2>1 DEF Fits
    <3> QED BY <3>2, TwinStays
  <2>2. CASE n \notin 1..Now
    <3>1. m # n
      BY <2>2
    <3> QED BY <1>2, <1>3, <3>1 DEF Twin
  <2> QED BY <2>1, <2>2
<1>4. v <= Now'
  BY DEF Fits, Grows
<1> QED BY <1>2, <1>3, <1>4 DEF Fits

-----------------------------------------------------------------------------
\* A reader that does not move stays sound while the file grows.
LEMMA ReaderStays ==
  ASSUME TypeOK, Grows, NEW r \in Threads, ReaderOK(r), reader'[r] = reader[r]
  PROVE  ReaderOK(r)'
<1>0. reader[r] \in Reading
  BY DEF TypeOK
<1>1. reader[r].from \in Nat /\ reader[r].ver \in Nat
  BY <1>0 DEF Reading
<1>2. reader[r].pc \in {"read", "check", "store", "done"}
        => reader[r].from \in 1..Now' /\ reader[r].ver <= Now'
  BY <1>1 DEF ReaderOK, Grows
<1>3. KeySeen(r) => KeySeen(r)'
  <2> SUFFICES ASSUME KeySeen(r) PROVE KeySeen(r)'
    OBVIOUS
  <2>1. PICK m \in 1..Now : /\ reader[r].from <= m /\ KeyOf(m) = reader[r].key
                            /\ reader[r].pc # "read" => m <= reader[r].ver
    BY DEF KeySeen
  <2>2. m \in 1..Now' /\ KeyOf(m)' = KeyOf(m)
    BY DEF Grows, KeyOf
  <2> QED BY <2>1, <2>2 DEF KeySeen
<1>4. Fits(reader[r].key, reader[r].ver) => Fits(reader[r].key, reader[r].ver)'
  <2> SUFFICES ASSUME Fits(reader[r].key, reader[r].ver)
               PROVE  Fits(reader[r].key, reader[r].ver)'
    OBVIOUS
  <2>1. PICK k, v : k = reader[r].key /\ v = reader[r].ver
    OBVIOUS
  <2>2. Fits(k, v)'
    BY <1>1, <2>1, FitsStays
  <2>3. reader'[r].key = k /\ reader'[r].ver = v
    BY <2>1
  <2> QED BY <2>2, <2>3 DEF Fits, Twin
<1>5. reader[r].pc = "done" => reader[r].ver >= reader[r].from \/ Twin(KeyOf(reader[r].from))'
  <2> SUFFICES ASSUME reader[r].pc = "done", Twin(KeyOf(reader[r].from))
               PROVE  Twin(KeyOf(reader[r].from))'
    BY DEF ReaderOK
  <2>1. PICK k : k = KeyOf(reader[r].from)
    OBVIOUS
  <2>2. KeyOf(reader[r].from)' = k
    BY <2>1 DEF Grows, KeyOf, ReaderOK
  <2>3. Twin(k)'
    BY <2>1, TwinStays
  <2> QED BY <2>2, <2>3 DEF Twin
<1> QED BY <1>2, <1>3, <1>4, <1>5 DEF ReaderOK

LEMMA CacheStays == ASSUME TypeOK, Grows, CacheOK, UNCHANGED cache PROVE CacheOK'
<1>1. SUFFICES ASSUME NEW c \in cache PROVE Fits(c.key, c.ver)'
  <2>1. \A c, d \in cache' : c = d
    BY DEF CacheOK
  <2>2. ASSUME NEW c \in cache' PROVE Fits(c.key, c.ver)'
    <3>1. c \in cache
      OBVIOUS
    <3> QED BY <1>1, <3>1
  <2> QED BY <2>1, <2>2 DEF CacheOK
<1>2. PICK k, v : k = c.key /\ v = c.ver
  OBVIOUS
<1>3. v \in Nat /\ Fits(k, v)
  BY <1>2 DEF TypeOK, CacheOK
<1> QED BY <1>2, <1>3, FitsStays

\* A save that does not move is disturbed only by another save's version.
LEMMA EditorStays ==
  ASSUME TypeOK, Grows, NEW e \in Threads, EditorOK(e), editor'[e] = editor[e],
         e \in lock => e \in lock',
         editor[e].pc = "write" => \A n \in 1..Now' : n > Now => hist'[n].by = "hand"
  PROVE  EditorOK(e)'
<1>1. editor[e].pc # "idle" => e \in lock'
  BY DEF EditorOK
<1>2. SUFFICES ASSUME editor[e].pc = "write"
               PROVE  /\ editor[e].base \in 1..Now'
                      /\ hist'[editor[e].base].content.ok
                      /\ \A n \in 1..Now' : editor[e].base < n => hist'[n].by = "hand"
  BY <1>1 DEF EditorOK
<1>3. editor[e].base \in 1..Now /\ hist[editor[e].base].content.ok
  BY <1>2 DEF EditorOK
<1>4. ASSUME NEW n \in 1..Now', editor[e].base < n PROVE hist'[n].by = "hand"
  <2>1. CASE n \in 1..Now
    BY <1>2, <1>4, <2>1 DEF EditorOK, Grows
  <2>2. CASE n \notin 1..Now
    <3>1. n > Now
      BY <2>2 DEF Grows
    <3> QED BY <1>2, <3>1
  <2> QED BY <2>1, <2>2
<1> QED BY <1>3, <1>4 DEF Grows

-----------------------------------------------------------------------------
\* The initial states satisfy the invariant.
LEMMA InitIInv == Init => IInv
<1> SUFFICES ASSUME Init PROVE IInv
  OBVIOUS
<1>1. PICK c \in HandContents, s \in Sizes : hist = <<[key |-> <<0, s>>, content |-> c, by |-> "hand"]>>
  BY DEF Init
<1>2. [key |-> <<0, s>>, content |-> c, by |-> "hand"] \in Entry
  BY HandAssumption, BoundsAssumption DEF Entry, Stamp
<1>3. hist \in Seq(Entry) /\ Now = 1
  BY <1>1, <1>2 DEF Now
<1>4. TypeOK
  <2>1. NoReader \in Reading /\ [NoReader EXCEPT !.pc = "absent"] \in Reading
    BY DEF NoReader, Reading
  <2>2. reader \in [Threads -> Reading]
    <3>1. PICK off \in SUBSET Threads :
             reader = [r \in Threads |-> IF r \in off THEN [NoReader EXCEPT !.pc = "absent"] ELSE NoReader]
      BY DEF Init
    <3> QED BY <2>1, <3>1
  <2>3. editor \in [Threads -> Saving]
    BY DEF Init, NoEditor, Saving
  <2>4. watch \in Watching
    BY PlansAssumption DEF Init, DaemonDown, Watching
  <2>5. Now \in Version
    BY <1>3, BoundsAssumption DEF Version
  <2> QED BY <1>3, <2>2, <2>3, <2>4, <2>5, BoundsAssumption DEF Init, TypeOK
<1>5. ASSUME NEW r \in Threads PROVE ReaderOK(r)
  BY DEF Init, ReaderOK, NoReader
<1>6. ASSUME NEW e \in Threads PROVE EditorOK(e)
  BY DEF Init, EditorOK, NoEditor
<1> QED BY <1>4, <1>5, <1>6 DEF Init, IInv, CacheOK

\* Steps that touch neither file, cache, readers nor saves.
LEMMA OtherStep ==
  ASSUME IInv, UNCHANGED <<hist, cache, reader, editor, lock>>, TypeOK' PROVE IInv'
<1>1. Grows
  BY SameHistory DEF IInv
<1>2. CacheOK'
  BY <1>1, CacheStays DEF IInv
<1>3. \A r \in Threads : ReaderOK(r)'
  BY <1>1, ReaderStays DEF IInv
<1>4. ASSUME NEW e \in Threads PROVE EditorOK(e)'
  <2>1. EditorOK(e)
    BY DEF IInv
  <2>2. Now' = Now /\ Now \in Nat
    BY <1>1 DEF Now, Grows
  <2>3. \A n \in 1..Now' : n > Now => hist'[n].by = "hand"
    BY <2>2
  <2>4. TypeOK
    BY DEF IInv
  <2> QED BY <1>1, <2>1, <2>3, <2>4, EditorStays
<1> QED BY <1>2, <1>3, <1>4 DEF IInv

-----------------------------------------------------------------------------
\* A step of one reader keeps the others, and itself if its new state is sound.
LEMMA ReaderStepPreserves == ASSUME IInv, NEW r \in Threads, ReaderStep(r) PROVE IInv'
<1>0. TypeOK /\ CacheOK /\ ReaderOK(r) /\ reader[r] \in Reading /\ reader \in [Threads -> Reading]
  BY DEF IInv, TypeOK
<1>1. UNCHANGED <<hist, tick, style, editor, lock, watch, deaths>>
  BY DEF ReaderStep, Stat, ReadText, Check, Store, Return
<1>2. Grows /\ Now' = Now /\ Now \in Nat /\ Now > 0
  BY <1>0, <1>1, SameHistory DEF Now, Grows, TypeOK, Version
<1>3. PICK x : reader' = [reader EXCEPT ![r] = x]
  BY DEF ReaderStep, Stat, ReadText, Check, Store, Return
<1>4. Current.key \in Stamp /\ \A n \in 1..Now : KeyOf(n) \in Stamp
  <2>1. \A n \in 1..Now : hist[n] \in Entry
    BY <1>0 DEF TypeOK, Now
  <2> QED BY <1>2, <2>1 DEF Current, KeyOf, Entry
<1>5. reader'[r] = x
  BY <1>0, <1>3 DEF TypeOK
<1>6. x \in Reading /\ ReaderOK(r)' /\ cache' \subseteq [key : Stamp, ver : Nat] /\ CacheOK'
  <2>1. CASE Stat(r)
    <3>1. CacheOK' /\ cache' \subseteq [key : Stamp, ver : Nat]
      BY <1>0, <1>2, <2>1, CacheStays DEF Stat, TypeOK
    <3>2. CASE Hit(Current.key)
      <4>1. PICK c \in cache : c.key = Current.key
        BY <3>2 DEF Hit
      <4>2. (CHOOSE d \in cache : TRUE) = c
        BY <1>0, <4>1 DEF CacheOK
      <4>3. x = Done(c.ver, Now)
        BY <1>0, <1>3, <1>5, <2>1, <3>2, <4>2 DEF Stat
      <4>4. Fits(c.key, c.ver) /\ c.ver \in Nat
        BY <1>0 DEF CacheOK, TypeOK
      <4>5. Now \in 1..Now /\ KeyOf(Now) = c.key
        BY <1>2, <4>1 DEF KeyOf, Current
      <4>6. c.ver <= Now /\ (Now <= c.ver \/ Twin(KeyOf(Now)))
        BY <4>4, <4>5 DEF Fits
      <4>7. x \in Reading
        BY <1>2, <4>3, <4>4 DEF Done, Reading
      <4>8. ReaderOK(r)'
        BY <1>1, <1>2, <1>5, <4>3, <4>4, <4>6 DEF Done, ReaderOK, Twin, KeyOf
      <4> QED BY <3>1, <4>7, <4>8
    <3>3. CASE ~Hit(Current.key)
      <4>1. x = [pc |-> "read", key |-> Current.key, ver |-> 0, tries |-> 0, from |-> Now]
        BY <1>0, <1>3, <1>5, <2>1, <3>3 DEF Stat
      <4>2. x \in Reading
        BY <1>2, <1>4, <4>1 DEF Reading
      <4>3. KeySeen(r)'
        BY <1>1, <1>2, <1>5, <4>1 DEF KeySeen, KeyOf, Current
      <4>4. ReaderOK(r)'
        BY <1>2, <1>5, <4>1, <4>3 DEF ReaderOK
      <4> QED BY <3>1, <4>2, <4>4
    <3> QED BY <3>2, <3>3
  <2>2. CASE ReadText(r)
    <3>1. CacheOK' /\ cache' \subseteq [key : Stamp, ver : Nat]
      BY <1>0, <1>2, <2>2, CacheStays DEF ReadText, TypeOK
    <3>2. /\ x.pc \in {"check", "store"} /\ x.ver = Now
          /\ x.key = reader[r].key /\ x.from = reader[r].from /\ x \in Reading
      <4>1. x = IF style = "bracketed" THEN [reader[r] EXCEPT !.pc = "check", !.ver = Now,
                                                             !.tries = reader[r].tries + 1]
                                       ELSE [reader[r] EXCEPT !.pc = "store", !.ver = Now]
        BY <1>0, <1>3, <1>5, <2>2 DEF ReadText
      <4>2. reader[r].tries + 1 \in Nat
        BY <1>0 DEF Reading
      <4> QED BY <1>0, <1>2, <4>1, <4>2 DEF Reading
    <3>3. PICK m \in 1..Now : reader[r].from <= m /\ KeyOf(m) = reader[r].key
      BY <1>0, <2>2 DEF ReadText, ReaderOK, KeySeen
    <3>4. KeySeen(r)'
      BY <1>1, <1>2, <1>5, <3>2, <3>3 DEF KeySeen, KeyOf
    <3>5. Fits(reader[r].key, reader[r].ver)'
      BY <1>1, <1>2, <1>5, <3>2, <3>3 DEF Fits, KeyOf
    <3>6. reader[r].from \in 1..Now
      BY <1>0, <2>2 DEF ReadText, ReaderOK
    <3> QED BY <1>2, <1>5, <3>1, <3>2, <3>4, <3>5, <3>6 DEF ReaderOK
  <2>3. CASE Check(r)
    <3>1. CacheOK' /\ cache' \subseteq [key : Stamp, ver : Nat]
      BY <1>0, <1>2, <2>3, CacheStays DEF Check, TypeOK
    <3>2. PICK m \in 1..Now : /\ reader[r].from <= m /\ KeyOf(m) = reader[r].key
                              /\ m <= reader[r].ver
      BY <1>0, <2>3 DEF Check, ReaderOK, KeySeen
    <3>3. reader[r].from \in 1..Now /\ reader[r].ver \in Nat /\ reader[r].ver <= Now
      BY <1>0, <2>3 DEF Check, ReaderOK, Reading
    <3>4. CASE Current.key = reader[r].key
      <4>1. /\ x.pc = "store" /\ x.key = reader[r].key /\ x.ver = reader[r].ver
            /\ x.from = reader[r].from /\ x \in Reading
        <5>1. x = [reader[r] EXCEPT !.pc = "store", !.tries = 0]
          BY <1>0, <1>3, <1>5, <2>3, <3>4 DEF Check
        <5> QED BY <1>0, <5>1 DEF Reading
      <4>2. KeyOf(Now) = reader[r].key
        BY <3>4 DEF KeyOf, Current
      <4>3. ASSUME NEW n \in 1..Now, KeyOf(n) = reader[r].key, n > reader[r].ver
            PROVE  Twin(reader[r].key)
        BY <3>2, <3>3, <4>3 DEF Twin
      <4>4. Fits(reader[r].key, reader[r].ver)
        BY <1>2, <3>2, <3>3, <4>3 DEF Fits
      <4>5. Fits(reader[r].key, reader[r].ver)'
        BY <1>1, <1>2, <1>5, <4>1, <4>4 DEF Fits, Twin, KeyOf
      <4>6. KeySeen(r)'
        BY <1>1, <1>2, <1>5, <3>2, <4>1 DEF KeySeen, KeyOf
      <4> QED BY <1>2, <1>5, <3>1, <3>3, <4>1, <4>5, <4>6 DEF ReaderOK
    <3>5. CASE Current.key # reader[r].key /\ reader[r].tries = Attempts
      <4>1. x = Done(reader[r].ver, reader[r].from)
        BY <1>0, <1>3, <1>5, <2>3, <3>5 DEF Check
      <4>2. reader[r].ver >= reader[r].from
        BY <3>2, <3>3
      <4>3. x \in Reading
        BY <3>3, <4>1 DEF Done, Reading
      <4> QED BY <1>2, <1>5, <3>1, <3>3, <4>1, <4>2, <4>3 DEF ReaderOK, Done
    <3>6. CASE Current.key # reader[r].key /\ reader[r].tries # Attempts
      <4>1. /\ x.pc = "read" /\ x.key = Current.key /\ x.ver = reader[r].ver
            /\ x.from = reader[r].from /\ x \in Reading
        <5>1. x = [reader[r] EXCEPT !.pc = "read", !.key = Current.key]
          BY <1>0, <1>3, <1>5, <2>3, <3>6 DEF Check
        <5> QED BY <1>0, <1>4, <5>1 DEF Reading
      <4>2. KeyOf(Now) = x.key /\ x.from <= Now
        BY <1>2, <3>3, <4>1 DEF KeyOf, Current
      <4>3. KeySeen(r)'
        BY <1>1, <1>2, <1>5, <4>1, <4>2 DEF KeySeen, KeyOf
      <4> QED BY <1>2, <1>5, <3>1, <3>3, <4>1, <4>3 DEF ReaderOK
    <3> QED BY <3>4, <3>5, <3>6
  <2>4. CASE Store(r)
    <3>1. x = Done(reader[r].ver, reader[r].from) /\ cache' = {[key |-> reader[r].key, ver |-> reader[r].ver]}
      BY <1>0, <1>3, <1>5, <2>4 DEF Store
    <3>2. PICK m \in 1..Now : reader[r].from <= m /\ KeyOf(m) = reader[r].key /\ m <= reader[r].ver
      BY <1>0, <2>4 DEF Store, ReaderOK, KeySeen
    <3>3. /\ reader[r].from \in 1..Now /\ reader[r].ver \in Nat /\ reader[r].ver <= Now
          /\ Fits(reader[r].key, reader[r].ver)
      BY <1>0, <2>4 DEF Store, ReaderOK, Reading
    <3>4. reader[r].key \in Stamp
      BY <1>4, <3>2
    <3>5. CacheOK'
      BY <1>1, <1>2, <3>1, <3>3 DEF CacheOK, Fits, Twin, KeyOf
    <3>6. x \in Reading
      BY <3>1, <3>3 DEF Done, Reading
    <3>7. reader[r].ver >= reader[r].from
      BY <3>2, <3>3
    <3> QED BY <1>2, <1>5, <3>1, <3>3, <3>4, <3>5, <3>6, <3>7 DEF ReaderOK, Done
  <2>5. CASE Return(r)
    <3>1. x = NoReader /\ CacheOK' /\ cache' \subseteq [key : Stamp, ver : Nat]
      BY <1>0, <1>2, <1>3, <1>5, <2>5, CacheStays DEF Return, TypeOK
    <3>2. x \in Reading
      BY <3>1 DEF NoReader, Reading
    <3> QED BY <1>5, <3>1, <3>2 DEF ReaderOK, NoReader
  <2> QED BY <2>1, <2>2, <2>3, <2>4, <2>5 DEF ReaderStep
<1>7. TypeOK'
  BY <1>0, <1>1, <1>2, <1>3, <1>6 DEF TypeOK
<1>8. ASSUME NEW q \in Threads PROVE ReaderOK(q)'
  <2>1. CASE q = r
    BY <1>6, <2>1
  <2>2. CASE q # r
    <3>1. reader'[q] = reader[q] /\ ReaderOK(q)
      BY <1>0, <1>3, <2>2 DEF TypeOK, IInv
    <3> QED BY <1>0, <1>2, <3>1, ReaderStays
  <2> QED BY <2>1, <2>2
<1>9. ASSUME NEW e \in Threads PROVE EditorOK(e)'
  <2>1. EditorOK(e)
    BY DEF IInv
  <2>2. \A n \in 1..Now' : n > Now => hist'[n].by = "hand"
    BY <1>2
  <2> QED BY <1>0, <1>1, <1>2, <2>1, <2>2, EditorStays
<1> QED BY <1>1, <1>6, <1>7, <1>8, <1>9 DEF IInv

-----------------------------------------------------------------------------
\* A save by hand or by the console adds a version; caches and readers bear it.
LEMMA NewVersionPreserves ==
  ASSUME IInv, Grows, UNCHANGED <<cache, reader>>
  PROVE  CacheOK' /\ \A r \in Threads : ReaderOK(r)'
<1>1. CacheOK'
  BY CacheStays DEF IInv
<1>2. \A r \in Threads : ReaderOK(r)'
  BY ReaderStays DEF IInv
<1> QED BY <1>1, <1>2

LEMMA HandEditPreserves == ASSUME IInv, HandEdit PROVE IInv'
<1>0. TypeOK /\ tick \in 0..MaxTick
  BY DEF IInv, TypeOK
<1>1. PICK c \in HandContents : Replace(c, "hand")
  BY DEF HandEdit
<1>2. /\ Grows /\ Now' = Now + 1 /\ Now' \in Version /\ hist'[Now + 1].by = "hand"
  BY <1>0, <1>1, HandAssumption, NewVersion
<1>3. CacheOK' /\ \A r \in Threads : ReaderOK(r)'
  BY <1>2, NewVersionPreserves DEF HandEdit
<1>4. TypeOK'
  BY <1>0, <1>2 DEF TypeOK, HandEdit, Grows
<1>5. ASSUME NEW e \in Threads PROVE EditorOK(e)'
  <2>1. EditorOK(e)
    BY DEF IInv
  <2>2. \A n \in 1..Now' : n > Now => hist'[n].by = "hand"
    BY <1>2 DEF Grows
  <2>3. editor'[e] = editor[e] /\ (e \in lock => e \in lock')
    BY DEF HandEdit
  <2> QED BY <1>0, <1>2, <2>1, <2>2, <2>3, EditorStays
<1> QED BY <1>3, <1>4, <1>5 DEF IInv, HandEdit

\* A step of one save: only the holder of the lock is past its start.
LEMMA EditorStepPreserves == ASSUME IInv, NEW e \in Threads, EditorStep(e) PROVE IInv'
<1>0. /\ TypeOK /\ CacheOK /\ EditorOK(e) /\ editor[e] \in Saving
      /\ editor \in [Threads -> Saving] /\ tick \in 0..MaxTick
  BY DEF IInv, TypeOK
<1>1. PICK x : editor' = [editor EXCEPT ![e] = x]
  BY DEF EditorStep, Enter, StrictRead, Save, SaveFails, Invalidate
<1>2. editor'[e] = x
  BY <1>0, <1>1
<1>3. \A f \in Threads : f # e => editor'[f] = editor[f]
  BY <1>0, <1>1
<1>4. NoEditor \in Saving
  BY DEF NoEditor, Saving
<1>5. \A f \in Threads : f # e /\ f \in lock => editor[e].pc = "idle"
  BY <1>0 DEF IInv, EditorOK
<1>6. CASE ~Save(e)
  <2>1. UNCHANGED <<hist, tick, style, reader, watch, deaths>>
    BY <1>6 DEF EditorStep, Enter, StrictRead, SaveFails, Invalidate
  <2>2. Grows /\ Now' = Now /\ Now \in Nat /\ Now > 0
    BY <1>0, <2>1, SameHistory DEF Now, Grows, TypeOK, Version
  <2>3. cache' = cache \/ cache' = {}
    BY <1>6 DEF EditorStep, Enter, StrictRead, SaveFails, Invalidate
  <2>4. CacheOK' /\ cache' \subseteq [key : Stamp, ver : Nat]
    BY <1>0, <2>2, <2>3, CacheStays DEF CacheOK, TypeOK
  <2>5. \A r \in Threads : ReaderOK(r)'
    BY <2>1, <2>2, ReaderStays DEF IInv
  <2>6. /\ x \in Saving /\ EditorOK(e)'
        /\ lock' \subseteq Threads /\ \A f, g \in lock' : f = g
        /\ \A f \in Threads : f # e /\ f \in lock => f \in lock'
    <3>1. CASE Enter(e)
      <4>1. PICK s \in {"schedule", "login"} : editor' = [editor EXCEPT ![e] = [NoEditor EXCEPT !.pc = "read", !.section = s]]
        BY <3>1 DEF Enter
      <4>2. x = [NoEditor EXCEPT !.pc = "read", !.section = s]
        BY <1>0, <1>2, <4>1
      <4>3. x \in Saving /\ x.pc = "read"
        BY <4>2 DEF NoEditor, Saving
      <4> QED BY <1>2, <3>1, <4>3 DEF Enter, EditorOK
    <3>2. CASE StrictRead(e)
      <4>1. e \in lock
        BY <1>0, <3>2 DEF StrictRead, EditorOK
      <4>2. CASE Current.content.ok
        <5>1. x = [editor[e] EXCEPT !.pc = "write", !.base = Now] /\ lock' = lock
          BY <1>0, <1>2, <3>2, <4>2 DEF StrictRead
        <5>2. x \in Saving /\ x.pc = "write" /\ x.base = Now
          BY <1>0, <2>2, <5>1 DEF Saving
        <5>3. hist'[Now].content.ok /\ \A n \in 1..Now' : ~(Now < n)
          BY <2>1, <2>2, <4>2 DEF Current
        <5>4. EditorOK(e)'
          BY <1>2, <2>2, <4>1, <5>1, <5>2, <5>3 DEF EditorOK
        <5> QED BY <5>1, <5>2, <5>4 DEF IInv, TypeOK
      <4>3. CASE ~Current.content.ok
        <5>1. x = NoEditor /\ lock' = lock \ {e}
          BY <1>0, <1>2, <3>2, <4>3 DEF StrictRead
        <5> QED BY <1>2, <1>4, <5>1 DEF EditorOK, NoEditor, IInv, TypeOK
      <4> QED BY <4>2, <4>3
    <3>3. CASE SaveFails(e) \/ Invalidate(e)
      <4>1. x = NoEditor /\ lock' = lock \ {e}
        BY <1>0, <1>2, <3>3 DEF SaveFails, Invalidate
      <4> QED BY <1>2, <1>4, <4>1 DEF EditorOK, NoEditor, IInv, TypeOK
    <3> QED BY <1>6, <3>1, <3>2, <3>3 DEF EditorStep
  <2>7. TypeOK'
    BY <1>0, <1>1, <2>1, <2>2, <2>4, <2>6 DEF TypeOK
  <2>8. ASSUME NEW f \in Threads, f # e PROVE EditorOK(f)'
    <3>1. EditorOK(f)
      BY DEF IInv
    <3>2. \A n \in 1..Now' : n > Now => hist'[n].by = "hand"
      BY <2>2
    <3>3. editor'[f] = editor[f] /\ (f \in lock => f \in lock')
      BY <1>3, <2>6, <2>8
    <3> QED BY <1>0, <2>2, <3>1, <3>2, <3>3, EditorStays
  <2> QED BY <2>4, <2>5, <2>6, <2>7, <2>8 DEF IInv
<1>7. CASE Save(e)
  <2>1. PICK c \in Saved(e) : Replace(c, "console")
    BY <1>7 DEF Save
  <2>2. c \in Contents
    BY <2>1 DEF Saved
  <2>3. Grows /\ Now' = Now + 1 /\ Now' \in Version
    BY <1>0, <2>1, <2>2, NewVersion
  <2>4. CacheOK' /\ \A r \in Threads : ReaderOK(r)'
    BY <1>7, <2>3, NewVersionPreserves DEF Save
  <2>5. x = [editor[e] EXCEPT !.pc = "invalidate"]
    BY <1>0, <1>2, <1>7 DEF Save
  <2>6. x \in Saving /\ x.pc = "invalidate"
    BY <1>0, <2>5 DEF Saving
  <2>7. TypeOK'
    BY <1>0, <1>1, <1>7, <2>3, <2>6 DEF TypeOK, Save, Grows
  <2>8. e \in lock /\ lock' = lock
    BY <1>0, <1>7 DEF Save, EditorOK
  <2>9. EditorOK(e)'
    BY <1>2, <2>6, <2>8 DEF EditorOK
  <2>10. ASSUME NEW f \in Threads, f # e PROVE EditorOK(f)'
    <3>1. EditorOK(f) /\ f \notin lock
      BY <2>8, <2>10 DEF IInv
    <3>2. editor[f].pc = "idle" /\ editor'[f] = editor[f]
      BY <1>3, <2>10, <3>1 DEF EditorOK
    <3> QED BY <3>2 DEF EditorOK
  <2> QED BY <2>4, <2>7, <2>8, <2>9, <2>10 DEF IInv
<1> QED BY <1>6, <1>7

\* The clock and the daemon touch nothing the caches and the saves go by.
LEMMA DaemonStepPreserves == ASSUME IInv, Tick \/ WatchStep \/ Die PROVE IInv'
<1>1. UNCHANGED <<hist, style, cache, reader, editor, lock>>
  BY DEF Tick, WatchStep, StartStat, Start, WatchStat, WatchRead, Die
<1>2. TypeOK /\ watch \in Watching /\ hist[Now] \in Entry
  BY DEF IInv, TypeOK, Version, Now
<1>3. tick' \in 0..MaxTick /\ deaths' \in 0..MaxDeaths
  <2>1. CASE Tick
    BY <1>2, <2>1, BoundsAssumption DEF TypeOK, Tick
  <2>2. CASE Die
    BY <1>2, <2>2, BoundsAssumption DEF TypeOK, Die
  <2>3. CASE WatchStep
    BY <1>2, <2>3 DEF TypeOK, WatchStep, StartStat, Start, WatchStat, WatchRead
  <2> QED BY <2>1, <2>2, <2>3
<1>4. Current.key \in Stamp
  BY <1>2 DEF Entry, Current
<1>5. watch' \in Watching
  <2>1. CASE Tick
    BY <1>2, <2>1 DEF Tick
  <2>2. CASE StartStat \/ WatchStat
    BY <1>2, <1>4, <2>2 DEF StartStat, WatchStat, Watching
  <2>3. CASE Start \/ WatchRead
    BY <1>2, <2>3, PlansAssumption DEF Start, WatchRead, Watching
  <2>4. CASE Die
    BY <2>4, PlansAssumption DEF Die, DaemonDown, Watching
  <2> QED BY <2>1, <2>2, <2>3, <2>4 DEF WatchStep
<1>6. TypeOK'
  BY <1>1, <1>2, <1>3, <1>5 DEF TypeOK, Now
<1> QED BY <1>1, <1>6, OtherStep

-----------------------------------------------------------------------------
\* Every step of the specification preserves the invariant.
LEMMA NextPreserves == ASSUME IInv, [Next]_vars PROVE IInv'
<1>1. ASSUME NEW r \in Threads, ReaderStep(r) PROVE IInv'
  BY <1>1, ReaderStepPreserves
<1>2. ASSUME NEW e \in Threads, EditorStep(e) PROVE IInv'
  BY <1>2, EditorStepPreserves
<1>3. CASE HandEdit
  BY <1>3, HandEditPreserves
<1>4. CASE Tick \/ WatchStep \/ Die
  BY <1>4, DaemonStepPreserves
<1>5. CASE UNCHANGED vars
  <2>1. UNCHANGED <<hist, cache, reader, editor, lock>> /\ TypeOK'
    BY <1>5 DEF vars, IInv, TypeOK, Now
  <2> QED BY <2>1, OtherStep
<1> QED BY <1>1, <1>2, <1>3, <1>4, <1>5 DEF Next

\* The invariant holds in every reachable state: what the cache holds, or is
\* about to hold, is the latest text of its key, and one save is in progress.
THEOREM CacheInvariant == Spec => []IInv
<1>1. Init => IInv
  BY InitIInv
<1>2. IInv /\ [Next]_vars => IInv'
  BY NextPreserves
<1> QED BY <1>1, <1>2, PTL DEF Spec

\* A cached read of settings.yaml, accounts.enc, the users or the account
\* status never answers with less than the file held when it began, for any
\* number of threads, unless mtime and size could not tell two versions apart.
THEOREM CachedReadsAreFresh == Spec => []ReadIsFresh
<1>1. IInv => ReadIsFresh
  BY DEF IInv, ReadIsFresh, ReaderOK
<1> QED BY <1>1, CacheInvariant, PTL

\* A save of the console keeps what every other save of the console wrote, and
\* never replaces a file it could not parse.
THEOREM NoSaveIsLost == Spec => SavesKeepTheRest
<1> DEFINE Kept ==
      \A e \in Threads :
        /\ editor[e].pc = "write" /\ editor'[e].pc = "invalidate"
        /\ \A n \in editor[e].base + 1..Now : hist[n].by = "console"
        => /\ Current.content.ok
           /\ editor[e].section = "schedule" => hist'[Now + 1].content.login = Current.content.login
           /\ editor[e].section = "login" => hist'[Now + 1].content.schedule = Current.content.schedule
<1>1. IInv /\ [Next]_vars => [Kept]_vars
  <2> SUFFICES ASSUME IInv, [Next]_vars, NEW e \in Threads,
                      editor[e].pc = "write", editor'[e].pc = "invalidate",
                      \A n \in editor[e].base + 1..Now : hist[n].by = "console"
               PROVE  /\ Current.content.ok
                      /\ editor[e].section = "schedule" => hist'[Now + 1].content.login = Current.content.login
                      /\ editor[e].section = "login" => hist'[Now + 1].content.schedule = Current.content.schedule
    BY Zenon
  <2>1. TypeOK /\ EditorOK(e) /\ editor \in [Threads -> Saving] /\ tick \in 0..MaxTick /\ Now \in Nat
    BY DEF IInv, TypeOK, Version
  <2>2. Save(e)
    <3>1. \/ \E f \in Threads : EditorStep(f)
          \/ editor' = editor
      BY DEF Next, vars, Tick, HandEdit, WatchStep, StartStat, Start, WatchStat, WatchRead, Die,
             ReaderStep, Stat, ReadText, Check, Store, Return
    <3>2. PICK f \in Threads : EditorStep(f)
      BY <3>1
    <3>3. f = e
      BY <2>1, <3>2 DEF EditorStep, Enter, StrictRead, Save, SaveFails, Invalidate
    <3>4. editor'[e].pc # "invalidate" \/ Save(e)
      BY <2>1, <3>2, <3>3 DEF EditorStep, Enter, StrictRead, SaveFails, Invalidate, NoEditor
    <3> QED BY <3>4
  <2>3. PICK c \in Saved(e) : Replace(c, "console")
    BY <2>2 DEF Save
  <2>4. hist'[Now + 1].content = c
    BY <2>1, <2>3, NewVersion DEF Saved
  <2>5. editor[e].base = Now
    <3>1. editor[e].base \in 1..Now
      BY <2>1 DEF EditorOK
    <3>2. CASE editor[e].base < Now
      <4>1. Now \in editor[e].base + 1..Now /\ Now \in 1..Now
        BY <2>1, <3>1, <3>2
      <4>2. hist[Now].by = "console" /\ hist[Now].by = "hand"
        BY <2>1, <3>2, <4>1 DEF EditorOK
      <4> QED BY <4>2
    <3> QED BY <2>1, <3>1, <3>2
  <2>6. Current.content.ok /\ hist[editor[e].base].content = Current.content
    BY <2>1, <2>5 DEF EditorOK, Current
  <2> QED BY <2>3, <2>4, <2>6 DEF Saved, ScheduleForm, OtherForm
<1> QED BY <1>1, CacheInvariant, PTL DEF Spec, SavesKeepTheRest
=============================================================================
