------------------------------- MODULE EventLog -------------------------------
(***************************************************************************)
(* data/events.jsonl: the scans append a line each (src/main.py), a run    *)
(* that ends renames a log that has grown too long and deletes the oldest  *)
(* of the renamed ones, the console's watcher tails the live log and       *)
(* pushes what is new to the open pages (web/sse.py), and every page that  *)
(* lists changes reads all the logs through a cache (web/services/         *)
(* events.py).  The appends and the rotation of one process exclude each   *)
(* other; another process, and the readers, take no lock.                  *)
(*                                                                         *)
(* A line is written in two pieces: a long one may reach the file that     *)
(* way, and a disk that fills up may let only the first through.  The text *)
(* is not escaped, so the first piece may end inside a character.          *)
(***************************************************************************)
EXTENDS Naturals, Sequences, FiniteSets, SequencesExt

CONSTANTS Scans,      \* the scans that append an event, one each
          Processes,  \* the daemon, the console, the command line
          Home,       \* the process of each scan
          Owner,      \* the account of each scan
          Wide,       \* the scans whose line, when torn, is torn inside a character
          Viewers,    \* open pages: the streams of web/sse.py
          Allowed,    \* the accounts each viewer may see
          Unrestricted, \* the administrators' pages, for which nothing is looked up
          RotateSize, \* retention.events_rotate_mb, in pieces
          Keep,       \* retention.events_rotated_keep
          QueueMax,   \* _QUEUE_MAX of web/sse.py
          MaxFiles    \* bound on the logs that are ever made

ASSUME KeepAssumption == Keep \in Nat \ {0} /\ RotateSize \in Nat \ {0} /\ QueueMax \in Nat \ {0}
ASSUME ScopeAssumption ==
  /\ Home \in [Scans -> Processes] /\ Wide \subseteq Scans
  /\ Allowed \in [Viewers -> SUBSET {Owner[s] : s \in Scans}]
  /\ Unrestricted \subseteq Viewers
  /\ \A v \in Unrestricted, s \in Scans : Owner[s] \in Allowed[v]

VARIABLES clock,    \* how many scans have taken their fetch_time
          stamp,    \* the fetch_time of each scan, its event's timestamp
          pc,       \* where each scan is in _append_event
          handle,   \* the log its open file is
          content,  \* the pieces in each log that was ever made
          live,     \* the log named events.jsonl, 0 when there is none
          rotated,  \* the logs named events-<time>.jsonl, oldest first
          pruner,   \* the processes inside _prune_data's locked part
          written,  \* the scans whose line is complete, in that order
          seen,     \* the watcher: its cursor and the size it has just seen
          queue,    \* the lines, whole or not, in each viewer's queue
          got,      \* the lines each viewer's page was sent
          dropped,  \* the events that a full queue refused or that came in two pieces
          page      \* a page being read

logs == <<clock, stamp, pc, handle, content, live, rotated, pruner, written>>
streams == <<seen, queue, got, dropped>>
vars == <<logs, streams, page>>

Files == 1 .. MaxFiles
LivePath == 0   \* a rotated log's path carries its number
Times == 1 .. Cardinality(Scans)
NoPage == [pc |-> "none", for |-> {}, cutoff |-> 0, limit |-> 0, todo |-> <<>>, found |-> <<>>,
           must |-> {}, calm |-> TRUE]

-----------------------------------------------------------------------------
\* The k-th of some places, and what a sequence holds at them, in its order.
Nth(places, k) == CHOOSE i \in places : Cardinality({j \in places : j <= i}) = k
Pick(s, places) == [k \in 1 .. Cardinality(places) |-> s[Nth(places, k)]]

\* The lines that can be parsed: both pieces together, and nothing before them
\* on the line.  s is a log or what was read of it.
StartsLine(s, i) == i = 1 \/ s[i - 1][2] = 2
Whole(s, i) == i < Len(s) /\ s[i][2] = 1 /\ s[i + 1] = <<s[i][1], 2>> /\ StartsLine(s, i)
Begins(s) == {i \in 1 .. Len(s) : Whole(s, i)}
Parsed(s) == [k \in 1 .. Cardinality(Begins(s)) |-> s[Nth(Begins(s), k)][1]]

\* A character that a torn line cuts in two is read as one when the rest of the
\* line follows it.  What comes after the first "from" pieces can be decoded
\* if every such character in it is whole and it does not begin inside one.
Split(s, i) == s[i][2] = 1 /\ s[i][1] \in Wide
Joined(s, i) == i < Len(s) /\ s[i + 1] = <<s[i][1], 2>>
Decodes(s, from) ==
  \A i \in 1 .. Len(s) : Split(s, i) => IF i = from THEN ~Joined(s, i) ELSE i < from \/ Joined(s, i)

\* The lines of what was read, as messages: the piece that ends each and
\* whether it is a line that can be parsed.
Ending(s) == {i \in 1 .. Len(s) : s[i][2] = 2 \/ i = Len(s)}
MessageAt(s, i) == [scan |-> s[i][1], part |-> s[i][2], whole |-> i > 1 /\ Whole(s, i - 1)]
Messages(s) == [k \in 1 .. Cardinality(Ending(s)) |-> MessageAt(s, Nth(Ending(s), k))]

First(s, n) == SubSeq(s, 1, IF Len(s) < n THEN Len(s) ELSE n)

Standing == (IF live = 0 THEN {} ELSE {live}) \cup ToSet(rotated)
Readable == UNION {ToSet(Parsed(content[f])) : f \in Standing}

-----------------------------------------------------------------------------
Init ==
  /\ clock = 0
  /\ stamp = [s \in Scans |-> 0]
  /\ pc = [s \in Scans |-> "out"]
  /\ handle = [s \in Scans |-> 0]
  /\ content = [f \in Files |-> <<>>]
  /\ live = 0 /\ rotated = <<>>
  /\ pruner = {}
  /\ written = <<>>
  /\ seen = [cursor |-> 0, size |-> 0, pc |-> "sleep"]
  /\ queue = [v \in Viewers |-> <<>>]
  /\ got = [v \in Viewers |-> <<>>]
  /\ dropped = {}
  /\ page = NoPage

\* The logs that were never made.
Unmade == {f \in Files : f \notin Standing /\ content[f] = <<>> /\ \A s \in Scans : handle[s] # f}

\* _EVENTS_LOCK of one process.
LockFree(p) == p \notin pruner /\ \A s \in Scans : Home[s] = p => pc[s] \notin {"open", "torn"}

\* scan_account_and_notify takes fetch_time when it has fetched the list; the
\* scans of a pool, and one that was abandoned meanwhile, come from there to
\* their append in any order.
TakeTime(s) ==
  /\ pc[s] = "out"
  /\ clock' = clock + 1
  /\ stamp' = [stamp EXCEPT ![s] = clock + 1]
  /\ pc' = [pc EXCEPT ![s] = "scan"]
  /\ UNCHANGED <<handle, content, live, rotated, pruner, written, streams, page>>

Open(s) ==             \* "a": makes the log when there is none
  /\ pc[s] = "scan" /\ LockFree(Home[s])
  /\ IF live = 0 THEN Unmade # {} /\ live' = (CHOOSE f \in Unmade : TRUE) ELSE UNCHANGED live
  /\ handle' = [handle EXCEPT ![s] = live']
  /\ pc' = [pc EXCEPT ![s] = "open"]
  /\ UNCHANGED <<clock, stamp, content, rotated, pruner, written, streams, page>>

Put(s, pieces) == content' = [content EXCEPT ![handle[s]] = @ \o pieces]
Finished(s) == pc' = [pc EXCEPT ![s] = "done"] /\ handle' = [handle EXCEPT ![s] = 0]

Write(s) ==            \* the whole line at once
  /\ pc[s] = "open"
  /\ Put(s, <<<<s, 1>>, <<s, 2>>>>)
  /\ Finished(s)
  /\ written' = Append(written, s)
  /\ UNCHANGED <<clock, stamp, live, rotated, pruner, streams, page>>

WriteBegin(s) ==
  /\ pc[s] = "open"
  /\ Put(s, <<<<s, 1>>>>)
  /\ pc' = [pc EXCEPT ![s] = "torn"]
  /\ UNCHANGED <<clock, stamp, handle, live, rotated, pruner, written, streams, page>>

WriteRest(s) ==
  /\ pc[s] = "torn"
  /\ Put(s, <<<<s, 2>>>>)
  /\ Finished(s)
  /\ written' = Append(written, s)
  /\ UNCHANGED <<clock, stamp, live, rotated, pruner, streams, page>>

\* A full disk, or the end of the process, before or inside the line: the
\* caller carries on, a piece that was written stays.
WriteFails(s) ==
  /\ pc[s] \in {"open", "torn"}
  /\ Finished(s)
  /\ UNCHANGED <<clock, stamp, content, live, rotated, pruner, written, streams, page>>

Scan(s) == TakeTime(s) \/ Open(s) \/ Write(s) \/ WriteBegin(s) \/ WriteRest(s) \/ WriteFails(s)

\* A run of process p ends: too long a log is renamed, the oldest are deleted.
Rotate(p) ==
  /\ pruner = {} /\ LockFree(p)
  /\ live # 0 /\ Len(content[live]) > RotateSize
  /\ rotated' = Append(rotated, live)
  /\ live' = 0
  /\ pruner' = {p}
  /\ page' = [page EXCEPT !.calm = page.pc = "none"]
  /\ UNCHANGED <<clock, stamp, pc, handle, content, written, streams>>

Unlink ==
  /\ pruner # {}
  /\ LET stale == IF Len(rotated) > Keep THEN Len(rotated) - Keep ELSE 0
         gone == {rotated[i] : i \in 1 .. stale}
     IN  /\ rotated' = SubSeq(rotated, stale + 1, Len(rotated))
         /\ page' = [page EXCEPT !.must = @ \ UNION {ToSet(Parsed(content[f])) : f \in gone}]
  /\ pruner' = {}
  /\ UNCHANGED <<clock, stamp, pc, handle, content, live, written, streams>>

-----------------------------------------------------------------------------
\* The watcher, every two seconds.

TickStatFromEnd ==
  /\ seen.pc = "sleep"
  /\ seen' = IF live = 0 THEN [seen EXCEPT !.cursor = 0]
             ELSE LET size == Len(content[live])
                      cursor == IF size < seen.cursor \/ seen.cursor = 0 THEN size ELSE seen.cursor
                  IN  [cursor |-> cursor, size |-> size, pc |-> IF size = cursor THEN "sleep" ELSE "read"]
  /\ UNCHANGED <<logs, queue, got, dropped, page>>
TickStat ==
  /\ seen.pc = "sleep"
  /\ seen' = IF live = 0 THEN [seen EXCEPT !.cursor = 0]
             ELSE LET size == Len(content[live])
                      cursor == IF size < seen.cursor THEN 0 ELSE seen.cursor
                  IN  [cursor |-> cursor, size |-> size, pc |-> IF size = cursor THEN "sleep" ELSE "read"]
  /\ UNCHANGED <<logs, queue, got, dropped, page>>

\* broadcast: every line goes to every queue, the pieces of torn ones too; a
\* full queue drops it for its viewer.
Room(v, news) == First(news, QueueMax - Len(queue[v]))
EventsIn(q) == {m.scan : m \in {n \in ToSet(q) : n.whole}}
Broadcast(text) ==
  LET news == Messages(text)
      lost(v) == {text[i][1] : i \in 1 .. Len(text)} \ EventsIn(Room(v, news))
  IN  /\ queue' = [v \in Viewers |-> queue[v] \o Room(v, news)]
      /\ dropped' = dropped \cup {r \in Viewers \X Scans : r[2] \in lost(r[1])}

Unread == IF live = 0 THEN <<>> ELSE SubSeq(content[live], seen.cursor + 1, Len(content[live]))

Decodable == live # 0 => Decodes(content[live], seen.cursor)

TickReadKeepsSize ==
  /\ seen.pc = "read" /\ Decodable
  /\ Broadcast(Unread)
  /\ seen' = [seen EXCEPT !.pc = "sleep", !.cursor = seen.size]
  /\ UNCHANGED <<logs, got, page>>
TickRead ==            \* an OSError, or a shorter log than the cursor, reads nothing
  /\ seen.pc = "read" /\ Decodable
  /\ Broadcast(Unread)
  /\ seen' = [seen EXCEPT !.pc = "sleep", !.cursor = @ + Len(Unread)]
  /\ UNCHANGED <<logs, got, page>>

\* A UnicodeDecodeError is no OSError: it ends the poll, the cursor stays where
\* it is, and the next poll reads the same again.
TickFails ==
  /\ seen.pc = "read" /\ ~Decodable
  /\ seen' = [seen EXCEPT !.pc = "sleep"]
  /\ UNCHANGED <<logs, queue, got, dropped, page>>

Tick == TickStat \/ TickRead \/ TickFails

\* _stream: an administrator is sent every line as it is, anyone else those
\* that can be parsed and are theirs.
VisibleTo(v, m) == v \in Unrestricted \/ (m.whole /\ Owner[m.scan] \in Allowed[v])
Send(v) ==
  /\ queue[v] # <<>>
  /\ queue' = [queue EXCEPT ![v] = Tail(@)]
  /\ got' = IF VisibleTo(v, Head(queue[v]))
            THEN [got EXCEPT ![v] = Append(@, Head(queue[v]))] ELSE got
  /\ UNCHANGED <<logs, seen, dropped, page>>

-----------------------------------------------------------------------------
\* read_events for a viewer: the live log and the rotated ones, newest first.

\* The paths are listed in two steps, the live log by its name alone.
ListLive(v) ==
  /\ page = NoPage
  /\ \E cutoff \in Times, limit \in 1 .. Cardinality(Scans) :
       page' = [NoPage EXCEPT !.pc = "list", !.for = Allowed[v], !.cutoff = cutoff, !.limit = limit,
                              !.todo = IF live = 0 THEN <<>> ELSE <<LivePath>>, !.must = Readable]
  /\ UNCHANGED <<logs, streams>>

ListRotated ==
  /\ page.pc = "list"
  /\ page' = [page EXCEPT !.pc = "read", !.todo = @ \o Reverse(rotated)]
  /\ UNCHANGED <<logs, streams>>

\* What is at a path when it is read; a rotated log may be gone by then.
At(path) == IF path = LivePath THEN live ELSE IF path \in ToSet(rotated) THEN path ELSE 0

\* A log is walked backwards; everything before an event older than the cutoff
\* is taken to be older too.
Recent(events, cutoff) ==
  Pick(events, {i \in 1 .. Len(events) : \A k \in i .. Len(events) : stamp[events[k]] >= cutoff})

\* The allow-list comes before the limit.  What the cache answers is what the
\* log held at its stat.
Mine(events) == Pick(events, {i \in 1 .. Len(events) : Owner[events[i]] \in page.for})
ChosenAfterLimit(recent) == Mine(First(page.found \o Reverse(recent), page.limit))
Chosen(recent) == First(page.found \o Reverse(Mine(recent)), page.limit)

\* A log with a character cut in two is read as if it held nothing.
ReadLog ==
  /\ page.pc = "read" /\ page.todo # <<>>
  /\ LET f == At(Head(page.todo))
         garbled == f # 0 /\ ~Decodes(content[f], 0)
         events == IF f = 0 \/ garbled THEN <<>> ELSE Parsed(content[f])
         recent == Recent(events, page.cutoff)
         found == Chosen(recent)
     IN  page' = [page EXCEPT !.found = found,
                    !.must = IF garbled THEN @ \ ToSet(Parsed(content[f])) ELSE @,
                    !.todo = IF recent # events \/ Len(found) = page.limit THEN <<>> ELSE Tail(@)]
  /\ UNCHANGED <<logs, streams>>

PageDone ==
  /\ page.pc = "read" /\ page.todo = <<>>
  /\ page' = NoPage
  /\ UNCHANGED <<logs, streams>>

PageStep == (\E v \in Viewers : ListLive(v)) \/ ListRotated \/ ReadLog \/ PageDone

LogStep == (\E s \in Scans : Scan(s)) \/ (\E p \in Processes : Rotate(p)) \/ Unlink
Next == LogStep \/ Tick \/ (\E v \in Viewers : Send(v)) \/ PageStep

Spec == Init /\ [][Next]_vars
\* The watcher polls for ever, the event loop serves every stream, and a line
\* that was begun is completed or given up.
FairSpec == /\ Spec /\ WF_vars(Tick) /\ \A v \in Viewers : WF_vars(Send(v))
            /\ \A s \in Scans : WF_vars(WriteRest(s) \/ WriteFails(s))

-----------------------------------------------------------------------------
\* A page is sent the lines in the order in which they were completed and none
\* of them twice, whatever is appended, renamed or deleted between the
\* watcher's look at the size and its read; a message that ends no line, which
\* only an administrator's page is sent, has no place in that order.  The other
\* pages are sent lines that can be parsed and are theirs, and nothing else.
StreamInOrder ==
  \A v \in Viewers :
    LET sent == got[v] \o queue[v]
        At_(s) == CHOOSE i \in 1 .. Len(written) : written[i] = s
    IN  /\ \A i \in 1 .. Len(sent) : sent[i].whole => sent[i].part = 2
        /\ \A i \in 1 .. Len(sent) : sent[i].part = 2 => sent[i].scan \in ToSet(written)
        /\ \A i, k \in 1 .. Len(sent) :
             i < k /\ sent[i].part = 2 /\ sent[k].part = 2 => At_(sent[i].scan) < At_(sent[k].scan)
        /\ v \notin Unrestricted => \A m \in ToSet(got[v]) : m.whole /\ Owner[m.scan] \in Allowed[v]

\* The live log holds a character that stays cut in two: its scan has given the
\* line up, or something else was appended first.
Garbled ==
  live # 0 /\ \E i \in 1 .. Len(content[live]) :
                /\ Split(content[live], i) /\ ~Joined(content[live], i)
                /\ i < Len(content[live]) \/ pc[content[live][i][1]] # "torn"

\* As long as the log has never been rotated, every line in it comes to every
\* page that may see it, unless the page's queue was full, the watcher read
\* the line in two pieces, or a torn line has left the log such that it cannot
\* be decoded: then nothing comes any more until it is rotated.
StreamDelivers ==
  \A s \in Scans :
    (live # 0 /\ s \in ToSet(Parsed(content[live])))
      ~> \/ \A v \in Viewers : Owner[s] \in Allowed[v] => s \in EventsIn(got[v]) \/ <<v, s>> \in dropped
         \/ rotated # <<>> \/ Garbled

\* The safety half of it: until then the watcher's cursor stands behind nothing
\* that did not come to the pages' queues or was refused there.
Taken(v, s) == s \in EventsIn(got[v]) \cup EventsIn(queue[v]) \/ <<v, s>> \in dropped
NothingSkipped ==
  rotated = <<>> =>
    /\ seen.cursor <= IF live = 0 THEN 0 ELSE Len(content[live])
    /\ live # 0 => \A i \in 1 .. seen.cursor, v \in Viewers :
         LET s == content[live][i][1] IN Owner[s] \in Allowed[v] => Taken(v, s)

\* What a finished page must hold: the viewer's events of the window that stood
\* when it began and still stood, in a log that could be decoded, when their
\* log was read.
Owed == {s \in page.must : Owner[s] \in page.for /\ stamp[s] >= page.cutoff}
PageFinished == page.pc = "read" /\ page.todo = <<>>
Missed == IF PageFinished /\ page.calm /\ Len(page.found) < page.limit THEN Owed \ ToSet(page.found) ELSE {}

\* In the logs as they stand, oldest first, a line of s has after it one that
\* was stamped before it.
LogFiles == rotated \o (IF live = 0 THEN <<>> ELSE <<live>>)
OlderFollows(s) ==
  \E m, n \in 1 .. Len(LogFiles) :
    LET log == content[LogFiles[m]]
        later == content[LogFiles[n]]
    IN  \E i \in Begins(log), k \in Begins(later) :
          /\ m < n \/ (m = n /\ i < k)
          /\ log[i][1] = s /\ stamp[later[k][1]] < stamp[s]

\* A page lists no event twice, and unless a rotation fell into its reading or
\* its limit is reached it misses no event of its viewer and window, but for
\* those after which an older event was appended and those in a log that could
\* not be decoded when it was read: logs may be deleted and lines be torn
\* around it.
PageIsWhole ==
  /\ IsInjective(page.found)
  /\ \A s \in Missed : OlderFollows(s)

-----------------------------------------------------------------------------
\* The parts of the inductive invariant IInv.
Piece == Scans \X {1, 2}
Message == [scan : Scans, part : {1, 2}, whole : BOOLEAN]
TypeOK ==
  /\ clock \in Nat /\ stamp \in [Scans -> Nat]
  /\ pc \in [Scans -> {"out", "scan", "open", "torn", "done"}]
  /\ handle \in [Scans -> Files \cup {0}]
  /\ content \in [Files -> Seq(Piece)]
  /\ live \in Files \cup {0} /\ rotated \in Seq(Files)
  /\ pruner \subseteq Processes
  /\ written \in Seq(Scans)
  /\ seen \in [cursor : Nat, size : Nat, pc : {"sleep", "read"}]
  /\ queue \in [Viewers -> Seq(Message)] /\ got \in [Viewers -> Seq(Message)]
  /\ dropped \subseteq Viewers \X Scans
  /\ page \in [pc : {"none", "list", "read"}, for : SUBSET {Owner[s] : s \in Scans}, cutoff : Nat, limit : Nat,
               todo : Seq(Files \cup {LivePath}), found : Seq(Scans), must : SUBSET Scans, calm : BOOLEAN]

\* Each log has one name at most, and a renamed one holds something.
FilesInv ==
  /\ IsInjective(rotated) /\ live \notin ToSet(rotated)
  /\ \A f \in ToSet(rotated) : content[f] # <<>>
  /\ \A s \in Scans : pc[s] \in {"open", "torn"} => handle[s] \in Files

\* A second piece lies in one log at most, where its scan has completed its
\* line, and the lines of a log were completed in their order.
Ends(f, i, s) == content[f][i] = <<s, 2>>
Before(s, t) == \E i, k \in 1 .. Len(written) : i < k /\ written[i] = s /\ written[k] = t
LinesInv ==
  /\ IsInjective(written)
  /\ \A s \in ToSet(written) : pc[s] = "done"
  /\ \A f \in Files : \A i \in 1 .. Len(content[f]), s \in Scans : Ends(f, i, s) => s \in ToSet(written)
  /\ \A f, g \in Files : \A i \in 1 .. Len(content[f]), k \in 1 .. Len(content[g]), s \in Scans :
       Ends(f, i, s) /\ Ends(g, k, s) => f = g
  /\ \A f \in Files : \A i, k \in 1 .. Len(content[f]), s, t \in Scans :
       i < k /\ Ends(f, i, s) /\ Ends(f, k, t) => Before(s, t)

\* What was sent was completed before everything the watcher has still to read.
Past(s) ==
  live # 0 =>
    \/ \A i \in 1 .. Len(content[live]), t \in Scans : Ends(live, i, t) => Before(s, t)
    \/ seen.cursor <= Len(content[live]) /\ \E i \in 1 .. seen.cursor : Ends(live, i, s)
Follows(n, m) == m.part = 2 /\ n.part = 2 => Before(m.scan, n.scan)
Ordered(q) == \A i, k \in 1 .. Len(q) : i < k => Follows(q[k], q[i])
StreamInv ==
  \A v \in Viewers :
    /\ \A m \in ToSet(got[v]) \cup ToSet(queue[v]) : m.part = 2 => m.scan \in ToSet(written) /\ Past(m.scan)
    /\ \A m \in ToSet(got[v]) \cup ToSet(queue[v]) : m.whole => m.part = 2
    /\ Ordered(got[v]) /\ Ordered(queue[v])
    /\ \A m \in ToSet(got[v]), n \in ToSet(queue[v]) : Follows(n, m)
    /\ v \notin Unrestricted => \A m \in ToSet(got[v]) : m.whole /\ Owner[m.scan] \in Allowed[v]

\* The logs a page has still to read, the live one first and then the others
\* from the newest on, and those its events came from.
TodoInv ==
  /\ page.pc = "none" => page = NoPage
  /\ page.pc = "list" => page.found = <<>> /\ page.todo \in {<<>>, <<LivePath>>}
  /\ IsInjective(page.todo)
  /\ \A i \in 1 .. Len(page.todo) : page.todo[i] = LivePath => i = 1 /\ page.found = <<>>
  /\ \A f \in ToSet(page.todo) \ {LivePath} : f # live /\ content[f] # <<>>
  /\ \A i, k \in 1 .. Len(page.todo), m, n \in 1 .. Len(rotated) :
       i < k /\ page.todo[i] = rotated[m] /\ page.todo[k] = rotated[n] => n < m
FoundInv ==
  /\ IsInjective(page.found)
  /\ \A s \in ToSet(page.found) : \E f \in Files \ ToSet(page.todo) :
       \E i \in 1 .. Len(content[f]) : Ends(f, i, s)

\* What a page that no rotation has disturbed owes and does not hold yet lies
\* in a log it has still to read, or was followed by an older event.
PathOf(f) == IF f = live THEN LivePath ELSE f
Ahead(s) ==
  \E f \in Standing : /\ s \in ToSet(Parsed(content[f]))
                      /\ (PathOf(f) \in ToSet(page.todo)) \/ (page.pc = "list" /\ f \in ToSet(rotated))
OwedInv ==
  /\ page.must \subseteq ToSet(written)
  /\ page.calm /\ Len(page.found) < page.limit =>
       \A s \in Owed : s \in ToSet(page.found) \/ OlderFollows(s) \/ Ahead(s)

IInv == TypeOK /\ FilesInv /\ LinesInv /\ StreamInv /\ TodoInv /\ FoundInv /\ OwedInv
=============================================================================
