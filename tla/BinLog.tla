------------------------------- MODULE BinLog -------------------------------
(***************************************************************************)
(* The binary log of binlog/serialization.h.  Every thread that logs has a *)
(* queue of its own and enters it into mLogInfoAllThreads.  One thread,    *)
(* Main, calls InitWrite(): it queues a description of each event, writes  *)
(* the end marker to the head of the file, and starts the dumper, which    *)
(* goes round the queues and appends one record of each to the file.       *)
(* Another program maps the file and follows it with LogRead().            *)
(*                                                                         *)
(* The queues (SPSCQueue) are a header outside the repository: FIFO queues *)
(* with room for all that the bounds allow.  A description is larger than  *)
(* a cell and takes two, each a unit of the file; an entry takes a unit    *)
(* for its head and one for its payload.  A reader may see the file, and   *)
(* the process may end, between any two units.                             *)
(***************************************************************************)
EXTENDS Naturals, Sequences, SequencesExt

CONSTANTS
  Main, Workers,
  Events,     \* number of events in the section
  Known,      \* tags the reader has a deserializer for
  Page,       \* units in a page of the mapped file
  Follow,     \* bound: the reader follows the file, and all have registered
  MaxLog,     \* bound: entries of each thread in a run
  MaxAll,     \* bound: entries of all threads in a run
  MaxRuns     \* bound: starts of the program

VARIABLES
  run,                 \* which start of the program this is
  lpc,                 \* position of each thread
  committing, size,    \* the two halves of mSize
  slot,                \* what fetch_add has given each thread
  mArray,
  queue, logged,       \* of each thread: mLogBuffer, and entries written to it
  dumper,              \* where LogDump2File is, with index and currentSize
  todo,                \* the units write2File still has to write
  file,
  moved,               \* this run's binary gives the events other addresses
  damage,              \* history: "torn" by an end of the process, "short" write
  reader,              \* LogRead's position, fstat and map, and where it is
  got                  \* what the reader has been given

logVars == <<run, lpc, committing, size, slot, mArray, queue, logged, dumper,
             todo, file, moved, damage, reader, got>>
readerVars == <<reader, got>>
fileVars == <<todo, file, damage>>

Loggers == Workers \union {Main}
Null == "null"

\* The class that the event with address e has in this run's binary
TagOf(e) == IF moved THEN Events + e ELSE e

\* The two cells of a description; event 0 is the end marker.
Cells(e) ==
  [i \in 1 .. 2 |-> [kind |-> <<"head", "rest">>[i], event |-> e, tag |-> TagOf(e)]]

\* The events take turns.
EventOf(n) == ((n - 1) % Events) + 1
Entry(t, n) ==
  [kind |-> "entry", run |-> run, by |-> t, n |-> n,
   event |-> EventOf(n), tag |-> TagOf(EventOf(n))]
Load(entry) == [entry EXCEPT !.kind = "load"]

\* What is written of a cell: the second part of LogEntry up to its length
Units(cell) == IF cell.kind = "entry" THEN <<cell, Load(cell)>> ELSE <<cell>>

Off == [at |-> "off", index |-> 0, current |-> 0]
NoSlots == [i \in 0 .. Cardinality(Loggers) - 1 |-> Null]
Each(v) == [t \in Loggers |-> v]

\* The threads registered before, in the order of their slots
Order == IF Follow THEN Append(SetToSeq(Workers), Main) ELSE <<>>
Position == [t \in Loggers |-> IF Order = <<>> THEN "new"
                                ELSE IF t = Main THEN "section" ELSE "log"]
Slots ==
  [i \in DOMAIN NoSlots |-> IF Order = <<>> THEN Null ELSE Order[i + 1]]

Init ==
  /\ lpc = Position /\ size = Len(Order) /\ mArray = Slots
  /\ slot = Each(0) /\ committing = 0
  /\ queue = Each(<<>>) /\ logged = Each(0)
  /\ dumper = Off /\ todo = <<>>
  /\ run = 1 /\ file = <<>>
  /\ moved = FALSE /\ damage = {}
  /\ reader = [at |-> "closed", st |-> 0, pos |-> 0,
               seen |-> [e \in 0 .. Events |-> 0], resumed |-> FALSE]
  /\ got = <<>>

\* The process ends and is started again, perhaps from another binary; what
\* was queued is lost, and what was written stays.
Restart ==
  /\ run < MaxRuns /\ damage = {}
  /\ run' = run + 1
  /\ moved' \in BOOLEAN
  /\ damage' = IF dumper.at = "rest" \/ (Len(todo) = 1 /\ todo[1].kind # "head")
               THEN damage \union {"torn"} ELSE damage
  /\ lpc' = Position /\ size' = Len(Order) /\ mArray' = Slots
  /\ slot' = Each(0) /\ committing' = 0
  /\ queue' = Each(<<>>) /\ logged' = Each(0)
  /\ dumper' = Off /\ todo' = <<>>
  /\ UNCHANGED <<file, reader, got>>

Go(t, where) == lpc' = [lpc EXCEPT ![t] = where]

-----------------------------------------------------------------------------
(* push(): RegisterLogInfo of Main, or LogBuffer() of any other thread      *)

\* fetch_add(CommitingCount)
Claim(t) ==
  /\ lpc[t] = "new"
  /\ slot' = [slot EXCEPT ![t] = size]
  /\ size' = size + 1 /\ committing' = committing + 1
  /\ Go(t, "store")
  /\ UNCHANGED <<run, mArray, queue, logged, dumper, fileVars, moved, readerVars>>

StoreSlot(t) ==
  /\ lpc[t] = "store"
  /\ mArray' = [mArray EXCEPT ![slot[t]] = t]
  /\ Go(t, "commit")
  /\ UNCHANGED <<run, committing, size, slot, queue, logged, dumper, fileVars,
                 moved, readerVars>>

\* InitWrite registers its thread before anything else.
Registered(t) == Go(t, IF t = Main THEN "section" ELSE "log")

\* fetch_add(-1*(CommitingCount-1)), and Register()
Commit(t) ==
  /\ lpc[t] = "commit"
  /\ committing' = committing - 1
  /\ Registered(t)
  /\ UNCHANGED <<run, size, slot, mArray, queue, logged, dumper, fileVars,
                 moved, readerVars>>

\* ParseEventSection opens the file, creating it, and queues its descriptions.
Section ==
  /\ lpc[Main] = "section"
  /\ queue' = [queue EXCEPT ![Main] =
                 @ \o FlattenSeq([e \in 1 .. Events |-> Cells(e)])]
  /\ Go(Main, "mark")
  /\ UNCHANGED <<run, committing, size, slot, mArray, logged, dumper, fileVars,
                 moved, readerVars>>

\* The marker is written at offset 0 of a file that is not truncated.
Marked(f) == Cells(0) \o SubSeq(f, 3, Len(f))

StartCollectLog == dumper' = [Off EXCEPT !.at = "wait"]

\* The end of ParseEventSection, and what follows it in InitWrite
Mark ==
  /\ lpc[Main] = "mark"
  /\ file' = Marked(file)
  /\ StartCollectLog
  /\ Go(Main, "log")
  /\ UNCHANGED <<run, committing, size, slot, mArray, queue, logged, todo, moved,
                 damage, readerVars>>

\* UBI_LITERAL_LOG_INFO
Log(t) ==
  /\ lpc[t] = "log" /\ logged[t] < MaxLog
  /\ FoldFunction(+, 0, logged) < MaxAll
  /\ logged' = [logged EXCEPT ![t] = @ + 1]
  /\ queue' = [queue EXCEPT ![t] = Append(@, Entry(t, logged[t] + 1))]
  /\ UNCHANGED <<run, lpc, committing, size, slot, mArray, dumper, fileVars,
                 moved, readerVars>>

-----------------------------------------------------------------------------
(* LogDump2File *)

\* What consume_all, and empty() behind it, wait for
Settled == committing = 0

\* consume_all: wait until nobody is registering, then take the size.
Round ==
  /\ dumper.at = "wait" /\ Settled
  /\ dumper' = [at |-> "visit", index |-> 0, current |-> size]
  /\ UNCHANGED <<run, lpc, committing, size, slot, mArray, queue, logged, fileVars,
                 moved, readerVars>>

\* The queue of the slot that is visited
Visited == mArray[dumper.index]

After ==
  IF dumper.index + 1 < dumper.current
  THEN [dumper EXCEPT !.at = "visit", !.index = @ + 1]
  ELSE [dumper EXCEPT !.at = "wait"]

\* The front of the queue is to be written; it stays there until it is.
Visit ==
  /\ dumper.at = "visit" /\ Visited # Null
  /\ IF queue[Visited] = <<>>
     THEN dumper' = After /\ UNCHANGED todo
     ELSE /\ todo' = Units(Head(queue[Visited]))
          /\ dumper' = [dumper EXCEPT !.at = "write"]
  /\ UNCHANGED <<run, lpc, committing, size, slot, mArray, queue, logged, file,
                 moved, damage, readerVars>>

\* After the first cell of a description the second one follows at once.
NextOf(item) ==
  IF item.kind = "head" THEN [dumper EXCEPT !.at = "rest"] ELSE After

\* A unit goes to the end of the file, and the front of the queue after the
\* last one.
WriteUnit ==
  /\ dumper.at = "write"
  /\ file' = Append(file, Head(todo)) /\ todo' = Tail(todo)
  /\ IF Len(todo) = 1
     THEN /\ queue' = [queue EXCEPT ![Visited] = Tail(@)]
          /\ dumper' = NextOf(Head(queue[Visited]))
     ELSE UNCHANGED <<queue, dumper>>
  /\ UNCHANGED <<run, lpc, committing, size, slot, mArray, logged, moved, damage,
                 readerVars>>

\* write() takes a part of the buffer: the loop writes as much as is left, but
\* from the beginning of the buffer.
ShortWrite ==
  /\ dumper.at = "write" /\ Len(todo) > 1 /\ damage = {}
  /\ file' = Append(file, Head(todo))
  /\ todo' = SubSeq(todo, 1, Len(todo) - 1)
  /\ damage' = damage \union {"short"}
  /\ UNCHANGED <<run, lpc, committing, size, slot, mArray, queue, logged, dumper,
                 moved, readerVars>>

\* Spin until the second cell is there, and write it.
WriteRest ==
  /\ dumper.at = "rest" /\ queue[Visited] # <<>>
  /\ todo' = <<Head(queue[Visited])>>
  /\ dumper' = [dumper EXCEPT !.at = "write"]
  /\ UNCHANGED <<run, lpc, committing, size, slot, mArray, queue, logged, file,
                 moved, damage, readerVars>>

Dump == Round \/ Visit \/ WriteUnit \/ WriteRest
Register(t) == Claim(t) \/ StoreSlot(t) \/ Commit(t)

-----------------------------------------------------------------------------
(* The reader: OpenBinLog until it is ready, then LogRead, and              *)
(* DecodeCurEntry for each entry                                            *)

Created == run > 1 \/ lpc[Main] \in {"mark", "log"}

ReaderIs(r) == reader' = r /\ UNCHANGED <<run, lpc, committing, size, slot, mArray,
                                          queue, logged, dumper, fileVars, moved>>

\* A file too small leaves its name behind, for which the next call ends the
\* program.
Open ==
  /\ Follow /\ reader.at \in {"closed", "named"} /\ Created
  /\ ReaderIs([reader EXCEPT !.at = CASE reader.at = "named" -> "ended"
                                      [] Len(file) < 2 -> "named"
                                      [] OTHER -> "idle"])
  /\ UNCHANGED got

\* A new process goes on where an earlier one has stopped.
SetCurBinLogSize ==
  /\ reader.at = "idle" /\ ~reader.resumed
  /\ ReaderIs([reader EXCEPT !.seen = [e \in DOMAIN @ |-> 0], !.resumed = TRUE])
  /\ UNCHANGED got

\* fstat, and the first check
LogRead ==
  /\ reader.at = "idle" /\ reader.pos < Len(file)
  /\ ReaderIs([reader EXCEPT !.at = "read", !.st = Len(file)])
  /\ UNCHANGED got

\* The pages of the map that the file has; behind its end they read as zero.
Mapped == ((Len(file) + Page - 1) \div Page) * Page

isEventDesc(pos) == pos < Len(file) /\ file[pos + 1].kind = "head"

NoTag == 0
\* The class tag is in the second half of a description.
TagAt(i) ==
  IF i = 0 THEN NoTag
  ELSE IF i < Len(file) /\ file[i + 1].kind = "rest" THEN file[i + 1].tag
  ELSE 2 * Events + 1

\* The loop over descriptions looks at the file as it is now, whatever fstat
\* said.
ReadDescription ==
  /\ reader.at = "read"
  /\ LET pos == reader.pos
     IN  \/ /\ pos >= Mapped
            /\ ReaderIs([reader EXCEPT !.at = "killed"])
         \/ /\ isEventDesc(pos)
            /\ ReaderIs([reader EXCEPT !.seen[file[pos + 1].event] = pos + 1,
                                       !.pos = @ + 2])
  /\ UNCHANGED got

\* Fault: the length of the payload is not looked at.
EntryEnd_Headless(pos) == pos + 1

\* head and payload must lie within the size fstat gave.
EntryEnd(pos) == IF file[pos + 1].kind = "entry" THEN pos + 2 ELSE pos + 1

\* The reader has registered a deserializer for the tag, or none is looked for.
Decodable(tag) == tag \in {NoTag} \union Known

\* An entry is given out, or nothing yet.  DecodeCurEntry calls a null
\* deserializer for a tag it does not know.
ReadEntry ==
  /\ reader.at = "read" /\ reader.pos < Mapped /\ ~isEventDesc(reader.pos)
  /\ LET pos == reader.pos
     IN  IF reader.st <= pos \/ reader.st < EntryEnd(pos)
         THEN ReaderIs([reader EXCEPT !.at = "idle", !.st = 0]) /\ UNCHANGED got
         ELSE IF file[pos + 1].kind # "entry"
         THEN ReaderIs([reader EXCEPT !.at = "astray"]) /\ UNCHANGED got
         ELSE LET tag == TagAt(reader.seen[file[pos + 1].event])
              IN  /\ ReaderIs([reader EXCEPT
                        !.at = IF Decodable(tag) THEN "idle" ELSE "crashed",
                        !.st = 0, !.pos = @ + 2])
                  /\ got' = Append(got, [head |-> file[pos + 1], tag |-> tag,
                                         load |-> IF pos + 2 <= Len(file)
                                                THEN <<file[pos + 2]>> ELSE <<>>])

Reading == Open \/ LogRead \/ ReadDescription \/ ReadEntry

Next ==
  \/ \E t \in Loggers : Register(t) \/ Log(t)
  \/ Section \/ Mark \/ Dump \/ ShortWrite \/ Restart
  \/ Reading \/ SetCurBinLogSize

-----------------------------------------------------------------------------
(* Properties *)

IsEntry(unit) == unit.kind = "entry"
Of(t, s) == SelectSeq(s, LAMBDA u : IsEntry(u) /\ u.run = run /\ u.by = t)

\* What is in the queue and not yet, or only half, in the file
Queued(t) ==
  IF dumper.at = "write" /\ Visited = t /\ Len(todo) = 1 /\ todo[1].kind = "load"
  THEN Tail(queue[t]) ELSE queue[t]

\* Every entry of this run is in the file or in its queue, once and in the
\* order it was logged, however registrations and rounds interleave.
NothingLost ==
  "short" \notin damage =>
    \A t \in Loggers :
      Of(t, file) \o Of(t, Queued(t)) = [n \in 1 .. logged[t] |-> Entry(t, n)]

\* The dumper never comes to a slot that has been counted but not yet stored
\* ("The barrier should be implemented against mArray", line 847).
SlotsWritten == dumper.at # "off" => \A i \in 0 .. dumper.current - 1 : mArray[i] # Null

\* What the reader has passed
Passed == SubSeq(file, 1, IF reader.pos < Len(file) THEN reader.pos ELSE Len(file))

\* A reader that follows the file while it is written, over restarts of the
\* writer, is given every entry once, whole and in order, unless a record was
\* torn or written in parts; and it stands at the beginning of a record.
ReadsEntries ==
  /\ damage = {} =>
       /\ [i \in DOMAIN got |-> got[i].head] = SelectSeq(Passed, IsEntry)
       /\ \A i \in DOMAIN got : got[i].load = <<Load(got[i].head)>>
  /\ "torn" \notin damage =>
       /\ reader.at # "astray"
       /\ reader.pos < Len(file) => file[reader.pos + 1].kind \in {"head", "entry"}

\* An entry is shown with the class it was logged with, or none, as long as
\* every run has the same binary; and with one, if Main logged it and the
\* reader has read from the beginning.
ReadsTags ==
  damage = {} =>
    \A i \in DOMAIN got :
      LET entry == got[i].head
      IN  /\ got[i].tag \in {entry.tag, NoTag} \/ (moved /\ entry.run > 1)
          /\ entry.by = Main /\ got[i].tag = NoTag => reader.resumed

\* The map ends where the file does: a reader is killed only behind a
\* description that was last in its page.
KilledBehindDescriptions ==
  reader.at = "killed" /\ "torn" \notin damage =>
    /\ reader.pos % Page \in {0, 1}
    /\ isEventDesc(reader.pos - 2)

\* What has been logged reaches the file unless the process ends first.
ReachesFile ==
  \A t \in Loggers, n \in 1 .. MaxLog :
    logged[t] = n ~> (logged[t] < n \/ Len(Of(t, file)) >= n)

\* A reader that goes on gets all that is in the file.
CatchesUp ==
  []<>(\/ damage # {} \/ reader.at \in {"ended", "killed", "crashed"}
       \/ Len(got) = Len(SelectSeq(file, IsEntry)))
=============================================================================
