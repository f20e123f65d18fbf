----------------------------- MODULE ProcFiles -----------------------------
(***************************************************************************)
(* The files of /proc that list something: scullmem and scullseq of scull, *)
(* scullpipe, the ones of scullp, scullv, sculld and scullc, the terminals *)
(* of tiny_tty, and the numbers of seq.c.  scull and seq.c use seq_file;   *)
(* the others have a function that the kernel calls for each read with a   *)
(* page, the file's offset and the count that was asked for.               *)
(*                                                                         *)
(* The text is counted in tens of bytes; each ten is the line it comes     *)
(* from and its place there.  A reader reads from the start to the end,    *)
(* always with the same count, while others write and trim.                *)
(***************************************************************************)
EXTENDS Integers, SequencesExt

CONSTANTS
  Devs,        \* number of devices
  Shapes,      \* what devices look like at first: items, and slots of the last
  Counts,      \* what a reader may ask for at a time
  SeqSize,     \* what seq_file begins with, and doubles
  MaxChanges   \* bound: writes and trims

VARIABLES
  pr_kind,     \* "scullmem", "scullseq", "scullpipe", "scullp", ...
  devs,        \* of each device: number of items, slots in use of the last, and
               \* how often it was trimmed
  rd,          \* the reader: what its call has come to
  pos,         \* the file's offset
  shown,       \* what it has been given
  quiet,       \* whether nothing has changed since it began
  changes,
  pr_trouble

procVars == <<pr_kind, devs, rd, pos, shown, quiet, changes, pr_trouble>>

Margin == 8     \* "count - 80", "size - 80"
Qset == 2
Older == {"scullp", "scullv", "sculld", "scullc"}
Kinds == Older \cup {"scullmem", "scullseq", "scullpipe", "tiny_tty", "sequence"}

Line(i, what, n) == [k \in 1 .. n |-> <<i, what, k>>]
Header(i) == Line(i, "header", 4)
Item(i, n) == Line(i, n, 5)
Quantum(i, j) == Line(i, 10 + j, 3)
SlotLines(i) == [j \in 1 .. Qset |-> IF j \in devs[i].slots THEN Quantum(i, j) ELSE <<>>]

Idle == [at |-> "idle"]
Shape(d) == [items |-> d[1], slots |-> d[2], trims |-> 0]

\* A device of the older drivers is its own first item.
Init ==
  /\ pr_kind \in Kinds
  /\ devs \in [1 .. Devs -> {Shape(d) : d \in Shapes}]
  /\ \A i \in 1 .. Devs :
       /\ pr_kind \in Older => devs[i].items > 0
       /\ pr_kind \in {"scullpipe", "sequence"} => devs[i].items = 0
  /\ rd = Idle /\ pos = 0 /\ shown = <<>>
  /\ quiet = TRUE /\ changes = 0 /\ pr_trouble = {}

-----------------------------------------------------------------------------
(* scullp, scullv, sculld, scullc and scullpipe *)

\* sprintf(buf + len, ...)
Printed(r, text) ==
  [r EXCEPT !.page = SubSeq(@, 1, r.len) \o text
                       \o SubSeq(@, r.len + Len(text) + 1, Len(@)),
            !.len = @ + Len(text)]

\* What comes before the offset is forgotten; len still counts what lies before
\* *start.
scullp_proc_offset(r) ==
  IF r.offset = 0 THEN r
  ELSE IF r.offset >= r.len THEN [r EXCEPT !.offset = @ - r.len, !.len = 0]
  ELSE [r EXCEPT !.start = r.offset, !.offset = 0]

\* The pieces after which the offset and the limit are looked at
Pieces(i) ==
  LET items == [n \in 1 .. devs[i].items |->
                  IF n = 1 THEN Header(i) \o Item(i, 1) ELSE Item(i, n)]
  IN  items \o SlotLines(i)

Over(r) == r.len > r.limit

Called(count) ==
  /\ rd.at = "idle"
  /\ rd' = [at |-> "device", dev |-> 1, count |-> count, limit |-> count - Margin,
            offset |-> pos, start |-> 0, len |-> 0, page |-> <<>>]
  /\ UNCHANGED <<pr_kind, devs, pos, shown, quiet, changes, pr_trouble>>

\* One device, under its mutex, up to "out"
ShowDevice ==
  LET Show1(r, piece) == scullp_proc_offset(Printed(r, piece))
      all == FoldLeft(LAMBDA r, piece : IF Over(r) THEN r ELSE Show1(r, piece),
                      Show1(rd, Pieces(rd.dev)[1]), Tail(Pieces(rd.dev)))
  IN  /\ rd.at = "device"
      /\ rd' = [all EXCEPT !.at = IF Over(all) \/ rd.dev = Devs THEN "end" ELSE "device",
                           !.dev = @ + 1]
      /\ UNCHANGED <<pr_kind, devs, pos, shown, quiet, changes, pr_trouble>>

scullp_read_procmem == pr_kind = "scullp" /\ ShowDevice
scullv_read_procmem == pr_kind = "scullv" /\ ShowDevice
sculld_read_procmem == pr_kind = "sculld" /\ ShowDevice
scullc_read_procmem == pr_kind = "scullc" /\ ShowDevice

\* The limit is one of the page, whatever was asked for, and so large that the
\* devices there are do not reach it.
PipeText(i) == (IF i = 1 THEN Line(0, "default", 3) ELSE <<>>) \o Line(i, "pipe", 17)
scull_read_p_mem ==
  LET r == scullp_proc_offset(Printed(rd, PipeText(rd.dev)))
  IN  /\ pr_kind = "scullpipe" /\ rd.at = "device"
      /\ rd' = [r EXCEPT !.at = IF rd.dev = Devs THEN "end" ELSE "device", !.dev = @ + 1]
      /\ UNCHANGED <<pr_kind, devs, pos, shown, quiet, changes, pr_trouble>>

\* down_interruptible: the read fails, and may be made again.
Interrupted ==
  /\ rd.at \in {"device", "list", "show"}
  /\ rd' = Idle
  /\ UNCHANGED <<pr_kind, devs, pos, shown, quiet, changes, pr_trouble>>

\* The kernel gives out len bytes from *start, whatever the page has there, and
\* does not call again, for *eof is set.  Nothing printed is the end.
Filled(n) == n \o [k \in 1 .. 40 |-> <<0, "junk", k>>]
Returned ==
  /\ rd.at = "end"
  /\ rd' = [at |-> IF rd.len = 0 THEN "over" ELSE "idle", count |-> rd.count]
  /\ shown' = shown \o SubSeq(Filled(rd.page), rd.start + 1, rd.start + rd.len)
  /\ pos' = pos + rd.len
  /\ pr_trouble' = pr_trouble
       \cup (IF rd.len > rd.count THEN {"more than asked"} ELSE {})
       \cup (IF rd.len > rd.count + Len(Header(1) \o Item(1, 1)) - Margin
             THEN {"much more"} ELSE {})
       \cup (IF rd.limit < 0 THEN {"small count"} ELSE {})
       \cup (IF rd.start > 0 /\ pr_kind # "tiny_tty" THEN {"inside a piece"} ELSE {})
  /\ UNCHANGED <<pr_kind, devs, quiet, changes>>

-----------------------------------------------------------------------------
(* tiny_tty: the ports that have been opened, here those with items *)

\* The line of a port, after which what is past or to come is looked at
TinyLine(r, i) ==
  LET t == IF devs[i].items = 0 THEN r ELSE Printed(r, Line(i, "port", 1))
  IN  IF devs[i].items = 0 \/ r.full THEN r
      ELSE IF t.len + t.begin > t.offset + t.count THEN [t EXCEPT !.full = TRUE]
      ELSE IF t.len + t.begin < t.offset THEN [t EXCEPT !.begin = @ + t.len, !.len = 0]
      ELSE t

tiny_read_proc ==
  LET first == Printed([page |-> <<>>, len |-> 0, begin |-> 0, full |-> FALSE,
                        offset |-> pos, count |-> rd.count], Line(0, "tinyserinfo", 3))
      r == FoldLeft(TinyLine, first, [i \in 1 .. Devs |-> i])
      left == r.begin + r.len - pos
  IN  /\ pr_kind = "tiny_tty" /\ rd.at = "device"
      /\ rd' = [rd EXCEPT !.at = "end", !.page = r.page,
                          !.start = IF left > 0 THEN pos - r.begin ELSE 0,
                          !.len = IF left <= 0 THEN 0 ELSE IF rd.count < left THEN rd.count ELSE left]
      /\ UNCHANGED <<pr_kind, devs, pos, shown, quiet, changes, pr_trouble>>

-----------------------------------------------------------------------------
(* scullmem: all devices are shown at once, into a buffer *)

MemText(i) ==
  Header(i) \o FlattenSeq([n \in 1 .. devs[i].items |-> Item(i, n)]) \o
  (IF devs[i].items > 0 THEN FlattenSeq(SlotLines(i)) ELSE <<>>)

\* Items stop at the limit, the quanta of the last one do not.
LimitedText(i, room) ==
  LET fits == {n \in 1 .. devs[i].items : 4 + 5 * (n - 1) <= room}
  IN  Header(i) \o FlattenSeq([n \in 1 .. Cardinality(fits) |-> Item(i, n)]) \o
      (IF devs[i].items > 0 /\ devs[i].items \in fits THEN FlattenSeq(SlotLines(i)) ELSE <<>>)

Show(size) ==
  [at |-> "load", dev |-> 1, text |-> <<>>, size |-> size, list |-> -1, count |-> 0]

SeqRead ==
  /\ pr_kind = "scullmem" /\ rd.at = "idle"
  /\ rd' = Show(SeqSize)
  /\ UNCHANGED <<pr_kind, devs, pos, shown, quiet, changes, pr_trouble>>

\* d->data is loaded before the semaphore is taken (line 93).
LoadList ==
  /\ pr_kind = "scullmem" /\ rd.at = "load"
  /\ rd' = IF rd.dev > Devs \/ Len(rd.text) > rd.size - Margin
           THEN [rd EXCEPT !.at = "shown"]
           ELSE [rd EXCEPT !.at = "list",
                           !.list = IF devs[rd.dev].items = 0 THEN -1 ELSE devs[rd.dev].trims]
  /\ UNCHANGED <<pr_kind, devs, pos, shown, quiet, changes, pr_trouble>>

scull_read_procmem ==
  /\ pr_kind = "scullmem" /\ rd.at = "list"
  /\ rd' = [rd EXCEPT
       !.at = "load", !.dev = @ + 1,
       !.text = @ \o IF rd.list = -1 THEN Header(rd.dev)
                     ELSE LimitedText(rd.dev, rd.size - Margin - Len(rd.text))]
  /\ pr_trouble' = pr_trouble
       \cup (IF rd.list \notin {-1, devs[rd.dev].trims} THEN {"freed list"} ELSE {})
  /\ UNCHANGED <<pr_kind, devs, pos, shown, quiet, changes>>

\* A buffer that is full is doubled, and all is shown once more.
SeqShown ==
  /\ pr_kind = "scullmem" /\ rd.at = "shown"
  /\ IF Len(rd.text) >= rd.size
     THEN rd' = Show(2 * rd.size) /\ UNCHANGED <<shown, pr_trouble>>
     ELSE /\ rd' = [at |-> "over", count |-> 0]
          /\ shown' = rd.text
          /\ pr_trouble' = pr_trouble
               \cup (IF Len(rd.text) > rd.size - Margin THEN {"buffer nearly full"} ELSE {})
  /\ UNCHANGED <<pr_kind, devs, pos, quiet, changes>>

-----------------------------------------------------------------------------
(* scullseq: one device at a time, as large a buffer as it takes *)

scull_seq_start ==
  /\ pr_kind = "scullseq" /\ rd.at = "idle"
  /\ rd' = [at |-> IF pos >= Devs THEN "over" ELSE "show", count |-> 0]
  /\ UNCHANGED <<pr_kind, devs, pos, shown, quiet, changes, pr_trouble>>

scull_seq_show ==
  /\ pr_kind = "scullseq" /\ rd.at = "show"
  /\ shown' = shown \o MemText(pos + 1)
  /\ rd' = [rd EXCEPT !.at = "next"]
  /\ UNCHANGED <<pr_kind, devs, pos, quiet, changes, pr_trouble>>

\* The reader goes on, or has got what it asked for.
scull_seq_next ==
  /\ pr_kind = "scullseq" /\ rd.at = "next"
  /\ pos' = pos + 1
  /\ rd' \in {Idle, [rd EXCEPT !.at = IF pos' >= Devs THEN "over" ELSE "show"]}
  /\ UNCHANGED <<pr_kind, devs, shown, quiet, changes, pr_trouble>>

-----------------------------------------------------------------------------
(* seq.c: the position is the number shown, and has no end.  Here a reader   *)
(* stops after four, and the kernel's buffer has room for two.               *)

\* kmalloc of the iterator may fail, and the read returns nothing.
ct_seq_start ==
  /\ pr_kind = "sequence" /\ rd.at = "idle"
  /\ rd' \in {[at |-> "number", spos |-> pos, room |-> 2, live |-> 1],
              [at |-> "over", live |-> 0]}
  /\ UNCHANGED <<pr_kind, devs, pos, shown, quiet, changes, pr_trouble>>

ct_seq_show ==
  /\ pr_kind = "sequence" /\ rd.at = "number" /\ rd.room > 0
  /\ shown' = Append(shown, rd.spos)
  /\ rd' = [rd EXCEPT !.room = @ - 1, !.at = "step"]
  /\ UNCHANGED <<pr_kind, devs, pos, quiet, changes, pr_trouble>>

ct_seq_next ==
  /\ pr_kind = "sequence" /\ rd.at = "step"
  /\ rd' = [rd EXCEPT !.spos = @ + 1, !.at = "number"]
  /\ pos' = rd.spos + 1
  /\ UNCHANGED <<pr_kind, devs, shown, quiet, changes, pr_trouble>>

\* What finds no room is shown again by the next read.
ct_seq_stop ==
  /\ pr_kind = "sequence" /\ rd.at = "number" /\ rd.room = 0
  /\ rd' = [at |-> IF pos < 4 THEN "idle" ELSE "over", live |-> rd.live - 1]
  /\ UNCHANGED <<pr_kind, devs, pos, shown, quiet, changes, pr_trouble>>

-----------------------------------------------------------------------------
(* Others, and the next pass *)

Changed(i, d) ==
  /\ changes < MaxChanges /\ changes' = changes + 1 /\ pr_kind \notin {"scullpipe", "sequence"}
  /\ devs' = [devs EXCEPT ![i] = d] /\ quiet' = FALSE
  /\ UNCHANGED <<pr_kind, rd, pos, shown>>

Write(i) ==
  LET d == devs[i] IN
  /\ \/ d.items < 2 /\ Changed(i, [d EXCEPT !.items = @ + 1, !.slots = {1}])
     \/ \E j \in 1 .. Qset \ d.slots : d.items > 0 /\ Changed(i, [d EXCEPT !.slots = @ \cup {j}])
  /\ UNCHANGED pr_trouble

\* A trim of the device whose list scullmem has loaded is a trouble: the list
\* is followed all the same.
Trim(i) ==
  /\ pr_kind # "tiny_tty"
  /\ Changed(i, [items |-> IF pr_kind \in Older THEN 1 ELSE 0, slots |-> {},
                 trims |-> devs[i].trims + 1])
  /\ pr_trouble' = pr_trouble
       \cup (IF rd.at = "list" /\ rd.dev = i THEN {"trimmed meanwhile"} ELSE {})

Reopen ==
  /\ rd.at = "over"
  /\ rd' = Idle /\ pos' = 0 /\ shown' = <<>> /\ quiet' = TRUE /\ pr_trouble' = {}
  /\ UNCHANGED <<pr_kind, devs, changes>>

Call ==
  /\ pr_kind \notin {"scullmem", "scullseq", "sequence"}
  /\ \E count \in Counts : ("count" \in DOMAIN rd => rd.count = count) /\ Called(count)

Next ==
  \/ Call \/ Interrupted \/ Returned
  \/ scullp_read_procmem \/ scullv_read_procmem \/ sculld_read_procmem
  \/ scullc_read_procmem \/ scull_read_p_mem
  \/ SeqRead \/ LoadList \/ scull_read_procmem \/ SeqShown
  \/ scull_seq_start \/ scull_seq_show \/ scull_seq_next
  \/ tiny_read_proc \/ ct_seq_start \/ ct_seq_show \/ ct_seq_next \/ ct_seq_stop
  \/ \E i \in 1 .. Devs : Write(i) \/ Trim(i)
  \/ Reopen

-----------------------------------------------------------------------------
(* Properties *)

Text ==
  IF pr_kind = "scullpipe" THEN FlattenSeq([i \in 1 .. Devs |-> PipeText(i)])
  ELSE IF pr_kind = "tiny_tty"
  THEN Line(0, "tinyserinfo", 3) \o
       FlattenSeq([i \in 1 .. Devs |-> IF devs[i].items = 0 THEN <<>> ELSE Line(i, "port", 1)])
  ELSE FlattenSeq([i \in 1 .. Devs |-> MemText(i)])

\* A reader that nobody disturbs is shown everything, once and in order, unless
\* it asks for less than the margin, or scullmem's text nearly fills the buffer.
ShowsAll ==
  /\ rd.at = "over" /\ quiet /\ pr_kind # "sequence"
       /\ ("small count" \notin pr_trouble \/ pr_kind = "tiny_tty")
       /\ "buffer nearly full" \notin pr_trouble
     => shown = Text
  /\ pr_kind = "sequence" =>
       /\ shown = [n \in 1 .. Len(shown) |-> n - 1]
       /\ rd.at = "over" => rd.live = 0

\* Nobody is shown what is not text unless the lengths changed between two of
\* its reads.
NoJunk ==
  quiet /\ "small count" \notin pr_trouble => "inside a piece" \notin pr_trouble

\* What is given beyond the count is never more than the margin falls short of
\* for a header and an item, unless the count was smaller than the margin, or is
\* not looked at at all, as in scullpipe.
LittleTooMuch ==
  "much more" \in pr_trouble => "small count" \in pr_trouble \/ pr_kind = "scullpipe"

\* A list that is followed has not been freed, in any pass and of any device,
\* unless a trim of that device came just between scullmem's load of the list
\* and its semaphore.
ListsValid == "freed list" \in pr_trouble => "trimmed meanwhile" \in pr_trouble
=============================================================================
