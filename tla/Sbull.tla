------------------------------- MODULE Sbull -------------------------------
(***************************************************************************)
(* sbull, a disk in memory: requests in each of its three modes, and the   *)
(* timer that has the medium changed when nobody has had the device open   *)
(* for INVALIDATE_DELAY.                                                   *)
(*                                                                         *)
(* The kernel runs open and release of one disk one after the other.  The  *)
(* queue's lock is dev->lock, so that a request is served in one step.  A  *)
(* sector holds its own number when the data written to it are there, 0    *)
(* when it is cleared, and Junk when a transfer missed its buffer.         *)
(***************************************************************************)
EXTENDS Integers, Sequences, FiniteSets

CONSTANTS
  Users,
  Size,        \* sectors
  Requests     \* those that are made

VARIABLES
  request_mode, users, media_change,
  sb_timer,    \* "none", "set", or "running" up to its lock
  data,
  opener,      \* who is in open, past del_timer_sync
  sb_open,     \* who has it open
  written,     \* sectors written since the delay was last over
  sb_trouble

sbullVars == <<request_mode, users, media_change, sb_timer, data, opener, sb_open,
               written, sb_trouble>>

Junk == -1
Nobody == "nobody"
Sectors == 1 .. Size
Cleared == [s \in Sectors |-> 0]

Init ==
  /\ request_mode \in {"RM_SIMPLE", "RM_FULL", "RM_NOQUEUE"}
  /\ users = 0 /\ media_change = FALSE /\ sb_timer = "none" /\ data = Cleared
  /\ opener = Nobody /\ sb_open = {} /\ written = {} /\ sb_trouble = {}

-----------------------------------------------------------------------------
(* Requests *)

\* A request is the sectors that its segments begin at, and the one behind it.
Rounds(r) == 1 .. Len(r) - 1
Length(r, i) == r[i + 1] - r[i]
Segment(r, i) == [first |-> r[i], n |-> Length(r, i)]

\* end_request() moves the request on to its next segment.
sbull_request(r) ==
  [i \in Rounds(r) |-> [to |-> r[i], n |-> Length(r, i), from |-> Segment(r, i)]]

\* bio_cur_sectors() is the length of the bio's first segment, in every round;
\* the buffer is that of the round.
sbull_xfer_bio(r) ==
  [i \in Rounds(r) |-> [to |-> r[1] + (i - 1) * Length(r, 1), n |-> Length(r, 1),
                        from |-> Segment(r, i)]]

Transfers(r) == IF request_mode = "RM_SIMPLE" THEN sbull_request(r) ELSE sbull_xfer_bio(r)

\* A transfer beyond the end is dropped.
Reaches(t, s) == s \in t.to .. t.to + t.n - 1 /\ t.to + t.n - 1 <= Size
Copied(t, s) == IF s - t.to < t.from.n THEN t.from.first + (s - t.to) ELSE Junk

\* Each sector has what the last of the transfers that reached it put there.
sbull_transfer(d, transfers) ==
  [s \in Sectors |->
     LET reached == {i \in DOMAIN transfers : Reaches(transfers[i], s)}
     IN  IF reached = {} THEN d[s]
         ELSE Copied(transfers[CHOOSE i \in reached : \A j \in reached : j <= i], s)]

Unequal(r) == \E i \in Rounds(r) : Length(r, i) # Length(r, 1)

\* A write of somebody who has it open; whatever was transferred, it succeeds.
Request(r) ==
  /\ sb_open # {} /\ r[Len(r)] - 1 <= Size
  /\ data' = sbull_transfer(data, Transfers(r))
  /\ written' = written \cup (r[1] .. r[Len(r)] - 1)
  /\ sb_trouble' = sb_trouble \cup
       (IF request_mode # "RM_SIMPLE" /\ Unequal(r) THEN {"unequal segments"} ELSE {})
  /\ UNCHANGED <<request_mode, users, media_change, sb_timer, opener, sb_open>>

-----------------------------------------------------------------------------
(* Open, release and the timer *)

\* Fault: del_timer does not wait for the function.
Quiet_Never == TRUE

\* del_timer_sync waits for the function to end.
Quiet == sb_timer # "running"

DeleteTimer(p) ==
  /\ opener = Nobody /\ p \notin sb_open
  /\ Quiet
  /\ opener' = p /\ sb_timer' = IF sb_timer = "set" THEN "none" ELSE sb_timer
  /\ UNCHANGED <<request_mode, users, media_change, data, sb_open, written, sb_trouble>>

\* The first user has check_disk_change call sbull_media_changed and, if it has
\* changed, sbull_revalidate.
sbull_open(p) ==
  /\ opener = p /\ opener' = Nobody
  /\ IF users = 0 /\ media_change
     THEN media_change' = FALSE /\ data' = Cleared
     ELSE UNCHANGED <<media_change, data>>
  /\ users' = users + 1 /\ sb_open' = sb_open \cup {p}
  /\ UNCHANGED <<request_mode, sb_timer, written, sb_trouble>>

sbull_release(p) ==
  /\ opener = Nobody /\ p \in sb_open
  /\ users' = users - 1 /\ sb_open' = sb_open \ {p}
  /\ IF users' = 0
     THEN /\ sb_timer' = "set"
          /\ sb_trouble' = sb_trouble \cup (IF sb_timer # "none" THEN {"added twice"} ELSE {})
     ELSE UNCHANGED <<sb_timer, sb_trouble>>
  /\ UNCHANGED <<request_mode, media_change, data, opener, written>>

\* The delay is over.
Expires ==
  /\ sb_timer = "set" /\ sb_timer' = "running"
  /\ written' = {}
  /\ UNCHANGED <<request_mode, users, media_change, data, opener, sb_open, sb_trouble>>

sbull_invalidate ==
  /\ sb_timer = "running" /\ sb_timer' = "none"
  /\ IF users > 0
     THEN sb_trouble' = sb_trouble \cup {"sanity check"} /\ UNCHANGED media_change
     ELSE media_change' = TRUE /\ UNCHANGED sb_trouble
  /\ UNCHANGED <<request_mode, users, data, opener, sb_open, written>>

Next ==
  \/ \E p \in Users : DeleteTimer(p) \/ sbull_open(p) \/ sbull_release(p)
  \/ Expires \/ sbull_invalidate
  \/ \E r \in Requests : Request(r)

-----------------------------------------------------------------------------
(* Properties *)

\* Users are counted, and the timer is neither added twice nor found by a user.
UsersExact ==
  /\ users = Cardinality(sb_open)
  /\ {"added twice", "sanity check"} \cap sb_trouble = {}

\* A user sees what was written, and nothing from before the medium changed,
\* unless a bio had segments of different lengths.
MediumKept ==
  users > 0 /\ "unequal segments" \notin sb_trouble =>
    data = [s \in Sectors |-> IF s \in written THEN s ELSE 0]
=============================================================================
