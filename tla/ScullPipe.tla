----------------------------- MODULE ScullPipe -----------------------------
(***************************************************************************)
(* The pipe device of Kernel/Driver/scull/pipe.c: one scull_pipe and the   *)
(* files opened on it.  Pointers are offsets from dev->buffer; `buffer` is *)
(* the number of bytes allocated, 0 for NULL, and dev->end is buffersize.  *)
(*                                                                         *)
(* What runs under dev->sem is one step after down().  Outside it a waiter *)
(* joins its queue, loads rp and wp one after the other, and sleeps.  (The *)
(* moment in which rp or wp equals dev->end before it wraps gives the same *)
(* answers to those loads.)                                                *)
(*                                                                         *)
(* Files, semaphores and wait queues are the kernel's: a waker removes and *)
(* wakes everyone on a queue, a sleeper may be signalled at any time.      *)
(***************************************************************************)
EXTENDS Integers, Sequences, FiniteSets

CONSTANTS
  Readers, Writers,   \* files opened for reading, for writing, or for both
  NonBlock,           \* files with O_NONBLOCK
  AsyncFiles,         \* files whose owner uses FASYNC
  Counts,             \* byte counts passed to read() and write()
  BufSizes,           \* values SCULL_P_IOCTSIZE gives scull_p_buffer
  Free                \* the semaphore is not held

Files == Readers \cup Writers
MaxOf(S) == CHOOSE x \in S : \A y \in S : y <= x
MinOf(S) == CHOOSE x \in S : \A y \in S : x <= y

ASSUME PipeAssumption ==
  /\ Counts \subseteq Nat \ {0}
  /\ BufSizes \subseteq Nat \ {0, 1} /\ BufSizes # {}
  /\ IsFiniteSet(Files) /\ IsFiniteSet(BufSizes)
  /\ NonBlock \subseteq Files /\ AsyncFiles \subseteq Readers
  /\ Free \notin Files

VARIABLES
  scull_p_buffer,               \* module parameter
  buffer, buffersize, rp, wp, nreaders, nwriters, async_queue, sem,
  inq, outq,                    \* files asleep or about to sleep
  call, at,                     \* system call of each file, and where it is
  seen,                         \* rp or wp, loaded without the semaphore
  \* Not in the code: what the users of the device have done to one another.
  resized,                      \* scull_p_buffer has changed since kmalloc
  missed                        \* files on outq when an open emptied the ring

ringVars == <<buffer, buffersize, rp, wp>>
openVars == <<nreaders, nwriters, async_queue>>
fileVars == <<call, at, seen>>
causeVars == <<resized, missed>>
vars == <<scull_p_buffer, ringVars, openVars, sem, inq, outq, fileVars,
          causeVars>>

None == <<"none", 0>>

Init ==
  /\ scull_p_buffer \in BufSizes
  /\ buffer = 0 /\ buffersize = 0 /\ rp = 0 /\ wp = 0
  /\ nreaders = 0 /\ nwriters = 0 /\ async_queue = {}
  /\ sem = Free
  /\ inq = {} /\ outq = {}
  /\ call = [f \in Files |-> "none"]
  /\ at = [f \in Files |-> "closed"]
  /\ seen = [f \in Files |-> None]
  /\ resized = FALSE /\ missed = {}

Go(f, where) == at' = [at EXCEPT ![f] = where] /\ UNCHANGED call
Back(f, where) == at' = [at EXCEPT ![f] = where]
                  /\ call' = [call EXCEPT ![f] = "none"]
Inside(f, c) == call[f] = c /\ at[f] = "down" /\ sem = f
StillMissed == missed' = missed \cap outq' /\ UNCHANGED resized

-----------------------------------------------------------------------------
(* System calls and the semaphore *)

\* A file that is open calls the driver; one that is closed is opened.
Call(f, c) ==
  /\ IF c = "open" THEN at[f] = "closed" ELSE at[f] = "user"
  /\ c = "read" => f \in Readers
  /\ c = "write" => f \in Writers
  /\ at' = [at EXCEPT ![f] = "down"]
  /\ call' = [call EXCEPT ![f] = c]
  /\ async_queue' = IF c = "release" THEN async_queue \ {f} ELSE async_queue
  /\ UNCHANGED <<scull_p_buffer, ringVars, nreaders, nwriters, sem, inq, outq,
                 seen, causeVars>>

\* scull_p_fasync, called by fcntl(F_SETFL)
Fasync(f) ==
  /\ at[f] = "user" /\ f \in AsyncFiles
  /\ async_queue' = IF f \in async_queue THEN async_queue \ {f}
                                         ELSE async_queue \cup {f}
  /\ UNCHANGED <<scull_p_buffer, ringVars, nreaders, nwriters, sem, inq, outq,
                 fileVars, causeVars>>

\* SCULL_P_IOCTSIZE: no capability is needed and no semaphore is taken.
Resize(n) ==
  /\ scull_p_buffer' = n
  /\ resized' = (resized \/ (buffer # 0 /\ n # scull_p_buffer))
  /\ UNCHANGED <<ringVars, openVars, sem, inq, outq, fileVars, missed>>

Down(f) ==
  /\ at[f] = "down" /\ sem = Free
  /\ sem' = f
  /\ UNCHANGED <<scull_p_buffer, ringVars, openVars, inq, outq, fileVars,
                 causeVars>>

\* down_interruptible returns an error: -ERESTARTSYS to the file.
Interrupted(f) ==
  /\ at[f] = "down" /\ sem \notin {Free, f}
  /\ call[f] \in {"open", "read", "write"}
  /\ Back(f, IF call[f] = "open" THEN "closed" ELSE "user")
  /\ UNCHANGED <<scull_p_buffer, ringVars, openVars, sem, inq, outq, seen,
                 causeVars>>

-----------------------------------------------------------------------------
(* open and release *)

\* Whoever else is using it: what the ring held is gone, and the writers that
\* wait for room are not woken.
Open(f) ==
  /\ Inside(f, "open")
  /\ buffer' = IF buffer = 0 THEN scull_p_buffer ELSE buffer
  /\ buffersize' = scull_p_buffer
  /\ rp' = 0 /\ wp' = 0
  /\ nreaders' = nreaders + (IF f \in Readers THEN 1 ELSE 0)
  /\ nwriters' = nwriters + (IF f \in Writers THEN 1 ELSE 0)
  /\ sem' = Free
  /\ Back(f, "user")
  /\ missed' = outq
  /\ UNCHANGED <<scull_p_buffer, async_queue, inq, outq, seen, resized>>

\* kmalloc fails: -ENOMEM
OpenFails(f) ==
  /\ Inside(f, "open") /\ buffer = 0
  /\ sem' = Free
  /\ Back(f, "closed")
  /\ UNCHANGED <<scull_p_buffer, ringVars, openVars, inq, outq, seen,
                 causeVars>>

\* What a release subtracts from nreaders and nwriters.
Leaves(f) == <<IF f \in Readers THEN 1 ELSE 0, IF f \in Writers THEN 1 ELSE 0>>

Release(f) ==
  /\ Inside(f, "release")
  /\ nreaders' = nreaders - Leaves(f)[1]
  /\ nwriters' = nwriters - Leaves(f)[2]
  /\ buffer' = IF nreaders' + nwriters' = 0 THEN 0 ELSE buffer
  /\ resized' = (resized /\ buffer' # 0)
  /\ sem' = Free
  /\ Back(f, "closed")
  /\ UNCHANGED <<scull_p_buffer, buffersize, rp, wp, async_queue, inq, outq,
                 seen, missed>>

-----------------------------------------------------------------------------
(* read and write *)

\* Fault: a full ring is taken for empty.
spacefree_Full(r, w) ==
  IF r = w THEN buffersize ELSE (r + buffersize - w) % buffersize

Wrap(p) == IF p = buffersize THEN 0 ELSE p

\* The remainder of C, which has the sign of a.
Rem(a, b) == IF a < 0 THEN -((-a) % b) ELSE a % b

spacefree(r, w) ==
  IF r = w THEN buffersize - 1 ELSE Rem(r + buffersize - w, buffersize) - 1

\* The bytes a section may copy: read up to wp or up to the end, write up to
\* the end or up to the byte before rp.
Readable == IF wp > rp THEN wp - rp ELSE buffersize - rp
Writable == MinOf({spacefree(rp, wp),
                   IF wp >= rp THEN buffersize - wp ELSE rp - wp - 1})

\* Fault: the semaphore is kept when there is nothing to do.
AfterEmpty_Kept(f) == IF f \in NonBlock THEN f ELSE Free

\* The semaphore after up(), before -EAGAIN or sleep.
AfterEmpty(f) == Free

\* Nothing to do: -EAGAIN, or wait
Blocked(f) ==
  /\ \/ Inside(f, "read") /\ rp = wp
     \/ Inside(f, "write") /\ spacefree(rp, wp) = 0
  /\ sem' = AfterEmpty(f)
  /\ IF f \in NonBlock THEN Back(f, "user") ELSE Go(f, "wait")
  /\ UNCHANGED <<scull_p_buffer, ringVars, openVars, inq, outq, seen,
                 causeVars>>

Read(f) ==
  /\ Inside(f, "read") /\ rp # wp
  /\ \E n \in Counts : rp' = Wrap(rp + MinOf({n, Readable}))
  /\ sem' = Free
  /\ Go(f, "wake")
  /\ UNCHANGED <<scull_p_buffer, buffer, buffersize, wp, openVars, inq, outq,
                 seen, causeVars>>

Write(f) ==
  /\ Inside(f, "write") /\ spacefree(rp, wp) # 0
  /\ \E n \in Counts : wp' = Wrap(wp + MinOf({n, Writable}))
  /\ sem' = Free
  /\ Go(f, "wake")
  /\ UNCHANGED <<scull_p_buffer, buffer, buffersize, rp, openVars, inq, outq,
                 seen, causeVars>>

\* copy_to_user or copy_from_user fails: -EFAULT
Fault(f) ==
  /\ \/ Inside(f, "read") /\ rp # wp
     \/ Inside(f, "write") /\ spacefree(rp, wp) # 0
  /\ sem' = Free
  /\ Back(f, "user")
  /\ UNCHANGED <<scull_p_buffer, ringVars, openVars, inq, outq, seen,
                 causeVars>>

\* Fault: a reader wakes the readers.
Wakes_Inq(c) == "inq"

\* The queue a read or a write wakes when it has moved a pointer
Wakes(c) == IF c = "read" THEN "outq" ELSE "inq"

\* wake_up_interruptible, which empties the queue, and return; kill_fasync
\* changes nothing here.
Wake(f) ==
  /\ at[f] = "wake"
  /\ inq' = IF Wakes(call[f]) = "inq" THEN {} ELSE inq
  /\ outq' = IF Wakes(call[f]) = "outq" THEN {} ELSE outq
  /\ StillMissed
  /\ Back(f, "user")
  /\ UNCHANGED <<scull_p_buffer, ringVars, openVars, sem, seen>>

-----------------------------------------------------------------------------
(* wait_event_interruptible, scull_getwritespace and poll *)

Wait(f) ==
  /\ at[f] = "wait"
  /\ inq' = IF call[f] = "read" THEN inq \cup {f} ELSE inq
  /\ outq' = IF call[f] = "write" THEN outq \cup {f} ELSE outq
  /\ Go(f, "peek")
  /\ UNCHANGED <<scull_p_buffer, ringVars, openVars, sem, seen, causeVars>>

\* One of the two pointers is loaded, the other when it is compared.
Peek(f) ==
  /\ at[f] = "peek"
  /\ \E s \in {<<"rp", rp>>, <<"wp", wp>>} : seen' = [seen EXCEPT ![f] = s]
  /\ Go(f, "test")
  /\ UNCHANGED <<scull_p_buffer, ringVars, openVars, sem, inq, outq,
                 causeVars>>

\* Fault: the condition is not looked at again before schedule().
MustSleep_Blindly(f, r, w) == TRUE

MustSleep(f, r, w) == IF call[f] = "read" THEN r = w ELSE spacefree(r, w) = 0

\* A reader whose signal is pending returns now, a writer after finish_wait.
Test(f) ==
  LET r == IF seen[f][1] = "rp" THEN seen[f][2] ELSE rp
      w == IF seen[f][1] = "wp" THEN seen[f][2] ELSE wp
  IN
  /\ at[f] = "test"
  /\ seen' = [seen EXCEPT ![f] = None]
  /\ IF MustSleep(f, r, w)
     THEN \/ Go(f, "asleep") /\ UNCHANGED <<inq, outq>>
          \/ /\ call[f] = "read"
             /\ Back(f, "user")
             /\ inq' = inq \ {f} /\ UNCHANGED outq
     ELSE /\ Go(f, IF call[f] = "read" THEN "down" ELSE "finish")
          /\ inq' = inq \ {f}
          /\ UNCHANGED outq
  /\ UNCHANGED <<scull_p_buffer, ringVars, openVars, sem, causeVars>>

\* The sleeper runs again: woken, or signalled.  A reader loops in
\* wait_event, a poll calls the driver again.
Woke(f, signalled) ==
  /\ at[f] = "asleep"
  /\ \/ signalled
     \/ call[f] = "read" /\ f \notin inq
     \/ call[f] = "write" /\ f \notin outq
     \/ call[f] = "poll" /\ f \notin inq \cap outq
  /\ IF call[f] = "poll" /\ signalled
     THEN Back(f, "user") /\ inq' = inq \ {f} /\ outq' = outq \ {f}
     ELSE /\ Go(f, CASE call[f] = "read" -> "wait"
                     [] call[f] = "write" -> "finish"
                     [] call[f] = "poll" -> "down")
          /\ UNCHANGED <<inq, outq>>
  /\ StillMissed
  /\ UNCHANGED <<scull_p_buffer, ringVars, openVars, sem, seen>>

\* finish_wait; with a signal pending the write returns -ERESTARTSYS.
FinishWait(f, signalled) ==
  /\ at[f] = "finish"
  /\ outq' = outq \ {f}
  /\ StillMissed
  /\ IF signalled THEN Back(f, "user") ELSE Go(f, "down")
  /\ UNCHANGED <<scull_p_buffer, ringVars, openVars, sem, inq, seen>>

Ready(f) ==
  \/ f \in Readers /\ rp # wp
  \/ f \in Writers /\ spacefree(rp, wp) # 0

\* A file polls for what it was opened for and sleeps on both queues.
Poll(f) ==
  /\ Inside(f, "poll")
  /\ IF Ready(f)
     THEN Back(f, "user") /\ inq' = inq \ {f} /\ outq' = outq \ {f}
     ELSE Go(f, "asleep") /\ inq' = inq \cup {f} /\ outq' = outq \cup {f}
  /\ missed' = (missed \ {f}) \cap outq'
  /\ sem' = Free
  /\ UNCHANGED <<scull_p_buffer, ringVars, openVars, seen, resized>>

-----------------------------------------------------------------------------
Section(f) == \/ Open(f) \/ OpenFails(f) \/ Release(f) \/ Poll(f)
              \/ Blocked(f) \/ Read(f) \/ Write(f) \/ Fault(f)

\* The steps of a file inside the driver that need no signal.
Step(f) == \/ Section(f) \/ Wake(f) \/ Wait(f) \/ Peek(f) \/ Test(f)
           \/ Woke(f, FALSE) \/ FinishWait(f, FALSE)

Next ==
  \/ \E f \in Files :
       \/ \E c \in {"open", "read", "write", "poll", "release"} : Call(f, c)
       \/ Fasync(f) \/ Down(f) \/ Interrupted(f) \/ Step(f)
       \/ Woke(f, TRUE) \/ FinishWait(f, TRUE)
  \/ \E n \in BufSizes : Resize(n)

Spec == Init /\ [][Next]_vars

\* Files inside the driver run, and the semaphore serves its waiters in
\* order.  Nothing obliges a file to make another call.
FairSpec ==
  Spec /\ \A f \in Files : WF_vars(Step(f)) /\ SF_vars(Down(f))

-----------------------------------------------------------------------------
(* Properties *)

Calls == {"none", "open", "read", "write", "poll", "release"}
Places == {"closed", "user", "down", "wait", "peek", "test", "asleep",
           "finish", "wake"}

\* Every variable stays in its type; the counts of openings never exceed
\* the files and never go below zero.
TypeOK ==
  /\ scull_p_buffer \in BufSizes
  /\ buffer \in BufSizes \cup {0}
  /\ buffersize \in BufSizes \cup {0}
  /\ rp \in 0 .. MaxOf(BufSizes) /\ wp \in 0 .. MaxOf(BufSizes)
  /\ nreaders \in 0 .. Cardinality(Readers)
  /\ nwriters \in 0 .. Cardinality(Writers)
  /\ async_queue \subseteq AsyncFiles
  /\ sem \in Files \cup {Free}
  /\ inq \subseteq Files /\ outq \subseteq Files
  /\ call \in [Files -> Calls] /\ at \in [Files -> Places]
  /\ seen \in [Files -> {"none", "rp", "wp"} \X (0 .. MaxOf(BufSizes))]
  /\ resized \in BOOLEAN /\ missed \subseteq outq

IsOpen(f) ==
  at[f] # "closed" /\ ~(at[f] = "down" /\ call[f] = "open")

\* dev->end is the end of the buffer ("begin of buf, end of buf", line 35):
\* what read and write copy up to dev->end stays inside the allocation.
EndOfBuffer == buffer # 0 => buffersize = buffer

\* The buffer lives as long as some file is open, with both pointers in it.
BufferLives ==
  /\ buffer # 0 <=> \E f \in Files : IsOpen(f)
  /\ buffer # 0 => rp < buffersize /\ wp < buffersize

\* Every path out of a section has called up() exactly once ("on error the
\* semaphore will be released before returning", line 157).
SemReleased == \A f \in Files : sem = f => at[f] = "down"

\* For all orders of opens, releases and changes of scull_p_buffer: the ring
\* and the counts of openings that decide on its life are consistent, every
\* call leaves the semaphore as it found it, and dev->end is the end of the
\* buffer unless SCULL_P_IOCTSIZE has come while it was allocated.
BufferOK == TypeOK /\ BufferLives /\ SemReleased /\ (EndOfBuffer \/ resized)

WakePending(c) == \E f \in Files : call[f] = c /\ at[f] = "wake"

\* No lost wake-up: nobody sleeps on what it waits for unless the file about
\* to wake it (lines 152 and 219) is on its way, however the loads of rp and
\* wp fall between the steps of the others.  The one exception: line 80 makes
\* room and wakes nobody, so those who stood on outq then may miss it.
NoLostWakeup ==
  \A f \in Files : at[f] = "asleep" =>
    /\ call[f] = "read" /\ f \in inq /\ rp # wp => WakePending("write")
    /\ call[f] = "write" /\ f \in outq \ missed /\ spacefree(rp, wp) # 0
         => WakePending("read")
    /\ (/\ call[f] = "poll" /\ f \in inq \cap outq
        /\ Ready(f) /\ (f \in missed => f \in Readers /\ rp # wp))
         => WakePending("write") \/ WakePending("read")

\* The bytes in the ring, oldest first, each known by its place.
Span(from, to) ==
  [i \in 1 .. (IF from < to THEN to - from ELSE 0) |-> from + i - 1]

Queue ==
  IF buffer = 0 THEN <<>>
  ELSE IF rp <= wp THEN Span(rp, wp)
                   ELSE Span(rp, buffersize) \o Span(0, wp)

\* Every write appends one contiguous block of free places, never so many
\* that the ring looks empty, and every read takes bytes from the front.
\* Nothing else takes any, but that an open or the last release takes all.
Fifo == INSTANCE ByteFifo WITH fifo <- Queue, Capacity <- MaxOf(BufSizes)
Shortens(f) == \/ Inside(f, "read")
               \/ (Inside(f, "open") \/ Inside(f, "release")) /\ Queue' = <<>>
IsFifo == Fifo!Spec
          /\ [][Len(Queue') < Len(Queue) => \E f \in Files : Shortens(f)]_vars

\* While reads keep being served (with data, or by finding none), a blocked
\* write returns, once no other file writes; or an open has made it miss the
\* room it waited for.
ServeRead == \E f \in Readers : Read(f) \/ (Blocked(f) /\ call[f] = "read")
Alone(f) == \A g \in Writers \ {f} : call[g] # "write"

WriteReturns ==
  \A f \in Writers :
    []<><<ServeRead>>_vars /\ <>[]Alone(f)
      => ((call[f] = "write") ~> (at[f] = "user" \/ f \in missed))
=============================================================================
