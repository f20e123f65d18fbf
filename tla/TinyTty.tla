------------------------------- MODULE TinyTty -------------------------------
(***************************************************************************)
(* One port of ldd3-master/tty/tiny_tty.c.  The first to open it makes its *)
(* structure, which stays, and starts a timer that sends a character and   *)
(* sets itself again until the last to close it deletes the timer.         *)
(*                                                                         *)
(* The kernel makes a tty_struct for the first file and frees it when the  *)
(* last one has been closed; it also closes a file whose open has failed.  *)
(* It calls open and close of a tty one at a time, but for the places      *)
(* where they may sleep: the kmalloc of the structure, and its semaphore,  *)
(* which a write holds while it prints.  The ioctls do not sleep, but for  *)
(* TIOCMIWAIT.                                                             *)
(***************************************************************************)
EXTENDS Integers, FiniteSets

CONSTANTS
  Files,     \* files on the port
  MaxTtys,   \* bound: tty_structs made, one after the other
  MaxCount   \* bound: opens counted

VARIABLES
  tty, attached,    \* the number of the tty_struct, the files that have it
  driver_data,      \* its structure, or 0
  tiny_table,       \* the structure of the port, or 0
  tiny,             \* of each structure: its tty, open_count, timer and mcr,
                    \* and where the timer's function is
  asked,            \* the modem lines that were asked for
  tt_at, hand,      \* of each file: its place, and the structure it works on
  tt_trouble

ttyVars == <<tty, attached, driver_data, tiny_table, tiny, asked, tt_at,
             hand, tt_trouble>>

Structs == 1 .. 2

Init ==
  /\ tty = 0 /\ attached = {} /\ driver_data = 0
  /\ tiny_table = 0
  /\ tiny = [k \in Structs |->
       [made |-> FALSE, tty |-> 0, open_count |-> 0, timer |-> "none", running |-> 0,
        mcr |-> {}]]
  /\ asked = {}
  /\ tt_at = [f \in Files |-> "closed"] /\ hand = [f \in Files |-> 0]
  /\ tt_trouble = {}

Go(f, place) == tt_at' = [tt_at EXCEPT ![f] = place]
Hold(f, k) == hand' = [hand EXCEPT ![f] = k]
If(what, when) == IF when THEN {what} ELSE {}
Trouble(what) == tt_trouble' = tt_trouble \cup what

-----------------------------------------------------------------------------
(* Open *)

\* tiny_open up to the kmalloc: whatever the tty pointed to is forgotten.
Enter(f) ==
  /\ tt_at[f] = "closed"
  /\ attached # {} \/ tty < MaxTtys
  /\ \A k \in Structs : tiny[k].open_count < MaxCount
  /\ tty' = IF attached = {} THEN tty + 1 ELSE tty
  /\ attached' = attached \cup {f}
  /\ driver_data' = 0
  /\ Hold(f, tiny_table)
  /\ Go(f, IF tiny_table = 0 THEN "alloc" ELSE "down")
  /\ UNCHANGED <<tiny_table, tiny, asked, tt_trouble>>

\* The structure is made, or -ENOMEM.  What its memory holds for the modem lines
\* is as if asked for.
Make(f) ==
  /\ tt_at[f] = "alloc"
  /\ \/ \E k \in Structs :
          /\ ~tiny[k].made /\ \A j \in 1 .. k - 1 : tiny[j].made
          /\ tiny' = [tiny EXCEPT ![k].made = TRUE]
          /\ asked' = tiny[k].mcr
          /\ tiny_table' = k
          /\ Hold(f, k)
          /\ Go(f, "down")
          /\ Trouble(If("two structures", tiny_table # 0))
     \/ /\ Go(f, "refused")
        /\ UNCHANGED <<tiny, asked, tiny_table, hand>>
        /\ Trouble(If("lost", attached # {f}))
  /\ UNCHANGED <<tty, attached, driver_data>>

\* Fault: the timer is set by every open.
First_Any(k) == TRUE

First(k) == tiny[k].open_count = 0

\* Nobody prints under the semaphore.
Down(k) == \A f \in Files : ~(tt_at[f] = "printing" /\ hand[f] = k)

\* The section of tiny_open: the timer of the first to open, or -ENOMEM with
\* the file counted
Opened(f) ==
  LET k == hand[f]
      set(timer) == [tiny EXCEPT ![k] = [@ EXCEPT !.tty = tty, !.open_count = @ + 1,
                                                   !.timer = timer]]
  IN /\ tt_at[f] = "down" /\ Down(k)
     /\ driver_data' = k
     /\ Hold(f, 0)
     /\ \/ /\ First(k)
           /\ tiny' = set("set")
           /\ Go(f, "open")
           /\ Trouble(If("set twice", tiny[k].timer = "set"))
        \/ /\ First(k) /\ tiny[k].timer = "none"
           /\ tiny' = set("none")
           /\ Go(f, "failed")
           /\ Trouble({"no timer"})
        \/ /\ ~First(k)
           /\ tiny' = set(tiny[k].timer)
           /\ Go(f, "open")
           /\ UNCHANGED tt_trouble
     /\ UNCHANGED <<tty, attached, tiny_table, asked>>

-----------------------------------------------------------------------------
(* Close *)

\* tiny_close looks the structure up before it takes the semaphore.
Closing(f) ==
  /\ tt_at[f] \in {"open", "failed", "refused"}
  /\ Hold(f, driver_data)
  /\ Go(f, IF driver_data = 0 THEN "leaving" ELSE "closing")
  /\ Trouble(If("forgotten", tt_at[f] = "open" /\ driver_data = 0)
             \cup If("not its own", tt_at[f] = "refused" /\ driver_data # 0))
  /\ UNCHANGED <<tty, attached, driver_data, tiny_table, tiny, asked>>

\* do_close: del_timer does not wait for the timer's function.
do_close(f) ==
  LET k == hand[f]
      last == tiny[k].open_count = 1
  IN /\ tt_at[f] = "closing" /\ Down(k)
     /\ IF tiny[k].open_count = 0
        THEN UNCHANGED <<tiny, tt_trouble>>
        ELSE /\ tiny' = [tiny EXCEPT ![k] = [@ EXCEPT !.open_count = @ - 1,
                           !.timer = IF last /\ @ = "set" THEN "deleted" ELSE @]]
             /\ Trouble(If("null timer", last /\ tiny[k].timer = "none")
                        \cup If("deleted too late", last /\ tiny[k].running # 0))
     /\ Hold(f, 0)
     /\ Go(f, "leaving")
     /\ UNCHANGED <<tty, attached, driver_data, tiny_table, asked>>

\* The kernel's part: the tty_struct goes with the last file.
Leave(f) ==
  /\ tt_at[f] = "leaving"
  /\ attached' = attached \ {f}
  /\ driver_data' = IF attached' = {} THEN 0 ELSE driver_data
  /\ Go(f, "closed")
  /\ UNCHANGED <<tty, tiny_table, tiny, asked, hand, tt_trouble>>

-----------------------------------------------------------------------------
(* Calls of an open file *)

\* tiny_write and tiny_write_room look their structure up, -ENODEV without one.
LookUp(f) ==
  /\ tt_at[f] = "open" /\ driver_data # 0
  /\ Hold(f, driver_data) /\ Go(f, "looked up")
  /\ UNCHANGED <<tty, attached, driver_data, tiny_table, tiny, asked, tt_trouble>>

\* tiny_write prints what it is given, and returns -EINVAL all the same.
tiny_write(f) ==
  /\ tt_at[f] = "looked up" /\ Down(hand[f])
  /\ tiny[hand[f]].open_count > 0 /\ Go(f, "printing")
  /\ UNCHANGED <<tty, attached, driver_data, tiny_table, tiny, asked, hand, tt_trouble>>

Up(f) ==
  /\ tt_at[f] = "printing"
  /\ Hold(f, 0) /\ Go(f, "open")
  /\ UNCHANGED <<tty, attached, driver_data, tiny_table, tiny, asked, tt_trouble>>

\* It is also how a write ends that finds the port closed.
tiny_write_room(f) ==
  /\ tt_at[f] = "looked up" /\ Down(hand[f])
  /\ Trouble(If("found closed", tiny[hand[f]].open_count = 0))
  /\ Hold(f, 0) /\ Go(f, "open")
  /\ UNCHANGED <<tty, attached, driver_data, tiny_table, tiny, asked>>

\* Fault: lines are cleared before they are set.
Masked_First(mcr, set, clear) == (mcr \ clear) \cup set

\* DTR is taken for RTS; what is both set and cleared is cleared.
Masked(mcr, set, clear) ==
  LET rts(lines) == IF lines = {} THEN {} ELSE {"RTS"}
  IN  (mcr \cup rts(set)) \ rts(clear)

\* Without a look at whether there is a structure
tiny_tiocmset(f, set, clear) ==
  /\ tt_at[f] = "open"
  /\ IF driver_data = 0
     THEN Trouble({"null structure"}) /\ UNCHANGED <<tiny, asked>>
     ELSE /\ tiny' = [tiny EXCEPT ![driver_data].mcr = Masked(@, set, clear)]
          /\ asked' = (asked \cup set) \ clear
          /\ Trouble(If("DTR taken for RTS", "DTR" \in set \cup clear))
  /\ UNCHANGED <<tty, attached, driver_data, tiny_table, tt_at, hand>>

tiny_tiocmget(f) ==
  /\ tt_at[f] = "open" /\ driver_data = 0
  /\ Trouble({"null structure"})
  /\ UNCHANGED <<tty, attached, driver_data, tiny_table, tiny, asked, tt_at, hand>>

\* They read the structure, as tiocmget does.
tiny_ioctl_tiocgserial(f) == tiny_tiocmget(f)
tiny_ioctl_tiocgicount(f) == tiny_tiocmget(f)

\* TIOCMIWAIT sleeps on a queue that nobody has initialised.
tiny_ioctl_tiocmiwait(f) ==
  /\ tt_at[f] = "open"
  /\ Trouble(IF driver_data = 0 THEN {"null structure"} ELSE {"no queue"})
  /\ UNCHANGED <<tty, attached, driver_data, tiny_table, tiny, asked, tt_at, hand>>

tiny_ioctl(f) ==
  \/ tiny_ioctl_tiocgserial(f) \/ tiny_ioctl_tiocmiwait(f) \/ tiny_ioctl_tiocgicount(f)

-----------------------------------------------------------------------------
(* The timer *)

\* tiny_timer: it looks at its tty, sends to it, and is set again.
Expire(k) ==
  /\ tiny[k].timer = "set" /\ tiny[k].running = 0
  /\ tiny' = [tiny EXCEPT ![k] = [@ EXCEPT !.timer = "expired", !.running = tiny[k].tty]]
  /\ UNCHANGED <<tty, attached, driver_data, tiny_table, asked, tt_at, hand, tt_trouble>>

Send(k) ==
  /\ tiny[k].running # 0
  /\ tiny' = [tiny EXCEPT ![k] = [@ EXCEPT !.timer = "set", !.running = 0]]
  /\ Trouble(If("freed tty", attached = {} \/ tiny[k].running # tty)
             \cup If("set twice", tiny[k].timer = "set"))
  /\ UNCHANGED <<tty, attached, driver_data, tiny_table, asked, tt_at, hand>>

Faults == {"freed tty", "set twice", "null timer", "null structure", "no queue",
           "DTR taken for RTS"}

\* A behaviour ends with its first fault, or its second cause of one.
Healthy == tt_trouble \cap Faults = {} /\ Cardinality(tt_trouble) <= 1

Next ==
  /\ Healthy
  /\ \/ \E f \in Files : \/ Enter(f) \/ Make(f) \/ Opened(f)
                         \/ Closing(f) \/ do_close(f) \/ Leave(f)
                         \/ LookUp(f) \/ tiny_write(f) \/ Up(f) \/ tiny_write_room(f)
                         \/ tiny_tiocmget(f) \/ tiny_ioctl(f)
                         \/ \E set, clear \in {{}, {"DTR"}, {"RTS"}} :
                              tiny_tiocmset(f, set, clear)
     \/ \E k \in Structs : Expire(k) \/ Send(k)

-----------------------------------------------------------------------------
(* Properties *)

Counted == {"open", "closing", "failed", "looked up", "printing"}
At(places) == {f \in Files : tt_at[f] \in places}

\* The count is that of the files that are open or being closed, the timer goes
\* on exactly while there are any, and the modem lines are those asked for,
\* until something of what follows has happened.
TimerWhileOpen ==
  tt_trouble = {} =>
    \A k \in Structs :
      /\ tiny[k].open_count =
           IF k = tiny_table THEN Cardinality(At(Counted)) ELSE 0
      /\ tiny[k].open_count > 0 <=> tiny[k].timer = "set" \/ tiny[k].running # 0
      /\ k = tiny_table => tiny[k].mcr = asked

\* Nothing else brings a fault: no timer is set twice and no tty used that is
\* gone unless the function ran while it was deleted, two structures were
\* made, or an open made the tty forget its structure; only a timer that could
\* not be made is missing.  A file finds its structure, and its port open, but
\* while another opens it or where an open has been refused.
FaultsHaveCauses ==
  /\ {"freed tty", "set twice"} \cap tt_trouble # {} =>
       {"deleted too late", "two structures", "forgotten"} \cap tt_trouble # {}
  /\ "null timer" \in tt_trouble => "no timer" \in tt_trouble
  /\ "null structure" \in tt_trouble =>
       At({"alloc", "down", "refused"}) # {} \/ "lost" \in tt_trouble
  /\ "found closed" \in tt_trouble =>
       {"two structures", "not its own"} \cap tt_trouble # {}
=============================================================================
