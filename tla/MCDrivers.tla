----------------------------- MODULE MCDrivers -----------------------------
(***************************************************************************)
(* The drivers, each on a small instance: the first state says which one   *)
(* runs, and the variables of the others keep their first values.          *)
(*                                                                         *)
(* The devices of access.c come from ScullAccess itself.  Their files are  *)
(* two of one user, one of a process of another whose effective user is    *)
(* the first, and one of root, who has no terminal.                        *)
(***************************************************************************)
EXTENDS ScullAccess, TLC

CONSTANTS a1, a2, s, r, alice, sue, tty1, tty2

\* The bounds of the drivers that are proved about: files, users and the rest
CONSTANTS
  UsbFiles, MaxPlugs, MaxReads,                       \* UsbSkel
  TtyFiles, MaxTtys, MaxCount,                        \* TinyTty
  Users, Size, Requests,                              \* Sbull
  Slots, MaxBytes, MaxOpens,                          \* TinySerial
  BdFiles, Minor, Window, MAX_SIZE, BdCounts, MaxCalls    \* ByteDevices

ASSUME UsbAssumption == IsFiniteSet(UsbFiles) /\ MaxPlugs \in Nat

\* The segments of a request have sectors, and the kernel's name is no user's.
ASSUME DiskAssumption ==
  /\ IsFiniteSet(Users) /\ "nobody" \notin Users /\ Size \in Nat
  /\ \A q \in Requests :
       /\ q \in Seq(Nat \ {0}) /\ Len(q) >= 2
       /\ \A i, j \in 1 .. Len(q) : i < j => q[i] < q[j]

ASSUME BytesAssumption ==
  /\ Minor \in [BdFiles -> Nat] /\ Window \in Nat /\ MAX_SIZE \in Nat \ {0}
  /\ BdCounts \subseteq Nat

MCUid == a1 :> alice @@ a2 :> alice @@ s :> sue @@ r :> Root
MCEuid == [MCUid EXCEPT ![s] = alice]
MCTty == a1 :> tty1 @@ a2 :> tty1 @@ s :> tty2 @@ r :> NoTty

VARIABLES
  driver,
  use_napi, lockup, priv, packet, actor, got, trouble,
  shortp_out_head, shortp_out_tail, page, shortp_out_mutex,
  shortp_output_active, sp_at, left, outWaiters, emptyWaiters, work, worker,
  timer, timeout, busy, irq, copied, printed, bug,
  bh, si_page, short_head, short_tail, short_queue, tv_data, tv_head, tv_tail,
  bh_scheduled, bh_at, si_at, si_count, irqs, lines, time, lastRead, si_trouble,
  plug, intfdata, minor, kref, deleted, lock, us_at, us_private_data, found,
  bulk_in_buffer, sent, urbs, us_trouble,
  tty, attached, driver_data, tiny_table, tiny, tt_at, hand, asked, tt_trouble,
  loops, freed, jt_due, fn_at, reader_at, queued, printed_lines, jt_trouble,
  jiq_data, jiq_wait, due, jq_at, file, reads, jq_trouble,
  module, phase, todo, has, pointers, refused, missing,
  request_mode, users, media_change, sb_timer, data, opener, sb_open, written,
  sb_trouble,
  serial, info_tty, opens, xmit, uart_timer, fn, accepted, ts_due, x_char,
  tx_stopped, blocked, ts_trouble,
  bd_kind, f_pos, memory, meant, bd_lines, bd_calls, kbufs, bd_read, bd_trouble,
  method, wired, usual, short_irq, pb_count, pb_at, tried, pending, handler, strays,
  served, bit, logged, raised, pb_trouble,
  mw_kind, flag, mw_at, mw_write, writes, returned, jiffies, delay, j1, elapsed,
  mw_trouble,
  mtu, dev_irq, running, arrived,
  sk_at, add, sk_seen, skull_port_base, base, tried_ports, result

\* The first device fills its pool of two and goes on, the second answers.
Network == INSTANCE Snull
             WITH pool_size <- 2, Weight <- 1, MaxFrames <- [d \in {0, 1} |-> 4 - 3 * d],
                  NapiFrames <- [d \in {0, 1} |-> 4 * (1 - d)], MaxCauses <- 1

\* A write longer than the page is, and one that leaves room
Printer == INSTANCE ShortPrint
             WITH Writers <- {"w1", "w2"}, Page <- 4, Counts <- {2, 5}, MaxBytes <- 5
Interrupts == INSTANCE ShortIrq
                WITH Readers <- {"r1", "r2"}, Lines <- 3, NR_TIMEVAL <- 3, MaxIrqs <- 3

Usb == INSTANCE UsbSkel WITH Files <- UsbFiles, private_data <- us_private_data
Terminal == INSTANCE TinyTty WITH Files <- TtyFiles
Deferred == INSTANCE DeferredWork
              WITH JIT_ASYNC_LOOPS <- 5,
                   Readers <- {"r1", "r2"}, LIMIT <- 2, MaxReads <- 3

Loading == INSTANCE ModuleLoad
             WITH Modules <- {"scull", "scullp", "scullv", "sculld", "scullc", "sbull",
                              "snull", "short", "shortmem", "shortprint", "tiny_tty",
                              "tiny_serial", "lddbus", "usb", "silly", "simple",
                              "skull", "sleepy", "complete", "faulty", "seq", "jit",
                              "jiq", "proc_test", "sysfs_test", "sharemem"},
                  Devices <- 2

\* A bio of two segments, one whose segments differ, and one sector
MCRequests == {<<1, 2, 3>>, <<1, 2, 4>>, <<3, 5>>}
Disk == INSTANCE Sbull

Port == INSTANCE TinySerial WITH due <- ts_due

\* Two minors of silly that access words, and one that is none
MCMinor == <<1, 2, 4>>
Bytes == INSTANCE ByteDevices WITH lines <- bd_lines

\* For short the device on one of the lines that are tried, or on none; for
\* skull ROMs of no size, of 512 bytes, and with the bit of 2 Kbytes
Probe == INSTANCE HardwareProbes
           WITH Trials <- {3, 7}, Wired <- {0, 7}, Rounds <- 1, MaxStrays <- 1,
                MaxRaised <- 2,
                Units <- 8, RomSizes <- {0, 1, 4, 12}, PortBases <- {0, 816}

\* Delays of none, of less than half the range of the counter, and of more
Waits == INSTANCE MiscWaits
           WITH MwReaders <- {"r1", "r2"}, MaxWrites <- 3, Jiffies <- 8,
                Delays <- {0, 2, 4, 5}

\* A packet that is too short, the shortest, the longest that fits, and the
\* longest; an MTU that is refused
Frames == INSTANCE SnullFrames
            WITH Payloads <- {4, 20, 1486, 1500}, MtusAsked <- {67, 1486, 1501},
                 Lines <- {0, 5}

Drivers == {"access", "snull", "shortprint", "short", "usb", "tty", "jit", "jiq",
            "modules", "sbull", "serial", "bytes", "probe", "waits", "frames",
            "skull"}

DriversInit ==
  /\ driver \in Drivers
  /\ Init /\ (driver = "access" \/ device = "scullsingle")
  /\ Network!Init /\ (lockup = 0 \/ ~use_napi)
  /\ (driver = "snull" \/ (~use_napi /\ lockup = 0))
  /\ Printer!Init
  /\ Interrupts!Init /\ (driver = "short" \/ bh)
  /\ Usb!Init /\ Terminal!Init
  /\ Deferred!JitInit /\ Deferred!JiqInit
  /\ Loading!Init /\ (driver = "modules" \/ module = "seq")
  /\ Disk!Init /\ (driver = "sbull" \/ request_mode = "RM_FULL")
  /\ Port!Init
  /\ Bytes!Init /\ (driver = "bytes" \/ bd_kind = "silly")
  /\ Probe!ShortInit /\ (driver = "probe" \/ (method = "self" /\ wired = 0 /\ usual = 7))
  /\ Waits!Init /\ (driver = "waits" \/ mw_kind = "sleepy")
  /\ Frames!Init
  /\ Probe!SkullInit /\ (driver = "skull" \/ skull_port_base = 0)

snullVars == <<use_napi, lockup, priv, packet, actor, got, trouble>>
printVars == <<shortp_out_head, shortp_out_tail, page, shortp_out_mutex,
               shortp_output_active, sp_at, left, outWaiters, emptyWaiters,
               work, worker, timer, timeout, busy, irq, copied, printed, bug>>
shortVars == <<bh, si_page, short_head, short_tail, short_queue, tv_data, tv_head,
               tv_tail, bh_scheduled, bh_at, si_at, si_count, irqs, lines, time,
               lastRead, si_trouble>>
usbVars == <<plug, intfdata, minor, kref, deleted, lock, us_at, us_private_data, found,
             bulk_in_buffer, sent, urbs, us_trouble>>
ttyVars == <<tty, attached, driver_data, tiny_table, tiny, tt_at, hand, asked,
             tt_trouble>>
jitVars == <<loops, freed, jt_due, fn_at, reader_at, queued, printed_lines, jt_trouble>>
jiqVars == <<jiq_data, jiq_wait, due, jq_at, file, reads, jq_trouble>>
loadVars == <<module, phase, todo, has, pointers, refused, missing>>
sbullVars == <<request_mode, users, media_change, sb_timer, data, opener, sb_open,
               written, sb_trouble>>
serialVars == <<serial, info_tty, opens, xmit, uart_timer, fn, accepted, ts_due,
                x_char, tx_stopped, blocked, ts_trouble>>
byteVars == <<bd_kind, f_pos, memory, meant, bd_lines, bd_calls, kbufs, bd_read,
              bd_trouble>>
probeVars == <<method, wired, usual, short_irq, pb_count, pb_at, tried, pending,
               handler, strays, served, bit, logged, raised, pb_trouble>>
waitVars == <<mw_kind, flag, mw_at, mw_write, writes, returned, jiffies, delay, j1,
              elapsed, mw_trouble>>
frameVars == <<mtu, dev_irq, running, arrived>>
skullVars == <<sk_at, add, sk_seen, skull_port_base, base, tried_ports, result>>

Rest ==
  /\ IF driver = "access" THEN TRUE ELSE UNCHANGED vars
  /\ IF driver = "snull" THEN TRUE ELSE UNCHANGED snullVars
  /\ IF driver = "shortprint" THEN TRUE ELSE UNCHANGED printVars
  /\ IF driver = "short" THEN TRUE ELSE UNCHANGED shortVars
  /\ IF driver = "usb" THEN TRUE ELSE UNCHANGED usbVars
  /\ IF driver = "tty" THEN TRUE ELSE UNCHANGED ttyVars
  /\ IF driver = "jit" THEN TRUE ELSE UNCHANGED jitVars
  /\ IF driver = "jiq" THEN TRUE ELSE UNCHANGED jiqVars
  /\ IF driver = "modules" THEN TRUE ELSE UNCHANGED loadVars
  /\ IF driver = "sbull" THEN TRUE ELSE UNCHANGED sbullVars
  /\ IF driver = "serial" THEN TRUE ELSE UNCHANGED serialVars
  /\ IF driver = "bytes" THEN TRUE ELSE UNCHANGED byteVars
  /\ IF driver = "probe" THEN TRUE ELSE UNCHANGED probeVars
  /\ IF driver = "waits" THEN TRUE ELSE UNCHANGED waitVars
  /\ IF driver = "frames" THEN TRUE ELSE UNCHANGED frameVars
  /\ IF driver = "skull" THEN TRUE ELSE UNCHANGED skullVars

DriversNext ==
  /\ \/ driver = "access" /\ Next
     \/ driver = "snull" /\ Network!Next
     \/ driver = "shortprint" /\ Printer!Next
     \/ driver = "short" /\ Interrupts!Next
     \/ driver = "usb" /\ Usb!Next
     \/ driver = "tty" /\ Terminal!Next
     \/ driver = "jit" /\ Deferred!JitNext
     \/ driver = "jiq" /\ Deferred!JiqNext
     \/ driver = "modules" /\ Loading!Next
     \/ driver = "sbull" /\ Disk!Next
     \/ driver = "serial" /\ Port!Next
     \/ driver = "bytes" /\ Bytes!Next
     \/ driver = "probe" /\ Probe!ShortNext
     \/ driver = "waits" /\ Waits!Next
     \/ driver = "frames" /\ Frames!Next
     \/ driver = "skull" /\ Probe!SkullNext
  /\ Rest /\ UNCHANGED driver

driversVars == <<driver, vars, snullVars, printVars, shortVars, usbVars, ttyVars, jitVars,
                 jiqVars, loadVars, sbullVars, serialVars, byteVars, probeVars,
                 waitVars, frameVars, skullVars>>

\* What a kernel runs once it has begun; no process has to call a driver.
DriversSpec ==
  /\ DriversInit /\ [][DriversNext]_driversVars
  /\ \A f \in Files : WF_vars(driver = "access" /\ Step(f))
  /\ \A d \in {0, 1} : WF_snullVars(driver = "snull" /\ Network!Step(d))
  /\ WF_printVars(driver = "shortprint" /\ \E w \in {"w1", "w2"} : Printer!Writing(w))
  /\ WF_printVars(driver = "shortprint" /\ Printer!Printing)
  /\ WF_printVars(driver = "shortprint" /\ Printer!Expires)
  /\ SF_printVars(driver = "shortprint" /\ Printer!Answered)
  /\ WF_shortVars(driver = "short" /\ Interrupts!BottomHalf)
  /\ \A x \in {"r1", "r2"} :
       WF_shortVars(driver = "short" /\ Interrupts!Reading(x))
  /\ WF_jitVars(driver = "jit" /\ Deferred!JitFunction)
  /\ WF_jitVars(driver = "jit" /\ Deferred!JitReader)
  /\ WF_jiqVars(driver = "jiq" /\ Deferred!Running)
  /\ WF_serialVars(driver = "serial" /\ Port!Ticks)
  /\ WF_waitVars(driver = "waits" /\ Waits!Waiting)
  /\ WF_skullVars(driver = "skull" /\ Probe!SkullNext)

-----------------------------------------------------------------------------
(* Properties *)

\* However transmissions, interrupts, polls and timeouts overlap, the packets
\* and frames of the network devices are accounted for, each in one place;
\* what breaks the rest has a cause that is named.  An answer comes back to who
\* asked, and a frame fits into its packet unless the MTU is too large.
PacketsAndFrames ==
  /\ driver = "snull" =>
       /\ Network!PacketsInOnePlace /\ Network!FramesOnce
       /\ Network!BuffersFreedOnce /\ Network!PoolNotOverdrawn
  /\ driver = "frames" => Frames!AnswersComeBack /\ Frames!FitsPacket

\* The printer gets what was written, and its output never stops in between.
PrintsInOrder ==
  driver = "shortprint" =>
    Printer!PrintsInOrder /\ Printer!OutputGoesOn /\ Printer!NeverStuck

\* Interrupts and their lines are read in order, the line that is found is the
\* one that answered, and what a timer, a tasklet or a work prints goes to the
\* reader it is for; a sleeper is woken by what it waits for, and a delay is
\* as long as it should be.  A scan for hardware leaves out no address.
LinesInOrder ==
  /\ driver = "short" => Interrupts!TimesInOrder /\ Interrupts!LinesInOrder
  /\ driver = "jit" => Deferred!PrintsIntoOwnPage /\ Deferred!ReturnsAllLines
  /\ driver = "jiq" => Deferred!PagesOfReaders /\ Deferred!NothingLeftDue
  /\ driver = "probe" => Probe!LineAnswered /\ Probe!SharedOnce
  /\ driver = "waits" => Waits!SleepersWoken /\ Waits!OneForOne /\ Waits!DelayKept
  /\ driver = "skull" =>
       Probe!NothingMissed /\ Probe!RomsSkipped /\ Probe!AllPortsTried

\* A structure unplugged while it is open stays until it is closed, and then
\* goes, whatever comes in between; the users of a disk are counted, its timer
\* never finds one of them, and they see what was written since the medium was
\* changed.  The devices without an owner give back their buffers and keep each
\* byte where its writer's position was.
UsersCounted ==
  /\ driver = "usb" => Usb!RefsExact /\ Usb!NothingDeletedUsed /\ Usb!ReadsOwnPacket
  /\ driver = "sbull" => Disk!UsersExact /\ Disk!MediumKept
  /\ driver = "bytes" => /\ Bytes!WindowKept /\ Bytes!LinesToggle
                         /\ Bytes!StrOnce /\ Bytes!BuffersFreed

\* The port's timer goes on while the port is open, and what goes wrong has a
\* cause that is named; its transmit buffer holds the bytes that are due.
TimerOfPort ==
  /\ driver = "tty" => Terminal!TimerWhileOpen /\ Terminal!FaultsHaveCauses
  /\ driver = "serial" => Port!BytesOnce /\ Port!PortTicks

\* Whatever the kernel refuses, a driver gives back what it has taken and no
\* more, and what can be called finds all it uses, save where a weakness of
\* the driver is named.
LoadsAndUnloads ==
  driver = "modules" =>
    Loading!NothingLeft /\ Loading!GivesBackItsOwn /\ Loading!CallsFindAll

\* Time and again frames have arrived, bytes are printed, interrupts are seen
\* and reads have ended; a scan ends, or is stuck at a ROM of a certain size.
Delivered ==
  []<>(/\ driver = "snull" => Network!Received
       /\ driver = "shortprint" => Printer!AllPrinted
       /\ driver = "short" => Interrupts!EveryIrqSeen
       /\ driver = "jit" => Deferred!ReadReturns
       /\ driver = "jiq" => Deferred!ReadsEnd
       /\ driver = "serial" => Port!WriterGoesOn
       /\ driver = "waits" => Waits!WaitsEnd
       /\ driver = "skull" => Probe!LoadingEnds)
=============================================================================
