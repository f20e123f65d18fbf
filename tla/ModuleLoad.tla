----------------------------- MODULE ModuleLoad -----------------------------
(***************************************************************************)
(* Loading and unloading the drivers: module_init and module_exit of each. *)
(* A driver asks the kernel for one thing after the other, the kernel may  *)
(* refuse each, and what the driver does about it is what is modelled: it  *)
(* goes on, or gives back what it has and fails.  Meanwhile its entry      *)
(* points can be called as soon as they are registered, and timers and     *)
(* works that calls have left behind go on.                                *)
(*                                                                         *)
(* An initialisation or a cleanup is a sequence of steps.  A resource is a *)
(* tuple: its name, a number where the driver has several, and "ref" for   *)
(* the reference to a cdev that cdev_init() takes.                         *)
(***************************************************************************)
EXTENDS Naturals, Sequences, FiniteSets

CONSTANTS
  Modules,      \* the drivers that are loaded, some of those below
  Devices       \* devices of a driver (scull_nr_devs, ndevices, ...)

VARIABLES
  module,       \* the driver
  phase,        \* "loading", "loaded", "failing", "failed", "unloading", "gone", "dead"
  todo,         \* steps that remain
  has,          \* what the driver holds of the kernel
  pointers,     \* what its variables point to, valid or not
  refused,      \* what the kernel has refused
  missing       \* what was given back, or used, although it was not there

loadVars == <<module, phase, todo, has, pointers, refused, missing>>

-----------------------------------------------------------------------------
(* Steps *)

Step(op, r) == <<[op |-> op, of |-> r]>>

Take(r) == Step("take", r)     \* cannot be refused
Get(r) == Step("get", r)       \* may be refused
Put(r) == Step("put", r)
Drop(r) == Step("drop", r)     \* harmless if it is not there
Clear(r) == Step("clear", r)   \* the variable becomes NULL
Use(r) == Step("use", r)       \* a pointer nobody has looked at
Sync(r) == Step("sync", r)     \* waits for a timer or a work
If(r, then, otherwise) == <<[op |-> "if", of |-> r, then |-> then, otherwise |-> otherwise]>>

\* The initialisation fails unless so many of these have been got.
Need(n, R, undo) == <<[op |-> "need", least |-> n, among |-> R, undo |-> undo]>>
Try(r, undo) == Get(r) \o Need(1, {r}, undo)

\* For the devices, one after the other
Each(F(_)) ==
  LET upTo[i \in 0 .. Devices] == IF i = 0 THEN <<>> ELSE upTo[i - 1] \o F(i)
  IN  upTo[Devices]

Ref(r) == Append(r, "ref")
Running(a) == Append(a, "running")

\* cdev_init and cdev_add; cdev_del
Cdev(r) == Take(Ref(r)) \o Get(r)
DelCdev(r) == Drop(r) \o Put(Ref(r))

-----------------------------------------------------------------------------
(* scull: main.c, pipe.c and access.c, each of which may fail by itself     *)

PipeInit ==
  Get(<<"pipe numbers">>) \o
  If(<<"pipe numbers">>,
     Get(<<"pipe devices">>) \o
     If(<<"pipe devices">>,
        Each(LAMBDA i : Cdev(<<"pipe", i>>)) \o Get(<<"proc">>),
        Put(<<"pipe numbers">>)),
     <<>>)

PipeExit ==
  Drop(<<"proc">>) \o
  If(<<"pipe devices">>,
     Each(LAMBDA i : DelCdev(<<"pipe", i>>)) \o Put(<<"pipe devices">>) \o
     Put(<<"pipe numbers">>) \o Clear(<<"pipe devices">>),
     <<>>)

\* A cdev that is refused gives up its reference.
AccessSetup(i) ==
  Cdev(<<"access", i>>) \o If(<<"access", i>>, <<>>, Put(Ref(<<"access", i>>)))

AccessInit ==
  Get(<<"access numbers">>) \o If(<<"access numbers">>, Each(AccessSetup), <<>>)

AccessExit == Each(LAMBDA i : DelCdev(<<"access", i>>)) \o Put(<<"access numbers">>)

\* scullmem and scullseq
scull_create_proc == Get(<<"seq">>)
scull_remove_proc == Drop(<<"seq">>)

ScullExit ==
  If(<<"devices">>, Each(LAMBDA i : DelCdev(<<"cdev", i>>)) \o Put(<<"devices">>), <<>>) \o
  scull_remove_proc \o Put(<<"numbers">>) \o PipeExit \o AccessExit

ScullInit ==
  Try(<<"numbers">>, <<>>) \o Try(<<"devices">>, ScullExit) \o
  Each(LAMBDA i : Cdev(<<"cdev", i>>)) \o PipeInit \o AccessInit \o scull_create_proc

-----------------------------------------------------------------------------
(* scullp, scullv, sculld, scullc                                           *)

CdevsInit == Each(LAMBDA i : Cdev(<<"cdev", i>>)) \o Get(<<"proc">>)

ScullpInit ==
  Try(<<"numbers">>, <<>>) \o Try(<<"devices">>, Put(<<"numbers">>)) \o CdevsInit
ScullpExit_Keeps ==    \* Fault: the numbers stay.
  Drop(<<"proc">>) \o Each(LAMBDA i : DelCdev(<<"cdev", i>>)) \o Put(<<"devices">>)
ScullpExit ==
  Drop(<<"proc">>) \o Each(LAMBDA i : DelCdev(<<"cdev", i>>)) \o
  Put(<<"devices">>) \o Put(<<"numbers">>)

ScullvInit ==
  Try(<<"numbers">>, <<>>) \o Try(<<"devices">>, Put(<<"numbers">>)) \o CdevsInit
ScullvExit ==
  Drop(<<"proc">>) \o Each(LAMBDA i : DelCdev(<<"cdev", i>>)) \o
  Put(<<"devices">>) \o Put(<<"numbers">>)

\* What lddbus exports.  A driver stays registered if its attribute, which
\* driver_unregister takes with it, could not be made.
register_ldd_driver ==
  Get(<<"ldd driver">>) \o If(<<"ldd driver">>, Get(<<"ldd version">>), <<>>)
unregister_ldd_driver == Drop(<<"ldd version">>) \o Put(<<"ldd driver">>)
register_ldd_device(i) == Get(<<"ldd device", i>>)
unregister_ldd_device(i) == Put(<<"ldd device", i>>)

\* Whether the driver and its devices could be registered is not looked at.
SculldInit ==
  Try(<<"numbers">>, <<>>) \o register_ldd_driver \o
  Try(<<"devices">>, Put(<<"numbers">>)) \o
  Each(LAMBDA i : Cdev(<<"cdev", i>>) \o register_ldd_device(i)) \o Get(<<"proc">>)
SculldExit ==
  Drop(<<"proc">>) \o
  Each(LAMBDA i : unregister_ldd_device(i) \o DelCdev(<<"cdev", i>>)) \o
  Put(<<"devices">>) \o unregister_ldd_driver \o Put(<<"numbers">>)

ScullcExit ==
  Drop(<<"proc">>) \o Each(LAMBDA i : DelCdev(<<"cdev", i>>)) \o
  Put(<<"devices">>) \o If(<<"cache">>, Put(<<"cache">>), <<>>) \o Put(<<"numbers">>)
ScullcInit ==
  Try(<<"numbers">>, <<>>) \o Try(<<"devices">>, Put(<<"numbers">>)) \o
  Each(LAMBDA i : Cdev(<<"cdev", i>>)) \o Try(<<"cache">>, ScullcExit) \o Get(<<"proc">>)

-----------------------------------------------------------------------------
(* sbull.  The major is asked for as "sbull" and given back as "sbd", which *)
(* unregister_blkdev refuses.                                               *)

SetupDisk(i) ==
  Get(<<"data", i>>) \o
  If(<<"data", i>>,
     Take(<<"invalidate", i>>) \o Get(<<"queue", i>>) \o
     If(<<"queue", i>>,
        Get(<<"gd", i>>) \o If(<<"gd", i>>, Take(<<"disk", i>>), Put(<<"data", i>>)),
        Put(<<"data", i>>)),
     <<>>)

SbullInit ==
  Try(<<"blkdev">>, <<>>) \o Try(<<"Devices">>, <<>>) \o Each(SetupDisk)

SbullExit ==
  Each(LAMBDA i :
    Put(<<"invalidate", i>>) \o
    If(<<"gd", i>>, Put(<<"disk", i>>) \o Put(<<"gd", i>>), <<>>) \o
    If(<<"queue", i>>, Put(<<"queue", i>>), <<>>) \o
    If(<<"data", i>>, Put(<<"data", i>>), <<>>)) \o
  Put(<<"blkdev">>) \o Put(<<"Devices">>)

-----------------------------------------------------------------------------
(* snull has two devices, and is content with one that is registered.       *)

Both(F(_)) == F(0) \o F(1)

SnullExit ==
  Both(LAMBDA d : If(<<"netdev", d>>, Put(<<"net", d>>) \o Put(<<"netdev", d>>), <<>>))

SnullInit ==
  Both(LAMBDA d : Get(<<"netdev", d>>)) \o
  Need(2, {<<"netdev", 0>>, <<"netdev", 1>>}, SnullExit) \o
  Both(LAMBDA d : Get(<<"net", d>>)) \o
  Need(1, {<<"net", 0>>, <<"net", 1>>}, SnullExit)

-----------------------------------------------------------------------------
(* short, with ports or with memory, and shortprint                         *)

\* request_mem_region() is undone with release_region(), and ioremap() not at
\* all; later the address that is given back is the mapped one.
ShortMem ==
  Try(<<"mem region">>, <<>>) \o Get(<<"mapping">>) \o
  Try(<<"major">>, Put(<<"ports">>))
ShortPorts == Try(<<"ports">>, <<>>) \o Try(<<"major">>, Put(<<"ports">>))

\* With a bottom half the handler is taken away and another one asked for.
ShortIrq == Get(<<"irq">>)
ShortBhIrq == Get(<<"irq">>) \o If(<<"irq">>, Put(<<"irq">>) \o Get(<<"irq">>), <<>>)

ShortExit(use_mem) ==
  If(<<"irq">>, Put(<<"irq">>), <<>>) \o Put(<<"major">>) \o
  (IF use_mem THEN Drop(<<"mapping">>) \o Put(<<"mapped region">>) ELSE Put(<<"ports">>)) \o
  If(<<"buffer">>, Put(<<"buffer">>), <<>>)

ShortpExit ==
  If(<<"irq">>, Put(<<"irq">>), <<>>) \o Put(<<"major">>) \o Put(<<"ports">>) \o
  If(<<"timer">>, Sync(<<"timer">>), <<>>) \o Sync(<<"work">>) \o Put(<<"workqueue">>) \o
  If(<<"in">>, Put(<<"in">>), <<>>) \o If(<<"out">>, Put(<<"out">>), <<>>)

ShortpInit ==
  Try(<<"ports">>, <<>>) \o Try(<<"major">>, Put(<<"ports">>)) \o
  Get(<<"in">>) \o Get(<<"out">>) \o Get(<<"workqueue">>) \o Try(<<"irq">>, ShortpExit)

-----------------------------------------------------------------------------
(* Terminals, the bus and the smaller drivers                               *)

TinyTtyInit ==
  Try(<<"tty driver">>, <<>>) \o
  Try(<<"registered">>, Put(<<"tty driver">>)) \o Each(LAMBDA i : Get(<<"tty", i>>))
TinyTtyExit ==
  Each(LAMBDA i : Drop(<<"tty", i>>)) \o Put(<<"registered">>) \o
  If(<<"port">>, Drop(<<"timer">>) \o Put(<<"port">>), <<>>)

\* tiny_serial cannot be unloaded.
TinySerialInit == Try(<<"uart driver">>, <<>>) \o Try(<<"uart">>, Put(<<"uart driver">>))

LddBusInit == Try(<<"bus">>, <<>>) \o Get(<<"version">>) \o Try(<<"ldd0">>, <<>>)
LddBusExit == Put(<<"ldd0">>) \o Drop(<<"version">>) \o Put(<<"bus">>)

UsbInit == Try(<<"usb driver">>, <<>>)
UsbExit == Put(<<"usb driver">>)

SillyInit == Try(<<"major">>, <<>>) \o Get(<<"mapping">>)
SillyExit == Drop(<<"mapping">>) \o Put(<<"major">>)

SimpleInit == Try(<<"numbers">>, <<>>) \o Cdev(<<"cdev", 0>>) \o Cdev(<<"cdev", 1>>)
SimpleExit == DelCdev(<<"cdev", 0>>) \o DelCdev(<<"cdev", 1>>) \o Put(<<"numbers">>)

\* skull probes the memory hole and finds no hardware; it never unmaps.
SkullInit == Get(<<"mapping">>) \o Use(<<"mapping">>)

\* cdev_alloc() is not looked at, and the cdev is never deleted.
SleepyInit ==
  Try(<<"numbers">>, <<>>) \o Get(<<"stray", 0, "ref">>) \o
  Use(<<"stray", 0, "ref">>) \o Get(<<"stray", 0>>)
SleepyExit == Put(<<"numbers">>)
CompleteInit ==
  Try(<<"numbers">>, <<>>) \o Get(<<"stray", 0, "ref">>) \o
  Use(<<"stray", 0, "ref">>) \o Get(<<"stray", 0>>)
CompleteExit == Put(<<"numbers">>)
FaultyInit ==
  Try(<<"numbers">>, <<>>) \o Get(<<"stray", 0, "ref">>) \o
  Use(<<"stray", 0, "ref">>) \o Get(<<"stray", 0>>)
FaultyExit == Put(<<"numbers">>)

\* Entries of /proc: nobody looks whether they could be made.
SeqInit == Get(<<"proc">>)
SeqExit == Drop(<<"proc">>)
JitInit == Get(<<"proc">>)
JitExit == Drop(<<"proc">>)
JiqInit == Get(<<"proc">>)
JiqExit == Drop(<<"proc">>)

ProcTestInit == Try(<<"dir">>, <<>>) \o Try(<<"proc">>, Put(<<"dir">>) \o Clear(<<"dir">>))
ProcTestExit ==
  If(<<"dir">>, If(<<"proc">>, Put(<<"proc">>), <<>>) \o Put(<<"dir">>), <<>>)

\* kobject_del() does not give back what kobject_create_and_add() has made.
SysfsTestInit == Try(<<"kobject">>, <<>>) \o Try(<<"group">>, <<>>)
SysfsTestExit == Put(<<"group">>)

ShareMemInit == Get(<<"debugfs">>) \o Try(<<"misc">>, <<>>)
ShareMemExit == Use(<<"pages">>) \o Put(<<"pages">>) \o Put(<<"misc">>)

-----------------------------------------------------------------------------
\* What module_init and module_exit run
InitSteps ==
  [scull |-> ScullInit, scullp |-> ScullpInit, scullv |-> ScullvInit,
   sculld |-> SculldInit, scullc |-> ScullcInit, sbull |-> SbullInit,
   snull |-> SnullInit,
   short |-> ShortPorts \o Get(<<"buffer">>) \o ShortBhIrq,
   shortmem |-> ShortMem \o Get(<<"buffer">>) \o ShortIrq,
   shortprint |-> ShortpInit, tiny_tty |-> TinyTtyInit, tiny_serial |-> TinySerialInit,
   lddbus |-> LddBusInit, usb |-> UsbInit, silly |-> SillyInit, simple |-> SimpleInit,
   skull |-> SkullInit, sleepy |-> SleepyInit, complete |-> CompleteInit,
   faulty |-> FaultyInit, seq |-> SeqInit, jit |-> JitInit, jiq |-> JiqInit,
   proc_test |-> ProcTestInit, sysfs_test |-> SysfsTestInit, sharemem |-> ShareMemInit]

ExitSteps ==
  [scull |-> ScullExit, scullp |-> ScullpExit, scullv |-> ScullvExit,
   sculld |-> SculldExit, scullc |-> ScullcExit, sbull |-> SbullExit,
   snull |-> SnullExit, short |-> ShortExit(FALSE), shortmem |-> ShortExit(TRUE),
   shortprint |-> ShortpExit, tiny_tty |-> TinyTtyExit, lddbus |-> LddBusExit,
   usb |-> UsbExit, silly |-> SillyExit, simple |-> SimpleExit, skull |-> <<>>,
   sleepy |-> SleepyExit, complete |-> CompleteExit, faulty |-> FaultyExit,
   seq |-> SeqExit, jit |-> JitExit, jiq |-> JiqExit, proc_test |-> ProcTestExit,
   sysfs_test |-> SysfsTestExit, sharemem |-> ShareMemExit]

Fresh ==
  /\ phase = "loading" /\ todo = InitSteps[module]
  /\ has = {} /\ pointers = {} /\ refused = {} /\ missing = {}

Init == module \in Modules /\ Fresh

-----------------------------------------------------------------------------
(* What runs beside: calls start timers and works, which start others       *)

\* What calls of the driver may leave behind
Leaves ==
  CASE module \in {"jit", "shortprint"} -> {<<"timer">>, <<"work">>}
    [] module = "jiq" -> {<<"work">>}
    [] module = "tiny_tty" -> {<<"port">>, <<"timer">>}
    [] module = "sharemem" -> {<<"area">>, <<"pages">>}
    [] OTHER -> {}

\* The port comes before its timer, the kernel's address before the page.
Before == [timer |-> <<"port">>, pages |-> <<"area">>]

Called ==
  /\ phase = "loaded"
  /\ \E r \in Leaves :
       /\ r[1] \in DOMAIN Before /\ Before[r[1]] \in Leaves => Before[r[1]] \in has
       /\ has' = has \union {r} /\ pointers' = pointers \union {r}
  /\ UNCHANGED <<module, phase, todo, refused, missing>>

Timers == {<<"timer">>, <<"work">>}

Fires(a) ==
  /\ a \in has
  /\ has' = (has \ {a}) \union {Running(a)}
  /\ UNCHANGED <<module, phase, todo, pointers, refused, missing>>

\* It sets itself again, or starts the other: in shortprint the work sets the
\* timer, and the timer queues the work.
Ends(a) ==
  /\ Running(a) \in has
  /\ \E S \in {{}, {a}} \union (IF module = "shortprint" THEN {{<<"timer">>}, {<<"work">>}}
                                ELSE {}) :
       has' = (has \ {Running(a)}) \union S
  /\ UNCHANGED <<module, phase, todo, pointers, refused, missing>>

Beside == Called \/ \E a \in Timers : Fires(a) \/ Ends(a)

-----------------------------------------------------------------------------
(* The steps *)

Busy == todo # <<>> /\ phase # "dead"
Now == Head(todo)
On == todo' = Tail(todo) /\ UNCHANGED <<module, phase>>

Taken ==
  /\ Busy /\ Now.op \in {"take", "get"}
  /\ has' = has \union {Now.of} /\ pointers' = pointers \union {Now.of}
  /\ On /\ UNCHANGED <<refused, missing>>

Refused ==
  /\ Busy /\ Now.op = "get"
  /\ pointers' = pointers \ {Now.of} /\ refused' = refused \union {Now.of}
  /\ On /\ UNCHANGED <<has, missing>>

\* The initialisation ends here unless enough has been got.
Looked ==
  /\ Busy /\ Now.op = "need"
  /\ IF Cardinality(Now.among \intersect pointers) >= Now.least
     THEN On
     ELSE todo' = Now.undo /\ phase' = "failing" /\ UNCHANGED module
  /\ UNCHANGED <<has, pointers, refused, missing>>

Branched ==
  /\ Busy /\ Now.op = "if"
  /\ todo' = (IF Now.of \in pointers THEN Now.then ELSE Now.otherwise) \o Tail(todo)
  /\ UNCHANGED <<module, phase, has, pointers, refused, missing>>

GivenBack ==
  /\ Busy /\ Now.op \in {"put", "drop"}
  /\ has' = has \ {Now.of}
  /\ missing' = IF Now.op = "put" /\ Now.of \notin has
                THEN missing \union {Now.of} ELSE missing
  /\ On /\ UNCHANGED <<pointers, refused>>

Cleared ==
  /\ Busy /\ Now.op = "clear"
  /\ pointers' = pointers \ {Now.of}
  /\ On /\ UNCHANGED <<has, refused, missing>>

Used ==
  /\ Busy /\ Now.op = "use"
  /\ IF Now.of \in has
     THEN On /\ UNCHANGED missing
     ELSE /\ missing' = missing \union {Now.of} /\ phase' = "dead"
          /\ UNCHANGED <<module, todo>>
  /\ UNCHANGED <<has, pointers, refused>>

\* del_timer_sync and flush_workqueue wait for the end of what is running; the
\* latter lets run first what is queued.
Synced ==
  /\ Busy /\ Now.op = "sync"
  /\ Running(Now.of) \notin has
  /\ Now.of = <<"work">> => Now.of \notin has
  /\ has' = has \ {Now.of}
  /\ On /\ UNCHANGED <<pointers, refused, missing>>

Finished ==
  /\ todo = <<>> /\ phase \in {"loading", "failing", "unloading"}
  /\ phase' = CASE phase = "loading" -> "loaded"
                [] phase = "failing" -> "failed"
                [] phase = "unloading" -> "gone"
  /\ UNCHANGED <<module, todo, has, pointers, refused, missing>>

\* Nobody has one of its files open.
Unload ==
  /\ phase = "loaded" /\ module \in DOMAIN ExitSteps
  /\ phase' = "unloading" /\ todo' = ExitSteps[module]
  /\ UNCHANGED <<module, has, pointers, refused, missing>>

Restart ==
  /\ phase \in {"failed", "gone", "dead"} \/ (phase = "loaded" /\ module \notin DOMAIN ExitSteps)
  /\ phase' = "loading" /\ todo' = InitSteps[module] /\ UNCHANGED module
  /\ has' = {} /\ pointers' = {} /\ refused' = {} /\ missing' = {}

Next ==
  \/ Taken \/ Refused \/ Looked \/ Branched \/ GivenBack \/ Cleared
  \/ Used \/ Synced \/ Finished
  \/ Unload \/ Beside \/ Restart

-----------------------------------------------------------------------------
(* Properties *)

\* What a call through an entry point, or a timer, touches
Needs(r) ==
  CASE module = "scull" /\ r[1] \in {"cdev", "seq"} -> {<<"devices">>}
    [] module = "scull" /\ r[1] \in {"pipe", "proc"} -> {<<"pipe devices">>}
    [] module \in {"scullp", "scullv", "sculld"} /\ r[1] \in {"cdev", "proc", "ldd device"} ->
         {<<"devices">>}
    [] module = "scullc" /\ r[1] \in {"cdev", "proc"} -> {<<"devices">>, <<"cache">>}
    [] r[1] = "disk" -> {<<"data", r[2]>>, <<"queue", r[2]>>, <<"invalidate", r[2]>>}
    [] r[1] = "net" -> {<<"netdev", 0>>, <<"netdev", 1>>}
    [] module = "short" /\ r[1] = "irq" -> {<<"buffer">>}
    [] module = "shortmem" /\ r[1] = "irq" -> {<<"buffer">>, <<"mapping">>}
    [] module = "shortmem" /\ r[1] = "major" -> {<<"mapping">>}
    [] module = "shortprint" /\ r[1] = "major" -> {<<"in">>, <<"out">>, <<"workqueue">>}
    [] module = "shortprint" /\ r[1] = "timer" -> {<<"workqueue">>}
    [] module = "shortprint" /\ r[1] = "work" -> {<<"in">>, <<"out">>, <<"ports">>}
    [] module = "tiny_tty" /\ r[1] = "timer" -> {<<"port">>}
    [] module = "silly" /\ r[1] = "major" -> {<<"mapping">>}
    [] OTHER -> {}

\* Opening these takes a reference to the module, which one that is being
\* unloaded refuses.
Owned == {"cdev", "pipe", "access", "major", "disk", "misc"}
Callable(r) ==
  /\ r \in has /\ Len(r) < 3
  /\ r[1] \in Owned => phase # "unloading"

\* The weaknesses of the code: the kind, what it is about, and what must have
\* been refused for it to show ("none" where nothing must).
Weaknesses ==
  CASE module = "scull" ->    \* scull_access_cleanup takes all for granted
         {<<"missing", x, y>> : x \in {"access", "access numbers"},
                                y \in {"devices", "access numbers"}}
         \union {<<"missing", "access", "access">>, <<"exposed", "seq", "none">>}
    [] module = "sculld" ->
         {<<"left", "ldd driver", "devices">>, <<"left", "ldd version", "devices">>,
          <<"missing", "ldd driver", "ldd driver">>,
          <<"missing", "ldd device", "ldd device">>}
    [] module = "scullc" -> {<<"exposed", "cdev", "none">>}
    [] module = "sbull" ->
         {<<"left", "blkdev", "Devices">>, <<"missing", "invalidate", "data">>,
          <<"missing", "data", "gd">>, <<"missing", "data", "queue">>}
    [] module = "snull" ->    \* sn1 sends to sn0 while sn0 is freed
         {<<"exposed", "net", "none">>, <<"missing", "net", "net">>,
          <<"missing", "net", "netdev">>}
    [] module = "short" -> {<<"exposed", "irq", "buffer">>}
    [] module = "shortmem" ->
         {<<"exposed", "irq", "buffer">>, <<"exposed", "irq", "mapping">>,
          <<"exposed", "major", "mapping">>, <<"left", "mapping", "major">>,
          <<"left", "mem region", "none">>, <<"missing", "ports", "major">>,
          <<"missing", "mapped region", "none">>}
    [] module = "shortprint" ->    \* the work sets the timer that was deleted
         {<<kind, r, "none">> : kind \in {"left", "exposed"}, r \in {"timer", "work"}}
         \union {<<"exposed", "major", "none">>, <<"missing", "workqueue", "workqueue">>}
    [] module = "tiny_tty" ->
         {<<"left", "tty driver", "none">>, <<"left", "timer", "none">>,
          <<"exposed", "timer", "none">>}
    [] module = "lddbus" -> {<<"left", "bus", "ldd0">>, <<"left", "version", "ldd0">>}
    [] module = "silly" -> {<<"exposed", "major", "none">>}
    [] module = "skull" -> {<<"left", "mapping", "none">>, <<"missing", "mapping", "mapping">>}
    [] module \in {"sleepy", "complete", "faulty"} ->
         {<<"left", "stray", "none">>, <<"missing", "stray", "stray">>}
    [] module \in {"jit", "jiq"} ->    \* a signal has ended the read
         {<<"left", "timer", "none">>, <<"left", "work", "none">>}
    [] module = "sysfs_test" -> {<<"left", "kobject", "none">>}
    [] module = "sharemem" ->
         {<<"left", "debugfs", "none">>, <<"left", "area", "none">>,
          <<"missing", "pages", "none">>}
    [] OTHER -> {}

Excused(kind, r) ==
  \E x \in {<<"none">>} \union refused : <<kind, r[1], x[1]>> \in Weaknesses

\* A driver that could not be loaded, or has been unloaded, leaves nothing
\* behind, save where a weakness is named.
NothingLeft == phase \in {"failed", "gone"} => \A r \in has : Excused("left", r)

\* A driver gives back only what it has, save where a weakness is named.
GivesBackItsOwn == \A r \in missing : Excused("missing", r)

\* Whatever can be called finds all it touches, from the moment it is
\* registered until it is gone, save where a weakness is named.
CallsFindAll ==
  \A r \in has : Callable(r) /\ ~(Needs(r) \subseteq has) => Excused("exposed", r)
=============================================================================
