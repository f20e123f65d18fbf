# LinuxProgram in TLA+

The repository is a collection of programs about Linux, C++ and concurrency:
some are small libraries and drivers with state of their own, most are
demonstrations of one feature. This directory models the first kind, checks
the models with TLC and proves facts about the core ones with TLAPS. Paths
below are relative to `src/`; `ldd3/` stands for `Kernel/Driver/ldd3-master/`.

Contents: 1 the system; 2 how the models are written; 3 the modules; 4 the
runs; 5 fairness; 6 the proofs; 7 what the code does wrong; 8 what is left
out; 9 the plan.

## 1. The system

There is no single program. The components share no state, except within
scull, where the three drivers use the same module parameters and the devices
of `access.c` use the read and write of `main.c`, and within ldd3, where
sculld registers with the bus of lddbus. What they share is a kernel: drivers
meet it in their entry points, interrupts, timers, works and mappings.

| Component | State | Operations | What is hard | What makes it correct |
|---|---|---|---|---|
| Epoch RCU (`Utils/rcu.hpp`, `Utils/test/rcu_test.cpp`) | a global version, a version per reader, the registered readers, the published pointer, the retired objects | register, lock, unlock; replace, retire; wait, free | version published after it was loaded; scan of many atomics; StoreLoad order; a vector that grows under the scan | no reader uses a deleted object; every retired object is deleted once; wait is a grace period and returns |
| Byte ring (`Other/MemoryAllocator/ConcurrentMemoryRingBuffer.cpp`) | read and write index, end of data, the producer's window, the consumer's snapshot | acquire; beginRead, endRead | stale indices on both sides, wrap, a plain variable shared by both threads | a FIFO of blocks that do not overlap; no race; acquire returns |
| Spin locks (`Utils/spinlock.hpp`) | a flag, or two ticket counters | lock, unlock | wrap-around of the counters | mutual exclusion, first come first served, no increment lost |
| scull memory (`Kernel/Driver/scull/main.c`) | list of quantum sets, size and geometry, semaphore | open with trim, llseek, read, write, ioctl | geometry loaded before the semaphore; trims without it; allocation failures half way | bytes are found where they were written; nothing freed is used |
| scull pipe (`scull/pipe.c`) | ring buffer, counts, semaphore, two wait queues | open, release, read, write, poll, fasync, resize | conditions tested outside the semaphore; signals | no lost wake-up; FIFO; semaphore released on every path |
| scull access (`scull/access.c`) | an atomic, or count and owner, or a list of devices | open, release of four devices | decrement, test and increment are separate; a spinlock held over an allocation | one file, one user, one device per terminal; no lost wake-up |
| scullp, scullv, sculld, scullc (`ldd3/`) | list of items, mappings, a cache | read, write, aio, ioctl, trim, mmap, fault | quanta of several pages; a count without a lock | a mapping shows the pages that reads do, and none is freed under it but for the causes of section 7 |
| simple (`ldd3/simple`) | mappings of physical memory | mmap, fault | mappings split, copied, unmapped in part | each address shows its frame; references balance |
| Listings in /proc (`scull`, `ldd3/scull*`, `tiny_tty`, `misc-modules/seq.c`) | a position between two reads | seq_file and read_proc | the device changes between pieces; counts below the margin | everything once and in order; a freed list is followed only where a trim came between load and semaphore |
| snull (`ldd3/snull`) | packet pools, receive lists, status, queue | open, transmit, interrupt, poll, timeout, release; headers, MTU | a status word without its lock; two devices in one another's handlers | packets in one place, frames once, buffers freed once; answers come back |
| shortprint, short (`ldd3/shortprint`, `ldd3/short`) | circular pages, work, tasklet, timer | write, read, interrupt, probing | lost interrupts, page full or empty, no locks | what was written is printed, in order; nothing stops |
| sbull (`ldd3/sbull`) | users, timer, medium | requests in three modes, open, release, revalidate | bios of several segments; a timer that drops the data | users see what was written since the medium changed |
| usb-skeleton (`ldd3/usb`) | reference count per device | probe, disconnect, open, release, read, write | unplugged while open | freed with the last reference, not before |
| tiny_tty, tiny_serial (`ldd3/tty`) | a timer, modem lines, transmit buffer | open, close, write, ioctl; tick, flush, shutdown | a timer that is not waited for | the timer runs while the port is open, bytes leave once |
| jit, jiq, sleepy, complete, silly, proc test (`ldd3/misc-modules` and others) | works, timers, tasklets, wait queues | reads and writes | a signal ends a wait whose function still runs | reads end with all their lines, in their own page |
| skull (`ldd3/skull`) | none | scan of memory and ports | sizes read from the hardware | nothing missed, and the scan ends |
| Loading of all drivers | what each has registered | module_init, module_exit | refusals at every step, calls in between | nothing left, nothing missing |
| Matching engine (`PrestoLabs/src`) | two ordered books of levels, order slots in a file, accounts | normal match, auction | levels used up while an order is matched | quantity conserved; priority; books never crossed |
| Allocators (`Other/MemoryAllocator*`, `PrestoLabs/tmp/OrderPool.H`) | bitmap, slot stacks, free list | acquire, release | positions counted from one; word boundaries | live blocks disjoint |
| Observers (`Other/MemoryAllocator/observer_pattern.cpp`) | two vectors, two spin locks | subscribe, notify | a vector changed under another lock than its reader's | a notification reaches who had subscribed |
| Shared memory driver (`Kernel/sharemem`) | global buffer and page | open, mmap, read, write | a mutex per opener for a global buffer; failures | all share one page |
| Condition variable demo (`OS/futex/signal_and_condwait`) | flag, mutex, condition | two waiters, two wakers | one flag for two wake-ups | both waiters return |
| Nested signal handlers (`OS/signal/signal_handler_interrupt`) | a counter, masks, flags | four handlers | a handler interrupts another between two accesses | masks hold; signals are handled |
| Lazy initialisation (`C++/C++11/DCLP`, `local_static_variable`) | pointer, mutex or guard | get | order of the publication; a constructor that throws | one object, seen whole |
| Order files (`ProcessOrder`) | maps and vectors of messages | load, link, join, show | identifiers that do not match | totals per instrument and trader |
| Binary log (`binlog/serialization.h`) | a queue per thread, the array of queues, the file | register, log, dump; map and follow | a size counted before its slot is written; short writes; restarts | nothing lost, nothing out of order, every entry read whole |

The hazards, at their lines, and the properties that cover each are listed in
`PROJECT.json`.

## 2. How the models are written

*Steps.* A step is what nobody else can look into: an atomic access, a section
under a lock, or a stretch of code between two points where the kernel may run
somebody else. Where the code loads something and uses it later, these are two
steps. Kernel functions (`schedule`, `del_timer`, `wait_event`,
`alloc_chrdev_region`, ...) are modelled from how the drivers use them, and
are marked external in the map.

*Causes.* Some of the code is wrong in places, and a property that such a place
breaks would be of no use if it were simply dropped. The modules of the
drivers therefore keep a history variable (`trouble`, with the module's prefix)
with what has gone wrong and what was done that can make it so, each by a short
name. A property then reads: *this* goes wrong only after *that*, with "that"
as narrow as TLC would let it be. Section 7 lists the places. A new way to
come to the same harm violates the property.

*Faults.* Operators named `X_Y` with a comment "Fault" are variants of the
definition `X` that follows them, each a bug somebody could write there;
nothing uses them except runs in which they take the place of `X` to show that
a property notices.

*Hosts.* `MCDrivers`, `MCPrograms` and `MCScullMemory` check many small models in
one run each. Their first state says which model runs (`driver`, `program`);
the variables of the others keep their first values, so that the state space is the sum
and not the product of the parts. Properties of a host are conjunctions of
those of its models, each under the condition that its model runs; the end of
the host's module shows which. The parts
are independent programs: running them side by side would show nothing more.

Bounds on counters are constants whose names begin with `Max`, or sets of
counts and sizes, and are given in the `cfg` or in the `INSTANCE` of the host.

## 3. The modules

### Abstract specifications

| Module | Promise | Implemented by |
|---|---|---|
| `GracePeriod` | a wait returns after everyone who was inside when it began has left | `Rcu` (`IsGracePeriod`) |
| `ByteFifo` | blocks of free addresses, taken from the front | `RingQueue` and `ScullPipe` (`IsFifo`) |
| `FifoLock` | clients stand in line | `SpinLock`, ticket policy (`IsFifoLock`) |
| `Pool` | blocks in use are disjoint | the bitmap, the two slot stacks and the order pool of `Allocators` (`ArePools`) |

### Libraries

**Rcu.** One step per atomic access. A reader goes `start`, `idle`, `loaded`,
`locked`, `use`: `RegisterVersion` is the push_back, `LoadVersion` and `Lock` are
the two accesses of `RCU<Reader>::lock`, `LoadPtr` the load of `gObjPtr`,
`Unlock` the store of 0. The writer's four lines are `Copy`, `LoadOld`, `Publish`,
`Retire`. FreeFunc takes the mutex (`TakeBatch`), waits (`BeginWait`: the
fetch_add; `BeginScan`, `ScanOne`, `EndScan`: the do-while and its range-for,
one reader's version per step) and deletes (`Delete`, `EndBatch`).

The reader publishes its version with a release store, and then loads
`gObjPtr`. On x86 a release store is a plain `mov`: it may wait in the
store buffer while the load is done. `StoreBuffered = TRUE` is that machine: a
FIFO buffer per reader that drains at any time. `StoreBuffered = FALSE` is the
program with a sequentially consistent store. The other threads' stores are
followed by locked instructions before they matter (`Publish` says where), so
they need no buffer.

`RegisterVersion` has a mutex that `wait()` does not take. When
push_back reallocates under a running scan, the iterators point into freed
memory: `moved` makes the rest of that scan read arbitrary values, and `raced`
remembers it. `NoUseAfterFree` and `IsGracePeriod` are stated for behaviours
before such a step; `RetiredOnce`, `TypeOK` and `WaitReturns` for all of them.
`Objects` is the heap, and an address is used again after its deletion.

**RingQueue.** Offsets stand for addresses. The producer goes `idle`, `load`,
`maximize`, `write`: `Acquire` is the reservation inside the current window,
`LoadReadIndex` the acquire load, `Maximize` the rest of
`maximizeWriteCapacity`, repeated by the spin, and `Commit` the store of the
write index. The consumer goes `idle`, `begin`, `read`: `LoadWriteIndex`,
`BeginRead`, `EndRead`. `Stop` and `Finish` are the `isStop` flag of the
drivers. The bytes are not written or read by any caller and are left out; what
is handed out is what the properties are about. Each index is stored with
release by one thread and loaded with acquire by the other. A load of an old
value equals a load that was done earlier, and both sides keep the value they
loaded for as many steps as they like, so interleaving covers the weak order
of the indices. `mDataEnd` is plain: `DataEndNotRaced` says that the two threads
never use it at the same time, which also means that its value is the one the
indices order.

**SpinLock.** `policy` is chosen in the initial state and never changes: a
behaviour is that of the test-and-set lock or of the ticket lock. `Draw` is
`fetch_add`, `Lock` the last iteration of the spin (the others change nothing),
`Load` and `Store` are `gCount++`. `Tickets` is 2^32 in the program; the counters
wrap at it. `LockAssumption` needs no more threads than tickets, which is what
the lock itself needs. The unlock of the ticket lock is an acquire
`fetch_add`; the memory model of C++ would let the store to `gCount` move behind
it, and an x86 locked instruction does not. The model is the x86 build.

**Allocators.** Three of them. The bitmap is the set of bits that are
set; `Find` looks for a run as the code does, first in the first word, then
across words from left to right, and `BitsAreHeld` and `FindsFirstFit` compare
both with the obvious definition; `empty()` and `size()` are compared with what
is held. Then come the slot stacks, which convert between slots and
addresses, and the order pool, an array whose objects from `mSize` on are free.

**Observers.** Vectors reserved for 128 entries do not move, so a push_back is
a construction and a count that is loaded and stored (`Construct`, `Load`,
`Store`); a notification reads the end and then calls one observer per step. Two
subscriptions to one observable may meet, each under the lock of its own observer: they
construct one entry, and count it once or twice. `raced` keeps where they have met; a
notification that comes to an entry nobody constructed ends the program.

**Matching.** `Read` and `Rest` take a line and put it into its book, `MatchOrder`
crosses with one resting order, `NextGroup` leaves a level and looks at the next,
`Uncross` and `NextBuy` are the auction; `rule` is chosen in the first state. A line of the file is known by
its number, which stands for its ID and its time, and the parties send theirs by
turns. The mapped files are the sequences they hold.

**ProcessOrder.** Loading one message per step, linking, joining and showing;
`operator[]` of a map inserts, as it does in the code. An acknowledgement has an order and a
client number, which need not be the same, as the code takes them to be
(`OrderID2ClientID`).

**BinLog.** Threads register queues (`Claim`, `StoreSlot`, `Commit`: the size is
counted before the slot is stored), Main writes descriptions and the marker (`Section`, `Mark`), threads log, and the
dumper goes round the queues. A short write, and the end of the process between
any two units, are steps; a process may start again, with a new binary, on the
file that is there. The reader maps the file, follows it record by record and
may stop and resume at the position it has kept. A reader reads the file at
any moment in between.

### Programs

**CondWait** has the two waiters and two wakers of `spurious_wakeup.cpp`, with
spurious returns, and the rounds of main. **ShareMem** has the
openers, each with a mutex of its own, and the four steps of the first `mmap` that may
fail: the area, the array, whose pointer is followed all the same, its page and the
kernel's mapping. Two processes may be in their first `mmap` at once; `met` keeps that they
were. **Signals** has the stack of
handlers with their masks (none for the one with `SA_NODEFER`) and signals that
come before a handler is installed. **OnceInit** has the singleton, in which a
store without release order may be seen before the object is built
(`Ordered = FALSE`), and the local static variable, both with a `new` that throws.

### scull

**ScullPipe.** What runs between `down` and `up` is one action (`Open`,
`Release`, `Read`, `Write`, `Poll`, `Blocked`, `Fault`), because nobody else
changes these fields then; what runs outside is one action per access: `Wait`
joins the queue, `Peek` loads one of the two pointers, `Test` the other and
decides, `Woke` returns from `schedule`, `FinishWait` leaves the queue. `Wake`
follows the section it belongs to as a step of its own. `down_interruptible`
and the waits can be ended by a signal at any time (`Interrupted`, `Woke` and
`FinishWait` with `signalled`). kmalloc and the user copies may fail.
`scull_p_open` resets both pointers and the recorded size of a device that is
in use, and the ioctl changes `scull_p_buffer` at any time; both are in the
model, and two history variables record what they did: `resized`, that the size has
changed since the buffer was allocated, and `missed`, the files that stood on
`outq` when an open emptied the ring and woke nobody. The properties name
them as the only exceptions. The run `pipe_resize` shows the first. `BufSizes`
leaves out 0 and 1, with which no byte can ever be written.

**ScullDev.** One device and the files on it. A stored byte is the position it
was written for, and `Junk` in a fresh quantum (kmalloc does not clear it), which
is enough to say that a read finds what was written at its position.
`LoadQuantum` and `LoadQset` are the loads of `quantum` and `qset` before the
semaphore; `Locate` is the section up to `scull_follow`, `FollowRead` and
`FollowWrite` the walk and the allocations, `CopyRead`, `CopyWrite` and
`CopyFails` the rest. A section is several steps because the trims of
`access.c` do not wait for it. `TrimFree` walks and frees, `TrimReset` resets
the fields. What an exchange or shift ioctl loads goes to its caller, so that
all of them are the stores of `Tell`.
`TrimLocked` distinguishes `scull_open`, which takes the semaphore for the
trim, from `scull_u_open`, `scull_w_open` and `scull_c_open`, which do not.
A trim may come between a call's loads and its semaphore and leave it with a
geometry that is not the device's any more. A history variable, `stained`, says that a
write has gone into the list like that since the last trim; from then on
arrays and quanta are of any of the sizes, and `Stray` is the step of a call or
a trim that passes the end of one, after which nothing is said (`Astray`). The properties
except calls with an old geometry, and everybody after `stained`. `Quanta` leaves
out 0, by which read and write would divide.

**ScullAccess.** `device` is chosen in the initial state. scullsingle: `Dec` is
`atomic_dec_and_test`, `Busy` the increment of the refused case,
`scull_s_release` the increment of the release. sculluid and scullwuid: the
sections under the spinlock are `scull_u_open`, `scull_w_open` and `Release`;
`Wait`, `Peek` and `Test` are `wait_event_interruptible` with
`scull_w_available`, which reads count and owner without the lock; `Wake` comes
after the lock has been released. scullpriv: looking through the list and
adding to it are two steps, because the kmalloc between them may sleep.

**ScullItems** has scullp, scullv, sculld and scullc, whose text is the same but
for the allocator: `kind` says which. Memory is counted in pages; a call under
the mutex is one step, and what is loaded before it is one of its own. A process
may map the device, touch pages, fork and unmap, and the count of mappings is
loaded and stored in two steps. An asynchronous call completes at once or a
little later. Each kmalloc and each copy may fail. A fault of sculld has an action of its
own (`NopageOfNull`): its driver finds the page's address and makes no page of it.

**ProcFiles** has the nine listings. A line is its length and what it is about;
a reader asks for a count and comes back with its position, while the device
changes. **SimpleMap** has the two mapped devices with splits and forks.

### Network, terminals and the other drivers

**Snull** has one actor per thread of control: the transmission of each device,
its interrupt or poll, its timeout. The status word is loaded and stored in
steps of their own, pool and list change in sections. **SnullFrames** is what
happens to one frame: headers, addresses, checksum, padding, MTU.

**ShortPrint** is the output side of the printer; **ShortIrq** the interrupt node
of short with tasklet or work. In both a signal may end a wait and a copy from or to the user
may fail (`Signalled`, `CopyFails`), which nothing forces to happen. **HardwareProbes** has the two drivers that look for
their hardware: short, which searches for an interrupt line by the kernel and by
itself, on several processors, with the shared handler; and the scan of the
ISA memory hole and of the ports by skull.

**UsbSkel**, **TinyTty**, **TinySerial**, **Sbull** follow each driver's functions, with
the part of the USB, tty, serial and block cores that calls them.

**DeferredWork** has the reads of jit and jiq that wait for timers, tasklets and
works, each driver with actions of its own (`JitNext`, `JiqNext`); **MiscWaits** those
that wait for a flag, a completion, or jiffies that go round.
**ByteDevices** has silly, the ports of short, `/dev/shortint` and
`/proc/test/buf`.

**ModuleLoad** has `module_init` and `module_exit` of 25 modules (short with ports
and with memory) as sequences of steps; each may be refused by the kernel, and a step of the code's error path
is taken or not taken as the code does. `has` is what the driver holds,
`missing` what it gave back without having it.

### Theorem modules

`RcuProofs`, `RingQueueProofs`, `ScullPipeProofs` and `MatchingProofs` hold the
theorems and proofs about the module whose name they begin with; `ProgramsProofs`
those about `SpinLock` and about the host `MCPrograms`, `MemoryProofs` those about
`ScullDev` and the host `MCScullMemory`, `DriversProofs` those about `ScullAccess` and
the host `MCDrivers` (section 6). `Sums` has the sum of a function over a finite set
and the lemmas about it, which `Matching`, the models of counters and the proofs use.

## 4. The runs

A hazard here needs few actors: two readers and one free thread are enough for
every order of lock, replace, wait and delete, two files for every conflict
over a device. The bounds below let each resource be empty, full and reused.

| Run | Properties | What it shows |
|---|---|---|
| `rcu_ordered` | `NoUseAfterFree`, `RetiredOnce`, `IsGracePeriod` | with ordered stores `wait` is a grace period. 2 readers, 4 addresses, batches of 2, `GlobalVersion` to 3: two full waits, so that addresses are reused and a reader may be one version behind in the second |
| `rcu_buffered` | `WaitReturns` | with store buffers `wait` still returns. 2 readers, 2 addresses, batches of 1, one wait; a buffer of 2 holds the stores of a whole lock and unlock |
| `rcu_store_load` | violated: `NoUseAfterFree` | with store buffers and two waits a reader's object is deleted |
| `ring_any` | `NoOverlap`, `DataEndNotRaced`, `IsFifo`, `ReleasesWhatItRead`, `AcquireReturns` | 9 bytes, every request from 0 to 9: full, empty, wrap on either side, each with the exact and the off-by-one size |
| `pipe_files` | `BufferOK`, `NoLostWakeup`, `IsFifo`, `WriteReturns` | two files that read, write and poll, one with O_NONBLOCK, opened, closed and resized at any time; buffers of 2 and 3 bytes, so that the ring is full after 1 or 2 and wraps. Two are enough for a waiter and whoever wakes, empties or resizes under it; the theorems are about any number |
| `pipe_resize` | violated: `EndOfBuffer` | a reader, a writer and a file for both, sizes 2 and 3 |
| `drivers` | `AccessOK`, `PacketsAndFrames`, `PrintsInOrder`, `LinesInOrder`, `UsersCounted`, `TimerOfPort`, `LoadsAndUnloads`, `OpenReturns`, `Delivered` | sixteen drivers, one per behaviour; bounds below |
| `memory` | `GeometryKept`, `BytesAndPages`, `NothingFreedInUse`, `KeepsBytes` | scull: 2 files, quantum and qset 1 or 2, 3 positions, counts 1 and 3 (writes shorter and longer than a quantum, up to three list items, holes); after a write with an old geometry the list is followed to its first item only (`StainedBound`). scullp and its kind: 4 calls of 2 processes, quanta of 1 and 2 pages, items of 1 and 2 quanta. Listings: 2 devices, counts below the margin, just above it, and for several pieces. simple: 4 frames of which 3 are memory, 2 mappings |
| `dev_stale` | violated: `GeometryMatches` | scull with two files |
| `dev_unlocked` | violated: `NoUseAfterFree` | scull with `TrimLocked = FALSE` |
| `matching` | `BooksExact`, `ReportsExact`, `Priority`, `AuctionBest`, `DropsOnlyAtTheEnd` | every file of up to 4 orders of 2 parties, 3 prices, quantities 0 to 2, either rule: an order can use up two levels, or leave both behind and rest |
| `programs` | `MutualExclusion`, `Deliveries`, `MadeOnce`, `OrderFiles`, `LogExact`, `IsFifoLock`, `LocksCountAll`, `ArePools`, `ComesToAnEnd` | twelve programs, one per behaviour; bounds below |

`drivers`:

* scull access: 4 files: two of one user, of which one O_NONBLOCK, one of
  another user with the first's effective uid, one of root, who has no terminal.
* snull: pools of 2, up to 4 frames one way and 1 back, so that the
  first device runs out of packets; one kind of cause (section 2) in a behaviour.
* shortprint: a page of 4, writes of 2 and 5: one leaves room, one fills the
  page and waits. short: 3 lines, 3 interrupts, 2 readers, with either bottom half.
* usb: 2 plugs, 2 files; tty: 2 structures, 2 files; serial: a ring of 4 bytes
  with 4 bytes and 2 opens; sbull: 4 sectors, bios of one and of two
  segments, equal and not; jit: 5 loops; jiq: 2 readers and 3 reads.
* bytes: two minors of silly that access words and one that is none, counts 1,
  2, 4; probe: two lines tried, the device on one or on none; waits: jiffies
  that go round at 8, with delays below and above half of that; frames: a
  payload that needs padding, the shortest, the longest that fits with its
  header, and the longest of all; skull: a hole of 8 half-kilobytes and ROMs of 0,
  1, 4 and 12 of them.
* modules: each module alone, every subset of refusals.

`programs`: 3 threads, 3 tickets, 3 rounds each (as many threads as tickets,
and the counters wrap three times); a bitmap of 3 words of 3 bits with blocks
of 1, 2, 4, 7; stacks of 3, a pool of 4; 2 observers and 2 observables with 2
entries; 2 processes with an area, an array and a page each; order files of 2 messages of
each type, so that two fills may be of one instrument, or two entries of one client; a log
with Main and one worker, 2 entries in all, 2 runs of the process, with a reader 1 entry a run, pages of 4
units; 3 signals,
each of four kinds; 3 callers with 2 calls each.

`memory` and `rcu_ordered` use symmetry and have no liveness properties; the
runs with liveness use none. Deadlock is checked in the `rcu`, `pipe`, `memory`
and `dev` runs; the parts of `memory` that stop after their last call have a step
for it. It is not in `ring_any`, `drivers`, `matching` and `programs`, where threads
and calls end; that nobody is left behind there is what `AcquireReturns`,
`OpenReturns`, `Delivered`, `LocksCountAll` and `ComesToAnEnd` say.

What the four violations show:

* `rcu_store_load`: the diagram in `rcu.hpp` (lines 41-42) says that the object
  can be freed safely after the scan. With the release store of line 71 still
  in the store buffer, the reader already uses the object, the scan reads 0
  for it, and FreeFunc deletes the object in use. A sequentially consistent
  store (`rcu_ordered`) removes this.
* `pipe_resize`: after SCULL_P_IOCTSIZE and a second open, `end` is computed
  from the new size for a buffer of the old one.
* `dev_stale`: a write that has loaded the geometry before a trim builds
  arrays and quanta of the old size in a device that records the new one.
* `dev_unlocked`: `scull_trim` demands the semaphore (line 59); the opens of
  `access.c` that admit several files call it without, under a file that is
  copying.

## 5. Fairness

Threads are scheduled, the kernel runs what is due, and nobody is obliged to
call. In detail:

* `Rcu`: each reader, its store buffer and FreeFunc are weakly fair. The writer
  is not.
* `RingQueue`: the retry of a spinning acquire, the commit and the consumer.
  `AcquireReturns` is stated for requests of at most half of the storage:
  larger ones may never fit, because the free space can lie on both sides.
* `SpinLock`: each thread. The threads make `Loops` rounds only, so weak fairness
  is enough for the test-and-set lock too: after finitely many rounds of the
  others the flag stays clear.
* `ScullPipe`: the steps of a file inside the driver are weakly fair, the
  semaphore strongly, since the kernel's semaphore serves its waiters in order.
  `WriteReturns` has the premise that reads keep being served, with
  data or by finding none: a file may stop reading, or fail to copy for good.
  It excuses a write under which an open has emptied the ring.
* `ScullAccess`: the steps inside the driver. `OpenReturns` has the premise that
  the device stays available to the file.
* Drivers: a transmission, interrupt or poll of snull that has begun; writers, work
  and timer of shortprint, whose interrupts may all be lost; strongly fair is the
  section of its timer's function that finds the acknowledge line clear, since
  the line is set for moments only. The bottom half and the readers of short; the functions and readers of jit and jiq; the ticks of the
  serial port; the clock and the waiters of sleepy, complete and jit; the scan of skull.
* Programs: the waiters and wakers of CondWait, registration, section and dumper
  of the log, the reader that follows it, handlers and main of Signals, callers
  of OnceInit. `pthread_cond_wait` need not return unasked, a process need not
  log, end or be signalled.

## 6. The proofs

The theorems hold for every value of the constants that satisfies the
assumptions named in the module (`RcuAssumption`, `RingAssumption`,
`LockAssumption`, `ProgramsAssumption`, `PipeAssumption`, `AccessAssumption`, `DevAssumption`,
`MatchingAssumption`, `UsersAssumption`); these say what kind of value each constant is, which sets are
finite, and that there are no more threads than tickets. One module has
theorems with a hypothesis more, `Usage`, explained below: it names a
use of the device without which the property is false, and the run `dev_unlocked`
shows how.

Each safety theorem has the same form. An invariant `IInv` (or a conjunction of
parts with names of their own) holds at first, every action keeps it, which is
one lemma per action, and it implies the property. All of them were checked with
TLC on a small instance before they were proved.

| Theorem | States | Hypothesis |
|---|---|---|
| `RcuProofs!TypeCorrect`, `RetiredOnceCorrect` | types; the objects waiting to be freed are allocated, distinct, and none is the published one | |
| `RcuProofs!NoUseAfterFreeCorrect`, `IsGracePeriodCorrect` | no reader uses a deleted object; a wait is a grace period | stores ordered |
| `RingQueueProofs!TypeCorrect`, `NoOverlapCorrect`, `DataEndNotRacedCorrect`, `ReleasesWhatItReadCorrect`, `IsFifoCorrect` | blocks do not overlap, `mDataEnd` is not raced for, the ring is a FIFO | |
| `ProgramsProofs!TypeCorrect`, `MutualExclusionCorrect`, `FifoLockCorrect`, `CountCorrect` | one thread inside; the ticket lock implements `FifoLock`; no increment is lost | |
| `ProgramsProofs!LocksCorrect` | the same of the specification that the run `programs` checks | |
| `ProgramsProofs!DeliveriesCorrect` | notifications, subscriptions, flags, signal masks and counts | |
| `ProgramsProofs!MadeOnceCorrect` | one page, one object; the bitmap and its search | |
| `ProgramsProofs!PoolsCorrect` | the three allocators implement `Pool` | |
| `ScullPipeProofs!BufferCorrect`, `NoLostWakeupCorrect`, `FifoCorrect` | the buffer lives while a file is open, and its end is its own but for `resized`; nobody sleeps on what has happened but for `missed`; the ring implements `ByteFifo` | |
| `DriversProofs!AccessCorrect` | `AccessOK`, all of it: one file, one user, one device per terminal, no lost wake-up | |
| `DriversProofs!UsersCountedCorrect` | structures of usb-skeleton, users and medium of sbull, the devices of bytes, in the host | |
| `MemoryProofs!NothingFreedCorrect` | in the host, nothing is freed that is copied, or mapped unless two processes count at once, or listed but by a trim between scullmem's load and its semaphore | `Usage` |
| `MemoryProofs!TypeCorrect`, `GeometryCorrect`, `BytesCorrect`, `SemaphoreCorrect`, `KeepsCorrect` | arrays and quanta have the recorded sizes; bytes are where their positions say and end where the size says; nobody leaves the list; no byte is lost but by a trim: all of it but for an old geometry; nothing freed is used | `Usage` |
| `MatchingProofs!BooksCorrect`, `ReportsCorrect`, `PriorityCorrect`, `DropsCorrect`, `AuctionCorrect` | books agree with their orders and are not crossed; reports, entries and accounts agree, `mOrderPtr2` leads to its order for good and `mOrderPtr1` as long as that order has an entry; priority; a rest is dropped only at the end of a book; the auction calls a best price and trades its volume | |

**RcuProofs.** `TypeCorrect`. `RetiredOnceCorrect`: from `ObjectInv`, which adds
what the writer holds between its steps (the new object is allocated, not
retired, not published; between load and store the old one is the published
one). It holds with both memory orders. `NoUseAfterFreeCorrect`: under
`StoreBuffered = FALSE`. `NoUseAfterFree` is not inductive, because a deletion
is justified by a scan that read the versions one by one while readers came and
went. `GraceInv` adds, for behaviours in which no registration has raced with a
scan: the version of a reader inside is in memory (`ReaderInv`); while `wait()`
runs, every reader that was inside when it began has a version of at most
`tmp`, and either the scan has still to reach it or `least` is not above `tmp`
(`WillBeSeen`); and every reader that uses a retired object is one of those
(`WaitInv`), because nothing is retired while FreeFunc holds the mutex. So when
the scan ends with `least` above `tmp`, none of them is left.
`IsGracePeriodCorrect` uses the same invariant for the refinement of `GracePeriod`:
the second half of `lock()` maps to `Enter`, `Unlock` to `Leave`, the
fetch_add to `BeginWait`, the last `EndScan` to `EndWait`, everything else to a
stutter.

**RingQueueProofs.** The inductive invariant `IInv` has four parts: where the
data ends when it has wrapped (`DataEndInv`); that the window begins at the
write index and stops before what is in use, or is the left side of a wrap not
committed yet (`WindowInv`); on which side of the write index the producer's
stale read index lies (`RSeenInv`), and the same for the consumer's stale write
index (`ReadEndInv`). `TypeCorrect`, `NoOverlapCorrect`, `DataEndNotRacedCorrect` and
`ReleasesWhatItReadCorrect` follow from it, and `IsFifoCorrect` is the
refinement of `ByteFifo`: the initial queue is empty; a commit is a `Put` of a
block outside of `InUse` (`NoOverlap` again), an `endRead` is a `Take`, and
everything else leaves the sequence of readable addresses as it is.

**ProgramsProofs, the locks.** `TypeCorrect` and `MutualExclusionCorrect`. For the ticket lock the
invariant says that `mNext` is as many tickets after `mOwner` as there are
threads that have asked, that their tickets lie in that distance and are
pairwise different. With no more threads than tickets, this survives the
wrap-around; whoever is inside has the ticket `mOwner`. For the test-and-set lock:
the flag is set while a thread is inside, and one thread only is.
`FifoLockCorrect` is the refinement of `FifoLock`: the line is those who have drawn
and not left, by the distance of their tickets from `mOwner`. `PlacesCount`
says that as many distinct places below n as there are elements are all of the
places 0 to n - 1, so that the client at the head of the line is the one whose
ticket is served; a draw goes to the end of the line and moves nobody.
`CountCorrect`: the counter is the sum of the rounds done (`Total` of `Sums`) and of the
threads about to unlock, because whoever is about to store still has the counter's value.

**ProgramsProofs, the others.** `OwnSteps` says that a step of the host is a step or a
stutter of every program in it, whichever runs; each program then has an
invariant of its own. `MakingInv`: what holds of a thread at each place of its
call, and that one is between lock and unlock. `SharingInv`: before two
first `mmap` have met, one process allocates, what it has allocated so far is at
the two global pointers, and a page the kernel has is that of the array. `WaitingInv`: the
flags that are set and the waiters that have seen them are those of the
round. `HandlingInv`: no frame lies above one whose mask keeps its signal out
(`Unmasked`), signals sent are handled, pending or dropped as one that was pending already
(`Accounted`), and the numbers of frames that were not cut are their own
(`Numbered`). `ObservingInv`, of the observables where no two subscriptions have met:
what is behind the end of a vector is not yet
subscribed (`Listed`, `Adding`), a notification has called the first of those who
were due (`Notifying`), and both sides count the same but for the subscription
under way (`Agreeing`).

Of the bitmap, `BitmapInv` says that the blocks held are disjoint, lie in the
slices, and that the bits are theirs. `BitmapRun` shows that the odd bits on the
left, the whole words and the odd bits on the right are the bits of the block, for
every place and length (with `WordsAndBits`, `BitIsInWord` for the division). `RunLengthIs`
says that the recursive count of `Find` is the distance to the last used bit, from which
`ManyFit` gets the first fit, and `TrailingFits` that the shortcut over the first
word finds the same. `SizeIsFree` counts the free bits word by word. `StacksInv` and
`OrdersInv` say that an object is free or taken, once; their steps are those of
`Pool`, and `SlotsApart` keeps the bytes of two slots apart.

**ScullPipeProofs.** `CallsOK` says where a file may be in each call, `CountInv`
that the counters are the numbers of open readers and writers and that the
buffer is there exactly while one of them is, `RingInv` that both pointers are in the
ring and that its recorded size is the size allocated, unless `resized`. `NoLostWakeup` is not inductive, because a waiter decides on two
loads of `rp` and `wp` at different times: `WakeInv` adds that a reader on the queue that
has loaded one pointer, and nobody being about to wake it, would still sleep rightly
if the other pointer has the same value, and the same of a writer and a full
ring, unless it has `missed` an open: what it loaded before may then look full although
the ring is empty. For `FifoCorrect`, `QueueIsRing` relates the sequence of the abstract queue to
the places of the ring, counted from `rp` round to `wp`. An
open and the last release take all that is left.

**DriversProofs.** Of scull's access control: the invariant gives, for each of the four devices, what its
counter counts (for scullsingle 1 less the files that are in or have just been
refused), and for scullwuid that a waiter that sleeps or has read a count that
is no longer true has a file on its way to wake it. For scullpriv it says that
files that look for a device do so one at a time, where the spinlock locks; the
theorem says no more of one processor than the code keeps there (section 7).

`UsersCountedCorrect` has an invariant for each of three drivers, and `OneRuns` says that a
step of the host is a step of one driver, which the others do not see.
`UsbInv`: the references of a structure are its open files and, until disconnect has given it
back, its interface (`UsbRefs`); a file that has found a structure and not yet counted itself has
the minor's lock and its device is in (`UsbPlaces`), so that the reference taken is never
one of a deleted structure; and a file that copies has in the buffer the packet it
received, until two readers of one structure have met (`UsbReads`). `DiskInv`: while
somebody has the disk open, or is past `del_timer_sync`, the timer rests (`DiskUsers`),
and between the end of the delay and the next open nothing is written that the
clearing could lose (`DiskMedium`). `RequestFills` says that a request fills
exactly its sectors: segments do not overlap (`PartsApart`) and cover it (`PartsCover`), and
segments of one length begin at its multiples (`EqualLengths`), which is what `sbull_xfer_bio` takes
for granted of all. `BytesInv`: each byte of silly's window is
the one its writer's position gave it, but for the upper bytes of a word of which
the lowest alone was stored (`Excused`); the level of short's line is the parity of the
position (`LevelsKept`); a reader of `/proc/test/buf` has read nothing of the string, or all
of it (`StrKept`); and a buffer is kept only by an error path that does not free it
(`TroubleKept`). The assumptions on the constants are `UsbAssumption` (finitely many files and
plugs), `DiskAssumption` (a request has one segment at least, and a segment a sector) and
`BytesAssumption` (minors, and a buffer of one byte at least).

**MemoryProofs.** Of scull: `LockOK`: who is between down and up holds the semaphore, and the
list is freed only in a trim. `GeoOK`: what a call has loaded are values of the parameters,
be they those of the device or older ones. `DataOK`: unless `stained`, every array and quantum
has its size or none, every byte in it is
`Junk` or the position `((item * qset) + slot) * quantum + offset` of its place and
below `size`, and the byte before `size` is there. `ReqOK`: a request lies within one quantum,
at the position of its file, by the geometry of its call; that quantum is there when the copy
begins, whole if the geometry is the device's; and a write whose geometry is not has left its
mark by then. So whoever passes the end of an array or a quantum had an old geometry,
or came after one that had (`StrayOK`).
The arithmetic is in `Split` (the division of a position into item, slot and offset is the
inverse of that product) and `PosNext` (within a quantum positions go on one by
one); `FollowedFits`, `WithArrayFits`, `WithQuantumFits` and `WrittenFits` say of each
operation on the list that it keeps what fits and extends what is stored, so that a
failed allocation half way needs no case of its own. `KeepsCorrect` follows from
the same lemmas: every step extends the list, empties it, or leaves it `stained`. `Usage` is
`TrimLocked`: the device is opened through `scull_open`, whose trims
take the semaphore. The three opens of `access.c` do not: `dev_unlocked` shows what happens
then.

`NothingFreedCorrect` adds scullp and its kind, and the listings. `CountedInv`: pages
are of mappings that are counted, and unless two processes have met in `vma_open` and
`vma_close`, one at most is between load and store, and what it will store is the count with
its own mapping added or taken off. Then a trim that reads 0 finds no page. `ListsInv`: a
reader that waits for the semaphore has a list that is there, or a trim has come since it
loaded it, which `trimmed meanwhile` records. The bounds of
both modules are constants of the host, and the processes any finite set
(`MemoryAssumption`).

**MatchingProofs.** Sums over sets of orders are the function `Total` of the model,
a recursive function over subsets. Induction over it is not available to the provers; the
lemmas about it (a sum with one element more, less or changed, sums of two functions,
monotony) are proved from a smallest counterexample (`Smallest`), which the library gives
for the subsets of a finite set. The invariant says where each entry comes from
(`EntriesOK`), what each place of the loops knows of the order at hand (`PlaceOK`),
that a level holds orders of its side and price that have come to rest and that better
levels than the one being matched are used up (`GroupsOK`), that no level is empty or crosses
the other side but the one at hand (`LevelsOK`), that a level's quantity is the
sum of what its orders have left (`SumsOK`: exact in the normal match, an upper bound in the
auction, which counts some levels again), and priority of every level
(`TradesOK`). That reports never outgrow their file needs `CountOK`: each report finishes
an order that no report before has finished.

`AuctionCorrect` adds an invariant of the auction, `AInv`. While the file is read, the
totals of the levels up to a price add up to what the lines want there (`DemandOK`, with
every line in a slot, `SlotsOK`, and every order in its group, `RestingOK`). So consolidating a
level counts demand and supply (`SumIsDemand`), and the last sell level a buy level reaches has
the supply at that buy's price (`CrossIsVolume`). A price between two levels is
worth no more than the next buy level above it: demand is the same there and supply
no less (`LevelsAreEnough`). The code looks at buy levels only, and
`PriceIsBest` says that this is enough for the best of all prices. Then two facts are kept
while buys are matched: both sides have traded the same (`TradedOK`), and a buy
that is done is filled or has left no sell at or below its price (`ServedOK`; a sell leaves
its group only when nothing of it is left, though the group's quantity counts too
much after `restoreQty`). When all are done, either all called buys are filled or all
sells up to the target are, so that demand or supply there has traded, and the volume
is the smaller of the two (`FilledIsTraded`).

**Model-checked only.** Liveness (`WaitReturns`, `AcquireReturns`, `LocksCountAll`,
`WriteReturns`, `OpenReturns`, `Delivered`, `ComesToAnEnd`) is outside of the
prover's reach, and so is what the folds of `ProcessOrder` and `BinLog` compute for every
file (`OrderFiles`, `LogExact`). `BytesCorrect` proves
the part of `BytesAndPages` that is about scull; the rest of it, which needs the folds of
`ProcFiles`, and the properties of `MCDrivers` but `AccessOK` and `UsersCounted` are checked by TLC only. Most of these name the
causes of section 7, so that an inductive invariant would have to follow every wrong
path of the code too.

## 7. What the code does wrong

Four disagreements have runs of their own (section 4). The following are the
causes that properties name (section 2): the property holds only up to the
cause, and the model contains it.

**Memory devices.** An open of a pipe in use drops what the ring holds and wakes
no writer that waits for room (`pipe.c:80`). The list of scullpriv is under a spinlock while kmalloc
sleeps, which keeps nobody out on one processor: a terminal may get two devices
(`access.c:257`). A write of scull that had loaded its geometry before a trim makes arrays and
quanta of the old size, which later calls and trims run beyond (`scull/main.c:352`).
`scull_read_procmem` walks a list that a trim has freed
since it was loaded (`main.c:97`), and loses what does not fit its buffer. In scullp and its
kind the geometry is loaded before the mutex; the order of every list item but
the first is 0 (`scullp/main.c:245`), so that larger quanta overrun; scullc's
cache keeps the size it was made with (`scullc/main.c:249`) while the
quantum changes, and its devices are live before the cache is made; a failed
asynchronous call adds an error number to a count; `follow` uses what
kmalloc returned without looking; `vmas` is counted without a lock
(`scullp/mmap.c:37`), and pages are freed under a mapping when a count is
lost. scullv maps quanta of several pages, its default, as if they were one
(`scullv/mmap.c:82`). A fault of sculld that finds its page calls `get_page` with
`NOPAGE_SIGBUS`, which is null (`sculld/mmap.c:86`): no page of sculld is ever mapped. Beyond the size scullp and scullv refuse a fault without a signal
where sculld sends one. The listings of ldd3 stop at `count` minus 80
although a header and an item line may take more, and a count below 80 makes the
limit negative; that of scullpipe does not look at the count.

**snull.** The status word is changed by two devices without the lock, so that a
bit is lost or comes back, and a buffer is freed twice or leaks; the watchdog
takes any stopped queue for a lost interrupt; a queue is woken for a link that
is no longer the pool's, and the next frame finds the pool empty. An MTU that is
accepted may exceed the packet by the header. Frames that are no IP are
altered like ones that are, a broadcast arrives as a multicast, a frame to the
twin arrives as for another host, and "packet too short" is never true after
the padding.

**Terminals.** `del_timer` does not wait for the function in tiny_tty and
tiny_serial, which then sets the timer for a tty that is gone, or takes bytes off
a buffer that has been emptied or freed. tiny_tty's second open may find the
structure of a port that is being made; its write returns -EINVAL always; RTS
is set with the bit of DTR; TIOCMIWAIT waits on a queue that was not
initialised.

**Interrupts and delays.** short's bottom half prints the whole array when it is due
with nothing new; two readers take the same lines; probing handlers on two
processors both write `short_irq`, an interrupt that is late belongs to the next
round, and 0 is taken for a line. shortprint's timer may be added twice. jiq's
readers share one structure, and a signal leaves the work due for a page
that is gone; the wake-up of jiqtasklet and jiqtimer may come before the sleep.
A delay longer than half of the range of the jiffies ends at once.

**Bytes.** silly writes words with a function for bytes, a failed copy moves
`f_pos` back by an error number, the buffer for an unknown minor is not freed, nor is
short's after a failed copy; a negative count cannot be seen in a `size_t`; the
read of `/proc/test/buf` copies from `str` wherever the position is. sbull takes
the length of a bio's first segment for all of them. skull
clears the bit of 2 Kbytes in a ROM's size instead of rounding it: a ROM of
that size, or of none, is scanned for ever.

**Loading.** `Weaknesses` in `ModuleLoad` lists, by module, what an initialisation that
failed or a cleanup leaves behind, what it gives back without having it, and
what can be called before its data are there. Most have one refusal as
their cause.

**Programs.** Two wakers that set one flag leave a waiter behind. A handler
interrupted between the increment and the load shows another's number. A fill
without its order is a null pointer, as is a leader of no orders; a fill is joined as if
the number of an order were that of its client, which the header itself doubts
(`ProcessOrder.h:250`). `mmap` of
sharemem follows the result of kzalloc without looking (`sharemem.c:99`), leaves
`buffer_addr` set when a later step fails, keeps the mutex on two error paths, and the mutex of an
opener (`sharemem.c:84`) keeps no other process out of a first `mmap`: two of them make two
pages. `subscribe` says that one object may be subscribed in several threads
(`observer_pattern.cpp:72`), but appends to the observable without its lock: subscriptions
that meet lose an entry, or count one that was never constructed, which the next
notification follows. A report of the matching engine keeps a pointer to its incoming
order, whose slot the next line takes if that order was fully crossed or dropped
(`Rules.hpp:54`, `Report.hpp:18`). In the binary log a
short write repeats the beginning of its buffer; a record torn by the end of the
process leads the reader astray from there on; a reader behind a description that ends
its page is killed; a file too small for the marker leaves `mFile` set, so that the second
attempt ends the program; a new binary gives the entries of older ones
its own classes; a reader that resumes has no descriptions, and an unknown class
a null deserializer.

Noticed, without a property: an exchange ioctl is called atomic and is two accesses
(`scull/main.c:460`), and one whose `__get_user` fails leaves 0 in the parameter; a gap inside an allocated quantum reads back what kmalloc
left there (`main.c:376`); a pipe buffer of 0 or 1 byte can never be
written (`pipe.c:181`); `wait()` iterates over a vector that registration may
move (`rcu.hpp:94`); the last slice of the bitmap allocator lies one behind the
end of its storage (`MemoryRingBuffer2.hpp:49`), and a slot released twice is
handed out twice (`MemoryRingBuffer.cpp:112`); HDIO_GETGEO of sbull counts
bytes as sectors; a copy to or from a buffer that maps the device itself waits for
the mutex its caller holds.

## 8. What is left out

*In the modelled components*: the contents of objects and messages, time
measurement, printing, most statistics, and the kernel's own data structures (a
wait queue is the set of files on it, a semaphore is who holds it). Of single
parts: the input side of shortprint (a second ring, like short's); read requests of sbull,
which go through the same function as writes, the copy the other way; a file
position kept between calls of ScullItems, whose calls are all through a file
just opened; `deep_update` and the destruction of observers; unloading sharemem
while it is mapped (loading and unloading are in ModuleLoad); `CheckEventID`, the
templates that serialise a structure and the text of a log entry; volumes in
money of the matching engine, which only debug builds print; printf in
signal handlers, and sleeps they cut short; the queue header of
the log and the kernel, which are outside of the repository and external in the map.

*Components not modelled*: `Utils/seqlock.hpp` does not compile (the class is
unfinished). `binlog/perf.h` reads hardware counters. `ldd3/scull` is the code of
`Kernel/Driver/scull` with a mutex for the semaphore: what is modelled is the
copy the repository's author works on. lddbus beyond registration matches names and
shows a version. `scullc/mmap.c` is named by no file operations. Everything
else under `C++`, `CPU`, `Compile_Link`, `Debug`, `PerfTune`, `Python`, `PCIE`,
`OS`, `FileOperation`, `Common` and `Binance` is a demonstration of one feature
in one file, without state that outlives a call, or an assembler listing of one.

## 9. The plan

The modules planned at the start are written, and so are those of the ldd3
drivers. What is left is proof:

1. `ProcessOrder` and `BinLog`, by way of sums over sequences.
2. The drivers with rings (`ShortPrint`, `ShortIrq`, `TinySerial`), up to the causes they name.

Of the models: the input side of shortprint, and positions kept between the
calls of ScullItems.
