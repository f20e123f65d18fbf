--------------------------- MODULE HardwareProbes ---------------------------
(***************************************************************************)
(* How two drivers look for their hardware while they are loaded.          *)
(*                                                                         *)
(* short asks the kernel to watch all interrupt lines, or watches the      *)
(* likely ones itself, while it has the device interrupt; else it takes    *)
(* the usual line of its port.  Its handler then shares the line with      *)
(* another device, if it is told to.  short_probing() runs on several      *)
(* processors at once, and an interrupt may come later than the delay      *)
(* allows for.                                                             *)
(*                                                                         *)
(* skull looks at the memory hole of the ISA bus, in blocks of 2 Kbytes,   *)
(* and then at the I/O ports its device could have.  Addresses are in      *)
(* units of 512 bytes, in which an expansion ROM says its size, and count  *)
(* from the beginning of the hole.                                         *)
(***************************************************************************)
EXTENDS Integers, FiniteSets

CONSTANTS
  Trials,      \* lines that are tried
  Wired,       \* lines the device may be on; 0 for none
  Rounds,      \* 5: rounds after the first
  MaxStrays,   \* bound: interrupts of other devices while it is looked for
  MaxRaised    \* bound: interrupts once the handler is installed

VARIABLES
  method,      \* "kernel", "self" or "told not to"
  wired, usual,
  short_irq, pb_count,
  pb_at,       \* of short_init
  tried,       \* lines whose handler is ours
  pending,     \* interrupts that have not been served
  handler,     \* of each line: where short_probing is
  strays,
  served,      \* lines served since short_irq was last set to 0
  bit, logged, raised, \* the device's bit, lines printed, interrupts raised
  pb_trouble

probeVars == <<method, wired, usual, short_irq, pb_count, pb_at, tried, pending,
               handler, strays, served, bit, logged, raised, pb_trouble>>

NoLine == -1
Own == 0
Other == -1
searching == <<method, wired, usual>>
using == <<bit, logged, raised>>

ShortInit ==
  /\ method \in {"kernel", "self", "told not to"}
  /\ wired \in Wired /\ usual \in {7, NoLine}
  /\ short_irq = NoLine /\ pb_count = 0
  /\ pb_at = "start" /\ tried = {} /\ pending = {}
  /\ handler = [i \in Trials |-> "out"] /\ strays = 0 /\ served = {}
  /\ bit = FALSE /\ logged = 0 /\ raised = 0 /\ pb_trouble = {}

-----------------------------------------------------------------------------
(* How short looks for its line *)

\* One answer of the kernel: none, the line, or several.  None counts as several.
short_kernelprobe ==
  /\ method = "kernel" /\ pb_at = "start"
  /\ \E seen \in SUBSET Trials :
       /\ wired \in Trials \/ seen # Trials
       /\ short_irq' = IF seen = {} THEN NoLine
                       ELSE IF Cardinality(seen) = 1 THEN CHOOSE i \in seen : TRUE
                       ELSE -(CHOOSE i \in seen : TRUE)
       /\ served' = seen
       /\ IF short_irq' < 0 /\ pb_count < Rounds
          THEN pb_count' = pb_count + 1 /\ UNCHANGED pb_at
          ELSE pb_at' = "default" /\ UNCHANGED pb_count
  /\ UNCHANGED <<searching, tried, pending, handler, strays, using, pb_trouble>>

\* Whatever lines are free get the handler.
Install ==
  /\ method = "self" /\ pb_at = "start"
  /\ pb_at' = "toggle" /\ tried' \in SUBSET Trials
  /\ UNCHANGED <<searching, short_irq, pb_count, pending, handler, strays, served,
                 using, pb_trouble>>

Toggle ==
  /\ pb_at = "toggle" /\ pb_at' = "wait"
  /\ short_irq' = 0 /\ served' = {}
  /\ pending' = pending \cup ({wired} \cap tried)
  /\ pb_trouble' = pb_trouble \cup
       (IF \E i \in Trials : handler[i] # "out" THEN {"late"} ELSE {})
  /\ UNCHANGED <<searching, pb_count, tried, handler, strays, using>>

Stray(i) ==
  /\ pb_at \in {"toggle", "wait", "free"} /\ strays < MaxStrays
  /\ i \in tried /\ i \notin pending
  /\ strays' = strays + 1 /\ pending' = pending \cup {i}
  /\ UNCHANGED <<searching, short_irq, pb_count, pb_at, tried, handler, served,
                 using, pb_trouble>>

\* Fault: a second line is not noticed.
Same_Always(i) == TRUE

Same(i) == short_irq = i

To(i, place) == handler' = [handler EXCEPT ![i] = place]

\* short_probing, each access to short_irq by itself
Probing(i) ==
  /\ \/ /\ handler[i] = "out" /\ i \in pending
        /\ pending' = pending \ {i} /\ served' = served \cup {i}
        /\ To(i, IF short_irq = 0 THEN "store" ELSE "compare")
        /\ pb_trouble' = pb_trouble \cup
             (IF \E j \in Trials : handler[j] # "out" THEN {"two at once"} ELSE {})
        /\ UNCHANGED short_irq
     \/ /\ handler[i] = "store" /\ short_irq' = i
        /\ To(i, "compare") /\ UNCHANGED <<pending, served, pb_trouble>>
     \/ /\ handler[i] = "compare"
        /\ To(i, IF Same(i) THEN "out" ELSE "negate")
        /\ UNCHANGED <<short_irq, pending, served, pb_trouble>>
     \/ /\ handler[i] = "negate" /\ short_irq' = -i
        /\ To(i, "out") /\ UNCHANGED <<pending, served, pb_trouble>>
  /\ UNCHANGED <<searching, pb_count, pb_at, tried, strays, using>>

\* The delay is over: another round, up to Rounds more, or the end
short_selfprobe ==
  /\ pb_at = "wait"
  /\ IF short_irq <= 0 /\ pb_count < Rounds
     THEN pb_count' = pb_count + 1 /\ pb_at' = "toggle"
     ELSE pb_at' = "free" /\ UNCHANGED pb_count
  /\ UNCHANGED <<searching, short_irq, tried, pending, handler, strays, served,
                 using, pb_trouble>>

\* free_irq waits for the handler; what is still pending is lost.
Uninstall(i) ==
  /\ pb_at = "free" /\ i \in tried /\ handler[i] = "out"
  /\ tried' = tried \ {i} /\ pending' = pending \ {i}
  /\ UNCHANGED <<searching, short_irq, pb_count, pb_at, handler, strays, served,
                 using, pb_trouble>>

Uninstalled ==
  /\ pb_at = "free" /\ tried = {} /\ pb_at' = "default"
  /\ UNCHANGED <<searching, short_irq, pb_count, tried, pending, handler, strays,
                 served, using, pb_trouble>>

\* What is below zero gives way to the usual line of the port, if it has one.
\* The zero of a probe that has seen nothing is taken for a line.
Default ==
  /\ pb_at = "default" \/ (method = "told not to" /\ pb_at = "start")
  /\ pb_at' = "chosen"
  /\ short_irq' = IF short_irq < 0 THEN usual ELSE short_irq
  /\ pb_trouble' = pb_trouble \cup
       (IF short_irq < 0 THEN {"not found"} ELSE IF short_irq = 0 THEN {"line 0"} ELSE {})
  /\ UNCHANGED <<searching, pb_count, tried, pending, handler, strays, served, using>>

-----------------------------------------------------------------------------
(* The shared line *)

\* Without the line the device is left without interrupts.
Request ==
  /\ pb_at = "chosen"
  /\ \/ short_irq >= 0 /\ pb_at' = "enabled" /\ UNCHANGED short_irq
     \/ short_irq' = NoLine /\ pb_at' = "over"
  /\ UNCHANGED <<searching, pb_count, tried, pending, handler, strays, served,
                 using, pb_trouble>>

\* The device interrupts, or another on its line.
Raise(who) ==
  /\ pb_at = "enabled" /\ raised < MaxRaised /\ who \notin pending
  /\ pending' = pending \cup {who}
  /\ IF who = Own THEN ~bit /\ bit' = TRUE /\ raised' = raised + 1
     ELSE UNCHANGED <<bit, raised>>
  /\ UNCHANGED <<searching, short_irq, pb_count, pb_at, tried, handler, strays,
                 served, logged, pb_trouble>>

\* It is short's if its bit is set, which is then cleared.
short_sh_interrupt(who) ==
  /\ pb_at = "enabled" /\ who \in pending
  /\ pending' = pending \ {who}
  /\ bit' = FALSE /\ logged' = logged + (IF bit THEN 1 ELSE 0)
  /\ UNCHANGED <<searching, short_irq, pb_count, pb_at, tried, handler, strays,
                 served, raised, pb_trouble>>

ShortNext ==
  \/ short_kernelprobe \/ Install \/ Toggle \/ short_selfprobe \/ Uninstalled
  \/ Default \/ Request
  \/ \E i \in Trials : Stray(i) \/ Probing(i) \/ Uninstall(i)
  \/ \E who \in {Own, Other} : Raise(who) \/ short_sh_interrupt(who)

-----------------------------------------------------------------------------
(* Properties *)

\* A line that is found is the only one that answered since it was last looked
\* for, unless two handlers ran at once or one during the reset; where nothing did, there is no line but
\* the usual one, or the 0 that is left of a probe of one's own.
LineAnswered ==
  pb_at = "chosen" =>
    /\ "not found" \notin pb_trouble /\ short_irq # 0 =>
         /\ short_irq \in served \/ "late" \in pb_trouble
         /\ served \subseteq {short_irq} \/ {"two at once", "late"} \cap pb_trouble # {}
    /\ short_irq = 0 => method = "self" /\ served = {}
    /\ "not found" \in pb_trouble => short_irq = usual

\* Interrupts of the device are printed once each, whoever shares its line.
SharedOnce == logged + (IF bit THEN 1 ELSE 0) = raised

-----------------------------------------------------------------------------
(* What skull looks at *)

CONSTANTS
  Units,        \* length of the hole (ISA_REGION_END - ISA_REGION_BEGIN)
  RomSizes,     \* sizes that expansion ROMs name
  PortBases     \* values of the parameter skull_port_base

STEP == 4
SKULL_PORT_FLOOR == 640
SKULL_PORT_CEIL == 768
SKULL_PORT_RANGE == 16

VARIABLES
  sk_at,             \* "memory", "ports" or "loaded"
  add,
  sk_seen,           \* what has been found at each address looked at
  skull_port_base, base, tried_ports, result

skullVars == <<sk_at, add, sk_seen, skull_port_base, base, tried_ports, result>>

SkullInit ==
  /\ sk_at = "memory" /\ add = 0 /\ sk_seen = [a \in {} |-> 0]
  /\ skull_port_base \in PortBases
  /\ base = IF skull_port_base = 0 THEN SKULL_PORT_FLOOR ELSE skull_port_base
  /\ tried_ports = {} /\ result = 0

-----------------------------------------------------------------------------
(* The memory *)

\* What may be at an address, which stays what it is: memory of another
\* driver, RAM, bits that change at random, an expansion ROM, or what reads
\* the same after it was written (other ROM, or nothing).
Kinds ==
  [is : {"allocated", "RAM", "random", "quiet"}, size : {STEP}]
  \union [is : {"expansion ROM"}, size : RomSizes]

\* size & ~2048
WithoutStep(size) == size - (IF (size \div STEP) % 2 = 1 THEN STEP ELSE 0)

\* add += (size & ~2048) - 2048, and then add += STEP
NextAdd(k) ==
  IF k.is = "expansion ROM" THEN add + WithoutStep(k.size) - STEP + STEP ELSE add + STEP

Block(k) ==
  /\ sk_at = "memory" /\ add < Units
  /\ add \in DOMAIN sk_seen => sk_seen[add] = k
  /\ sk_seen' = [a \in DOMAIN sk_seen \union {add} |-> IF a = add THEN k ELSE sk_seen[a]]
  /\ add' = NextAdd(k)
  /\ UNCHANGED <<sk_at, skull_port_base, base, tried_ports, result>>

EndOfHole ==
  /\ sk_at = "memory" /\ add >= Units /\ sk_at' = "ports"
  /\ UNCHANGED <<add, sk_seen, skull_port_base, base, tried_ports, result>>

-----------------------------------------------------------------------------
(* The ports *)

\* skull_probe_hw is left to the reader of the book: it finds nothing.
skull_probe_hw(port) == FALSE

\* The ports are free, and the device answers.
skull_detect(port, isFree) == isFree /\ skull_probe_hw(port)

\* Once if the base was given, through the whole range otherwise
skull_find_hw(isFree) ==
  /\ sk_at = "ports"
  /\ tried_ports' = tried_ports \union {base}
  /\ result' = IF skull_detect(base, isFree) THEN result + 1 ELSE result
  /\ base' = base + SKULL_PORT_RANGE
  /\ sk_at' = IF skull_port_base = 0 /\ base' < SKULL_PORT_CEIL THEN "ports" ELSE "loaded"
  /\ UNCHANGED <<add, sk_seen, skull_port_base>>

SkullNext ==
  \/ \E k \in Kinds : Block(k)
  \/ EndOfHole
  \/ \E isFree \in BOOLEAN : skull_find_hw(isFree)

-----------------------------------------------------------------------------
(* Properties *)

\* The scan leaves nothing out: up to where it is, each address belongs to a
\* block or an expansion ROM that has been looked at.  (It does come back into
\* a ROM whose size has the bit of 2 Kbytes, which is cleared and not rounded.)
NothingMissed ==
  \A u \in 0 .. Units - 1 :
    u < add => \E a \in DOMAIN sk_seen : a <= u /\ u < a + sk_seen[a].size

\* No address inside an expansion ROM is taken for another block, unless the
\* ROM's size has the bit of 2 Kbytes.
RomsSkipped ==
  \A a, u \in DOMAIN sk_seen :
    /\ sk_seen[a].is = "expansion ROM" /\ a < u /\ u < a + sk_seen[a].size
    => (sk_seen[a].size \div STEP) % 2 = 1

\* Every port has had its trial when the loop is left, and none outside.
AllPortsTried ==
  sk_at = "loaded" =>
    tried_ports =
      IF skull_port_base # 0 THEN {skull_port_base}
      ELSE {p \in SKULL_PORT_FLOOR .. SKULL_PORT_CEIL - 1 : p % SKULL_PORT_RANGE = 0}

\* Loading ends, unless a ROM names no size or 2 Kbytes: the scan then returns
\* to where it is, and looks at that ROM for ever.
LoadingEnds ==
  \/ sk_at = "loaded"
  \/ /\ add \in DOMAIN sk_seen /\ sk_seen[add].is = "expansion ROM"
     /\ sk_seen[add].size \in {0, STEP}
=============================================================================
