-------------------------------- MODULE Snull --------------------------------
(***************************************************************************)
(* The pair of network devices of ldd3-master/snull/snull.c: a frame sent  *)
(* on one is copied to a packet of its pool, which waits on the receive    *)
(* list of the other until an interrupt, or a poll in NAPI mode, hands the *)
(* frame up and the packet back.  The driver calls its interrupt handlers  *)
(* itself, from the transmit path and from the watchdog's timeout, which   *)
(* the kernel keeps apart for one device and not for the two of them.      *)
(*                                                                         *)
(* The status word is set without the lock the handlers hold, so that its  *)
(* loads and stores are steps of their own; pool and list change in        *)
(* critical sections.                                                      *)
(***************************************************************************)
EXTENDS Integers, FiniteSets, TLC

CONSTANTS
  pool_size,   \* packets of each device
  Weight,      \* packets one poll may take
  MaxFrames,   \* bound: frames sent on each device
  NapiFrames,  \* bound: the same when use_napi
  MaxCauses    \* bound: kinds of trouble in one behaviour

VARIABLES
  use_napi, lockup,   \* module parameters
  priv,      \* of each device: its pool and receive list, its status word, the
             \* last frame sent and whether its buffer is free, the frames known
             \* to be out, the actor that holds the lock, and what the kernel
             \* keeps: the interface, its queue, and its poll
  packet,    \* of each packet: its link, and the frame it carries
  actor,     \* of each actor: its place, and that after a call, the packet in
             \* hand, and the status word it has read
  got,       \* how often each frame was handed up or dropped
  trouble    \* what has gone wrong outside the lock, and what came of it

snullVars == <<use_napi, lockup, priv, packet, actor, got, trouble>>

Devs == {0, 1}
dest(d) == 1 - d
Packets == Devs \X (1 .. pool_size)
Limit(d) == IF use_napi THEN NapiFrames[d] ELSE MaxFrames[d]
Frames == UNION {{d} \X ((1 .. MaxFrames[d]) \cup (1 .. NapiFrames[d])) : d \in Devs}
Null == <<>>
Tx(d) == <<"tx", d>>
Poll(d) == <<"poll", d>>
Actors == {"tx", "poll"} \X Devs

\* snull_init and snull_setup_pool, and an open of both
Init ==
  /\ use_napi \in BOOLEAN /\ lockup \in {0, 2}
  /\ packet = [p \in Packets |->
       [next |-> IF p[2] = 1 THEN Null ELSE <<p[1], p[2] - 1>>, data |-> 0]]
  /\ priv = [d \in Devs |->
       [ppool |-> <<d, pool_size>>, rx_queue |-> Null, status |-> {},
        rx_int_enabled |-> TRUE, skb |-> 0, freed |-> TRUE, tx_packets |-> 0,
        lock |-> Null, up |-> TRUE, stopped |-> FALSE,
        scheduled |-> FALSE, enabling |-> FALSE, npackets |-> 0]]
  /\ actor = [a \in Actors |-> [at |-> "idle", return |-> "idle", hand |-> Null, loaded |-> {}]]
  /\ got = [f \in Frames |-> 0]
  /\ trouble = {}

Dev(d, fields) == priv' = [priv EXCEPT ![d] = fields @@ @]
Act(a, fields) == actor' = [actor EXCEPT ![a] = fields @@ @]
At(a, place) == actor[a].at = place
Go(a, place) == Act(a, [at |-> place])
Troubled(what, when) == trouble' = trouble \cup (IF when THEN {what} ELSE {})

-----------------------------------------------------------------------------
(* Packets *)

\* snull_get_tx_buffer: an empty pool is dereferenced.
snull_get_tx_buffer(a, d) ==
  LET p == priv[d].ppool IN
  /\ At(a, "buffer") /\ priv[d].lock = Null
  /\ Troubled("null packet", p = Null)
  /\ IF p = Null
     THEN UNCHANGED <<priv, actor>>
     ELSE /\ Act(a, [at |-> "enqueue", hand |-> p])
          /\ Dev(d, [ppool |-> packet[p].next,
                     stopped |-> priv[d].stopped \/ packet[p].next = Null])
  /\ UNCHANGED <<packet, got>>

\* Fill the packet, and snull_enqueue_buf: it goes to the head of the list.
snull_enqueue_buf(a, d) ==
  LET p == actor[a].hand e == dest(d) IN
  /\ At(a, "enqueue") /\ priv[e].lock = Null
  /\ packet' = [packet EXCEPT ![p] = [next |-> priv[e].rx_queue, data |-> priv[d].skb]]
  /\ Dev(e, [rx_queue |-> p])
  /\ Act(a, [at |-> "raise", hand |-> Null])
  /\ UNCHANGED <<got, trouble>>

\* Fault: the packet taken stays at the head of the list.
Unlinked_Not(d) == priv[d].rx_queue

Unlinked(d) == packet[priv[d].rx_queue].next

\* The frame of packet p is handed up, or dropped for want of memory.
HandUp(p) == got' = [got EXCEPT ![<<p[1], packet[p].data>>] = @ + 1]

\* The link is read again after the lock is released.
WakesQueue(p) == priv[p[1]].stopped /\ packet[p].next = Null

\* snull_release_buffer: its locked section, and its last two lines
snull_release_buffer(a) ==
  LET p == actor[a].hand d == p[1] IN
  /\ \/ /\ At(a, "release") /\ priv[d].lock = Null
        /\ packet' = [packet EXCEPT ![p].next = priv[d].ppool]
        /\ Dev(d, [ppool |-> p])
        /\ Go(a, "wake")
        /\ UNCHANGED trouble
     \/ /\ At(a, "wake")
        /\ Dev(d, [stopped |-> priv[d].stopped /\ ~WakesQueue(p)])
        /\ Troubled("late wake", WakesQueue(p) /\ priv[d].ppool = Null)
        /\ Act(a, [at |-> actor[a].return, hand |-> Null])
        /\ UNCHANGED packet
  /\ UNCHANGED got

-----------------------------------------------------------------------------
(* Interrupt handlers *)

Call(a, then) == Act(a, [at |-> "load", return |-> then, loaded |-> {}])

Load(a, d) ==
  /\ At(a, "load") /\ priv[d].lock = Null
  /\ Dev(d, [lock |-> a])
  /\ Act(a, [at |-> "handle", loaded |-> priv[d].status])
  /\ UNCHANGED <<packet, got, trouble>>

\* The rest of snull_regular_interrupt or snull_napi_interrupt, up to the
\* unlock: a frame whose buffer is already free is freed again.
Handle(a, d) ==
  LET rx == "RX" \in actor[a].loaded
      tx == "TX" \in actor[a].loaded
      p == IF rx /\ ~use_napi THEN priv[d].rx_queue ELSE Null
  IN /\ At(a, "handle")
     /\ Dev(d, [lock |-> Null, status |-> {},
                rx_queue |-> IF p = Null THEN priv[d].rx_queue ELSE Unlinked(d),
                rx_int_enabled |-> priv[d].rx_int_enabled /\ ~(rx /\ use_napi),
                scheduled |-> priv[d].scheduled \/ (rx /\ use_napi /\ priv[d].up),
                tx_packets |-> priv[d].tx_packets + (IF tx THEN 1 ELSE 0),
                freed |-> priv[d].freed \/ tx])
     /\ IF p = Null THEN UNCHANGED got ELSE HandUp(p)
     /\ Act(a, [at |-> IF p = Null THEN actor[a].return ELSE "release",
                hand |-> p, loaded |-> {}])
     /\ trouble' = trouble
          \cup (IF priv[d].status # actor[a].loaded THEN {"raced"} ELSE {})
          \cup (IF tx /\ priv[d].freed THEN {"freed twice"} ELSE {})
     /\ UNCHANGED packet

\* A call of snull_interrupt(0, d), the release of what it took included
snull_interrupt(a, d) == Load(a, d) \/ Handle(a, d) \/ snull_release_buffer(a)

-----------------------------------------------------------------------------
(* Sending *)

\* snull_tx up to the call of the hardware: the kernel calls it, one call at
\* a time for each device, while the queue is not stopped.
snull_tx(a, d) ==
  /\ At(a, "idle") /\ priv[d].up /\ ~priv[d].stopped /\ priv[d].skb < Limit(d)
  /\ Dev(d, [skb |-> priv[d].skb + 1, freed |-> FALSE])
  /\ Troubled("leaked", ~priv[d].freed)
  /\ Go(a, "buffer")
  /\ UNCHANGED <<packet, got>>

\* priv->status |= bit, without the lock: its load
Read(a, d, from, bit, then) ==
  /\ At(a, from)
  /\ Act(a, [at |-> then, loaded |-> priv[d].status \cup {bit}])
  /\ UNCHANGED <<priv, packet, got, trouble>>

\* Its store, which may undo what another has stored since
Stores(a, d, bit) == Troubled("raced", actor[a].loaded # priv[d].status \cup {bit})

Tells(e) == priv[e].rx_int_enabled

\* snull_hw_tx tells the other device,
TellOther(a, e) ==
  \/ Tells(e) /\ Read(a, e, "raise", "RX", "raising")
  \/ /\ At(a, "raise") /\ ~Tells(e) /\ Go(a, "done")
     /\ UNCHANGED <<priv, packet, got, trouble>>
  \/ /\ At(a, "raising")
     /\ Dev(e, [status |-> actor[a].loaded]) /\ Stores(a, e, "RX")
     /\ Call(a, "done")
     /\ UNCHANGED <<packet, got>>
  \/ actor[a].return = "done" /\ snull_interrupt(a, e)

\* and then this one, unless the interrupt is to be lost.
TellThis(a, d) ==
  \/ Read(a, d, "done", "TX", "finishing")
  \/ LET lost == lockup # 0 /\ (priv[d].tx_packets + 1) % lockup = 0 IN
     /\ At(a, "finishing")
     /\ Dev(d, [status |-> actor[a].loaded, stopped |-> priv[d].stopped \/ lost])
     /\ Stores(a, d, "TX")
     /\ IF lost THEN Act(a, [at |-> "idle", loaded |-> {}]) ELSE Call(a, "idle")
     /\ UNCHANGED <<packet, got>>
  \/ actor[a].return = "idle" /\ snull_interrupt(a, d)

\* The watchdog finds the queue stopped for too long.
snull_tx_timeout(a, d) ==
  /\ At(a, "idle") /\ priv[d].up /\ priv[d].stopped
  /\ Dev(d, [status |-> {"TX"}])
  /\ trouble' = trouble \cup {"timeout"}
  /\ Call(a, "start")
  /\ UNCHANGED <<packet, got>>

\* The rest of it: a transmission interrupt, and the queue is started again.
GetMoving(a, d) ==
  \/ actor[a].return = "start" /\ snull_interrupt(a, d)
  \/ /\ At(a, "start")
     /\ Dev(d, [stopped |-> FALSE])
     /\ Go(a, "idle")
     /\ UNCHANGED <<packet, got, trouble>>

-----------------------------------------------------------------------------
(* Polling *)

\* One turn of the loop of snull_poll: a dropped packet is not counted.
Take(a, d) ==
  LET p == priv[d].rx_queue IN
  /\ At(a, "idle") /\ priv[d].scheduled /\ priv[d].lock = Null
  /\ p # Null /\ priv[d].npackets < Weight
  /\ \E n \in {0, 1} :
       Dev(d, [rx_queue |-> Unlinked(d), npackets |-> priv[d].npackets + n])
  /\ HandUp(p)
  /\ Act(a, [at |-> "release", hand |-> p])
  /\ UNCHANGED <<packet, trouble>>

\* The loop has ended.
Leave(a, d) ==
  /\ At(a, "idle") /\ priv[d].scheduled
  /\ priv[d].npackets = Weight \/ priv[d].rx_queue = Null
  /\ Go(a, "end")
  /\ UNCHANGED <<priv, packet, got, trouble>>

\* netif_rx_complete when the list is empty; to be called again when not
End(a, d) ==
  LET empty == priv[d].rx_queue = Null IN
  /\ At(a, "end")
  /\ Dev(d, [npackets |-> 0, scheduled |-> ~empty, enabling |-> priv[d].enabling \/ empty])
  /\ Go(a, "idle")
  /\ UNCHANGED <<packet, got, trouble>>

\* snull_rx_ints(dev, 1), when the poll may already be due again: a packet
\* that came after the test and before this is missed.
Enable(d) ==
  /\ priv[d].enabling
  /\ Dev(d, [enabling |-> FALSE, rx_int_enabled |-> TRUE])
  /\ Troubled("missed", priv[d].rx_queue # Null /\ ~priv[d].scheduled)
  /\ UNCHANGED <<packet, actor, got>>

snull_poll(a, d) == Take(a, d) \/ Leave(a, d) \/ End(a, d) \/ snull_release_buffer(a)

-----------------------------------------------------------------------------
\* The kernel opens a closed interface, and closes an open one when neither
\* a transmission nor a poll of it is under way.
snull_open(d) ==
  /\ ~priv[d].up
  /\ Dev(d, [up |-> TRUE, stopped |-> FALSE])
  /\ UNCHANGED <<packet, actor, got, trouble>>

snull_release(d) ==
  /\ priv[d].up /\ At(Tx(d), "idle") /\ ~priv[d].scheduled /\ "closed" \notin trouble
  /\ Dev(d, [up |-> FALSE, stopped |-> TRUE])
  /\ trouble' = trouble \cup {"closed"}
  /\ UNCHANGED <<packet, actor, got>>

Faults == {"null packet", "freed twice"}
Causes == {"raced", "timeout", "closed", "late wake", "missed"}

\* A fault ends a behaviour, and so does one cause too many.
Healthy ==
  trouble \cap Faults = {} /\ Cardinality(trouble \cap Causes) <= MaxCauses

\* What goes on once it has begun
Step(d) ==
  /\ Healthy
  /\ \/ snull_get_tx_buffer(Tx(d), d) \/ snull_enqueue_buf(Tx(d), d)
     \/ TellOther(Tx(d), dest(d)) \/ TellThis(Tx(d), d) \/ GetMoving(Tx(d), d)
     \/ snull_poll(Poll(d), d) \/ Enable(d)
  /\ UNCHANGED <<use_napi, lockup>>

Next ==
  \/ \E d \in Devs : Step(d)
  \/ /\ Healthy
     /\ \E d \in Devs : \/ snull_tx(Tx(d), d) \/ snull_tx_timeout(Tx(d), d)
                        \/ snull_open(d) \/ snull_release(d)
     /\ UNCHANGED <<use_napi, lockup>>

-----------------------------------------------------------------------------
(* Properties *)

\* The packets reached from p: no list is longer than there are packets.
Chain(head) ==
  LET hop[k \in 0 .. Cardinality(Packets)] ==
        IF k = 0 THEN head
        ELSE IF hop[k - 1] = Null THEN Null ELSE packet[hop[k - 1]].next
  IN {hop[k] : k \in DOMAIN hop} \ {Null}

\* A packet in hand, until it has been put back: then it is only looked at.
Held == {actor[a].hand : a \in {b \in Actors : ~At(b, "wake")}} \ {Null}

\* However transmissions, interrupts, polls and timeouts overlap, every
\* packet is in one place: in the pool of its device, on the receive list of
\* the other, or in the hands of one actor.
PacketsInOnePlace ==
  \A d \in Devs : \A p \in {d} \X (1 .. pool_size) :
    LET places == {x \in {"pool", "list", "hand"} :
          \/ x = "pool" /\ p \in Chain(priv[d].ppool)
          \/ x = "list" /\ p \in Chain(priv[dest(d)].rx_queue)
          \/ x = "hand" /\ p \in Held}
    IN /\ Cardinality(places) = 1
       /\ p \notin Chain(priv[dest(d)].ppool) \cup Chain(priv[d].rx_queue)

\* No frame is received twice, and none that has reached the list is lost
\* from it before it is handed up.
FramesOnce ==
  \A f \in Frames :
    LET d == f[1]
        waiting == {p \in Chain(priv[dest(d)].rx_queue) : packet[p].data = f[2]}
        queued == f[2] < priv[d].skb
                  \/ (f[2] = priv[d].skb /\ actor[Tx(d)].at \notin {"buffer", "enqueue"})
    IN got[f] + Cardinality(waiting) = IF queued THEN 1 ELSE 0

\* The buffer of a frame is freed when the device is done with it, and once;
\* what can break it is the status word changed by both devices at a time,
\* and the watchdog, which takes any stopped queue for a lost interrupt.
BuffersFreedOnce ==
  {"freed twice", "leaked"} \cap trouble # {} =>
    lockup # 0 \/ {"raced", "timeout", "closed"} \cap trouble # {}

\* The queue is stopped while the pool is empty, so that no transmission
\* finds it so, unless a timeout or an open has started the queue, or a
\* release has, which looks at a link that is no longer its own.
PoolNotOverdrawn ==
  "null packet" \in trouble => {"timeout", "closed", "late wake"} \cap trouble # {}

\* Time and again, every frame sent has been received, and a queue stopped for an empty pool is
\* started again, unless a status bit was lost, or a poll enabled interrupts
\* behind a packet's back.
Received ==
  \/ trouble # {}
  \/ /\ \A f \in Frames : priv[f[1]].skb >= f[2] => got[f] = 1
     /\ lockup # 0 \/ \A d \in Devs : ~priv[d].stopped
=============================================================================
