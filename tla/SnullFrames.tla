----------------------------- MODULE SnullFrames -----------------------------
(***************************************************************************)
(* What ldd3-master/snull/snull.c does to a frame: the header that is put  *)
(* before it, its way through snull_tx and snull_hw_tx to the twin device, *)
(* and whom it is for when it arrives there.  Each of the two networks     *)
(* sees the other one's machine as a neighbour of its own, and an answer   *)
(* has to come back as the question went.  When which step is taken is the *)
(* matter of Snull; here a frame arrives at once.                          *)
(*                                                                         *)
(* The addresses of the devices differ in their last octet, and the last   *)
(* bit of that is kept.  An IP address is a network and a host on it.      *)
(***************************************************************************)
EXTENDS Integers, FiniteSets

CONSTANTS
  Payloads,    \* lengths of what is sent, without the header
  MtusAsked,   \* for change_mtu
  Lines        \* interrupt lines for set_config

VARIABLES
  mtu, dev_irq, running,   \* of each device
  arrived                  \* the last frame each has received

frameVars == <<mtu, dev_irq, running, arrived>>

Devs == {0, 1}
Twin(d) == 1 - d
ETH_HLEN == 14
ETH_ZLEN == 60
ETH_DATA_LEN == 1500    \* of struct snull_packet
IpHeader == 20

dev_addr(d) == [group |-> FALSE, last |-> d]
Broadcast == [group |-> TRUE, last |-> 1]
Local(d) == [net |-> d, host |-> d]
Remote(d) == [net |-> d, host |-> Twin(d)]
Nothing == [kind |-> "none"]

\* snull_init, with the MTU from ether_setup
Init ==
  /\ mtu = [d \in Devs |-> 1500]
  /\ dev_irq = [d \in Devs |-> 0]
  /\ running = [d \in Devs |-> FALSE]
  /\ arrived = [d \in Devs |-> Nothing]

-----------------------------------------------------------------------------
(* The way of a frame *)

\* The destination is the address asked for, but for its last bit: the kernel
\* asks for the device's own where there is no ARP.
snull_header(d, daddr) == [src |-> dev_addr(d), dst |-> [daddr EXCEPT !.last = 1 - @]]
snull_rebuild_header(d) == [src |-> dev_addr(d), dst |-> dev_addr(Twin(d))]

\* snull_tx makes a short frame longer, with zeros.
Padded(f) == [f EXCEPT !.len = IF @ < ETH_ZLEN THEN ETH_ZLEN ELSE @]

\* The third octet of both addresses is changed.
OtherNet(ip) == [ip EXCEPT !.net = 1 - @]

\* snull_hw_tx changes what should be IP, and makes its checksum anew: octets of
\* anything else are changed as well.
TooShort(f) == f.len < ETH_HLEN + IpHeader
snull_hw_tx(f) ==
  [f EXCEPT !.saddr = OtherNet(@), !.daddr = OtherNet(@),
            !.check = "right", !.intact = @ /\ f.kind # "other"]

\* eth_type_trans, for snull_rx
TypeAt(e, f) ==
  CASE f.dst = dev_addr(e) -> "HOST"
    [] f.dst = Broadcast -> "BROADCAST"
    [] f.dst.group /\ f.dst # Broadcast -> "MULTICAST"
    [] OTHER -> "OTHERHOST"

\* Frame f is sent on device d, and its twin is running or loses it.
Sent(d, f) ==
  LET wire == snull_hw_tx(Padded(f)) IN
  /\ running[d] /\ f.len - ETH_HLEN <= mtu[d]
  /\ arrived' = IF TooShort(Padded(f)) \/ ~running[Twin(d)] THEN arrived
                ELSE [arrived EXCEPT ![Twin(d)] =
                        [wire EXCEPT !.type = TypeAt(Twin(d), wire), !.large = mtu[d]]]
  /\ UNCHANGED <<mtu, dev_irq, running>>

Frame(header, kind, n, saddr, daddr) ==
  [kind |-> kind, src |-> header.src, dst |-> header.dst, len |-> ETH_HLEN + n,
   saddr |-> saddr, daddr |-> daddr, check |-> "right", intact |-> TRUE,
   type |-> "none", large |-> 0]

\* A question to the neighbour, in a packet, and the answer to one
Ask(d) ==
  \E n \in Payloads, h \in {snull_header(d, dev_addr(d)), snull_rebuild_header(d)} :
    n >= IpHeader /\ Sent(d, Frame(h, "question", n, Local(d), Remote(d)))

Answer(d) ==
  LET f == arrived[d] IN
  /\ f.kind = "question" /\ f.type = "HOST" /\ f.daddr = Local(d)
  /\ Sent(d, Frame(snull_header(d, dev_addr(d)), "answer", f.len - ETH_HLEN, f.daddr, f.saddr))

\* Something to everybody, and something that is not IP to the twin by address
Call(d) ==
  \/ \E n \in Payloads :
       n >= IpHeader /\ Sent(d, Frame(snull_header(d, Broadcast), "call", n, Local(d), Remote(d)))
  \/ \E n \in Payloads :
       Sent(d, Frame(snull_header(d, dev_addr(Twin(d))), "other", n, Local(d), Remote(d)))

-----------------------------------------------------------------------------
(* The configuration *)

snull_change_mtu(d) ==
  /\ \E m \in MtusAsked : m \in 68 .. 1500 /\ mtu' = [mtu EXCEPT ![d] = m]
  /\ UNCHANGED <<dev_irq, running, arrived>>

\* The interrupt line may be changed, of an interface that is down.
snull_config(d) ==
  /\ ~running[d]
  /\ \E l \in Lines : dev_irq' = [dev_irq EXCEPT ![d] = l]
  /\ UNCHANGED <<mtu, running, arrived>>

\* snull_open and snull_release
UpOrDown(d) ==
  /\ running' = [running EXCEPT ![d] = ~@]
  /\ UNCHANGED <<mtu, dev_irq, arrived>>

Next ==
  \E d \in Devs :
    \/ Ask(d) \/ Answer(d) \/ Call(d)
    \/ snull_change_mtu(d) \/ snull_config(d) \/ UpOrDown(d)

-----------------------------------------------------------------------------
(* Properties *)

\* Questions and answers are taken by the device they reach, come from its
\* neighbour, are for the machine there, and have a checksum that is right.
\* What a sender addresses to the twin or to all by itself is taken as for
\* another host, or for a group: the last bit of its address is changed.
AnswersComeBack ==
  \A d \in Devs :
    LET f == arrived[d] IN
    CASE f.kind \in {"question", "answer"} ->
           /\ f.type = "HOST" /\ f.check = "right" /\ f.intact
           /\ f.saddr = Remote(d) /\ f.daddr = Local(d)
      [] f.kind = "call" -> f.type = "MULTICAST"
      [] f.kind = "other" -> f.type = "OTHERHOST" /\ ~f.intact
      [] f.kind = "none" -> TRUE

\* A frame fits into a packet of the pool, and no frame is too short, unless the
\* MTU leaves no room for the header in the packet.
FitsPacket ==
  \A d \in Devs :
    arrived[d].kind # "none" =>
      /\ arrived[d].len >= ETH_ZLEN
      /\ arrived[d].len > ETH_DATA_LEN => arrived[d].large + ETH_HLEN > ETH_DATA_LEN
=============================================================================
