----------------------------- MODULE TinySerial -----------------------------
(***************************************************************************)
(* The port of ldd3-master/tty/tiny_serial.c under the serial core: a      *)
(* timer sends a character, sets itself again and takes one byte off the   *)
(* transmit buffer, without the port's lock and without being waited for.  *)
(*                                                                         *)
(* The serial core makes the buffer for the first open, fills it under the *)
(* lock, may empty it at any time (flush), and at the last close calls     *)
(* shutdown, frees the buffer and forgets the tty.  Bytes are numbered as  *)
(* they are accepted.                                                      *)
(***************************************************************************)
EXTENDS Integers, Sequences

CONSTANTS
  Slots,      \* UART_XMIT_SIZE
  MaxBytes,   \* bound: bytes accepted
  MaxOpens    \* bound

VARIABLES
  serial,     \* "closed", "open", "shut down", "freed"
  info_tty,   \* the number of the tty, or 0
  opens,
  xmit,       \* buf, head, tail
  uart_timer, \* "never made", "made", "pending"
  fn,         \* the timer's function: its place, tty and new tail
  accepted,
  due,        \* bytes neither taken for the line nor dropped
  x_char, tx_stopped,
  blocked,    \* a writer waits for room
  ts_trouble

serialVars == <<serial, info_tty, opens, xmit, uart_timer, fn, accepted, due,
                x_char, tx_stopped, blocked, ts_trouble>>

WAKEUP_CHARS == 2
Room == (xmit.tail - xmit.head - 1) % Slots
Pending(x) == (x.head - x.tail) % Slots
Out == [at |-> "out", tty |-> 0, tail |-> 0]
NoBuffer == [buf |-> <<>>, head |-> 0, tail |-> 0]
If(what, when) == IF when THEN {what} ELSE {}
Trouble(what) == ts_trouble' = ts_trouble \cup what

Init ==
  /\ serial = "closed" /\ info_tty = 0 /\ opens = 0 /\ xmit = NoBuffer
  /\ uart_timer = "never made" /\ fn = Out
  /\ accepted = 0 /\ due = {}
  /\ x_char = FALSE /\ tx_stopped = FALSE /\ blocked = FALSE /\ ts_trouble = {}

-----------------------------------------------------------------------------
(* The serial core *)

\* The first open.  A timer out of kmalloc is added as it is; -ENOMEM leaves
\* all as it was.
tiny_startup ==
  /\ serial = "closed" /\ opens < MaxOpens
  /\ serial' = "open" /\ opens' = opens + 1 /\ info_tty' = opens + 1
  /\ xmit' = [NoBuffer EXCEPT !.buf = [n \in 0 .. Slots - 1 |-> 0]]
  /\ uart_timer' = "pending"
  /\ Trouble(If("added twice", uart_timer = "pending"))
  /\ UNCHANGED <<fn, accepted, due, x_char, tx_stopped, blocked>>

uart_write ==
  /\ serial = "open" /\ accepted < MaxBytes
  /\ IF Room > 0
     THEN /\ xmit' = [xmit EXCEPT !.buf[xmit.head] = accepted + 1,
                                  !.head = (@ + 1) % Slots]
          /\ accepted' = accepted + 1 /\ due' = due \cup {accepted'}
          /\ UNCHANGED blocked
     ELSE ~blocked /\ blocked' = TRUE /\ UNCHANGED <<xmit, accepted, due>>
  /\ UNCHANGED <<serial, info_tty, opens, uart_timer, fn, x_char, tx_stopped,
                 ts_trouble>>

InBuffer(x) == [n \in 1 .. Pending(x) |-> x.buf[(x.tail + n - 1) % Slots]]

uart_flush_buffer ==
  /\ serial = "open" /\ Pending(xmit) > 0
  /\ xmit' = [xmit EXCEPT !.head = 0, !.tail = 0]
  /\ due' = {} /\ blocked' = FALSE
  /\ Trouble(If("flushed meanwhile", fn.at = "store"))
  /\ UNCHANGED <<serial, info_tty, opens, uart_timer, fn, accepted, x_char,
                 tx_stopped>>

uart_send_xchar ==
  /\ serial = "open" /\ ~x_char /\ x_char' = TRUE
  /\ UNCHANGED <<serial, info_tty, opens, xmit, uart_timer, fn, accepted, due,
                 tx_stopped, blocked, ts_trouble>>

Stop ==
  /\ serial = "open" /\ tx_stopped' = ~tx_stopped
  /\ UNCHANGED <<serial, info_tty, opens, xmit, uart_timer, fn, accepted, due,
                 x_char, blocked, ts_trouble>>

\* The last close: del_timer does not wait for the function.
tiny_shutdown ==
  /\ serial = "open" /\ ~blocked
  /\ serial' = "shut down" /\ uart_timer' = "made"
  /\ Trouble(If("deleted too late", fn.at # "out"))
  /\ UNCHANGED <<info_tty, opens, xmit, fn, accepted, due, x_char,
                 tx_stopped, blocked>>

Closed ==
  \/ /\ serial = "shut down" /\ serial' = "freed"
     /\ xmit' = NoBuffer /\ due' = {}
     /\ UNCHANGED <<info_tty, tx_stopped, x_char>>
  \/ /\ serial = "freed" /\ serial' = "closed" /\ info_tty' = 0
     /\ x_char' = FALSE /\ tx_stopped' = FALSE /\ UNCHANGED <<xmit, due>>
CloseStep ==
  /\ Closed
  /\ UNCHANGED <<opens, uart_timer, fn, accepted, blocked, ts_trouble>>

-----------------------------------------------------------------------------
(* tiny_timer *)

\* The tty is looked up once; without one the timer is not set again.
Expire ==
  /\ uart_timer = "pending" /\ fn.at = "out"
  /\ uart_timer' = "made"
  /\ fn' = IF info_tty = 0 THEN Out ELSE [Out EXCEPT !.at = "push", !.tty = info_tty]
  /\ UNCHANGED <<serial, info_tty, opens, xmit, accepted, due, x_char,
                 tx_stopped, blocked, ts_trouble>>

Push ==
  /\ fn.at = "push" /\ fn' = [fn EXCEPT !.at = "add"]
  /\ Trouble(If("freed tty", fn.tty # info_tty))
  /\ UNCHANGED <<serial, info_tty, opens, xmit, uart_timer, accepted, due,
                 x_char, tx_stopped, blocked>>

AddTimer ==
  /\ fn.at = "add" /\ fn' = [fn EXCEPT !.at = "tx"]
  /\ Trouble(If("added twice", uart_timer = "pending"))
  /\ uart_timer' = "pending"
  /\ UNCHANGED <<serial, info_tty, opens, xmit, accepted, due, x_char,
                 tx_stopped, blocked>>

\* Fault: the byte is sent and the tail is left where it is if no more follow.
NewTail_Kept(x) == IF Pending(x) = 1 THEN x.tail ELSE (x.tail + 1) % Slots

NewTail(x) == (x.tail + 1) % Slots

\* The head of tiny_tx_chars.  uart_tx_stopped looks into the tty; it is not
\* asked when there is nothing to send.  fifosize is 0, and so one byte goes.
Transmit ==
  LET empty == Pending(xmit) = 0
  IN  /\ fn.at = "tx"
      /\ x_char' = FALSE
      /\ IF x_char \/ empty \/ tx_stopped \/ info_tty = 0 \/ xmit.buf = <<>>
         THEN fn' = Out /\ UNCHANGED due
         ELSE /\ due' = due \ {xmit.buf[xmit.tail]}
              /\ fn' = [fn EXCEPT !.at = "store", !.tail = NewTail(xmit)]
      /\ Trouble(If("null tty", ~x_char /\ ~empty /\ info_tty = 0)
                 \cup If("freed buffer", ~x_char /\ ~empty /\ xmit.buf = <<>>))
  /\ UNCHANGED <<serial, info_tty, opens, xmit, uart_timer, accepted, tx_stopped,
                 blocked>>

\* The tail moves on, and a writer is woken below WAKEUP_CHARS.
tiny_tx_chars ==
  /\ fn.at = "store" /\ fn' = Out
  /\ xmit' = [xmit EXCEPT !.tail = fn.tail]
  /\ blocked' = (blocked /\ Pending(xmit') >= WAKEUP_CHARS)
  /\ UNCHANGED <<serial, info_tty, opens, uart_timer, accepted, due,
                 x_char, tx_stopped, ts_trouble>>

tiny_timer == Expire \/ Push \/ AddTimer \/ Transmit \/ tiny_tx_chars

Faults == {"added twice", "freed tty", "null tty", "freed buffer"}

\* A behaviour ends with its first fault.
Next ==
  /\ ts_trouble \cap Faults = {}
  /\ \/ tiny_startup \/ uart_write \/ uart_flush_buffer \/ uart_send_xchar \/ Stop
     \/ tiny_shutdown \/ CloseStep
     \/ tiny_timer

\* The kernel's timers run on.
Ticks == ts_trouble \cap Faults = {} /\ tiny_timer

-----------------------------------------------------------------------------
(* Properties *)

\* The buffer holds the bytes that are due, each of them once and in order,
\* unless a flush or the last close came while the function was at work on it.
BytesOnce ==
  ts_trouble = {} =>
    LET left == IF fn.at = "store" THEN [xmit EXCEPT !.tail = fn.tail] ELSE xmit
        bytes == InBuffer(left)
    IN  /\ due = {bytes[n] : n \in DOMAIN bytes}
        /\ \A m, n \in DOMAIN bytes : m < n => bytes[m] < bytes[n]

\* An open port's timer goes on, and nothing that is gone is used nor the timer
\* added twice but by a function that was under way when its timer was deleted
\* or the buffer flushed.
PortTicks ==
  /\ serial = "open" /\ ts_trouble \subseteq {"flushed meanwhile"} =>
       (uart_timer = "pending") # (fn.at \in {"push", "add"})
  /\ ts_trouble \cap Faults # {} => "deleted too late" \in ts_trouble

\* A writer that waits for room goes on, unless output is stopped or all ticks
\* go to flow control characters.
WriterGoesOn ==
  ~blocked \/ tx_stopped \/ x_char \/ ts_trouble # {}
=============================================================================
