------------------------------ MODULE Signals ------------------------------
(***************************************************************************)
(* signal_handler_intterrupt.cpp: one thread, whose signal handlers may be *)
(* interrupted by others.  main installs the handlers one after the other  *)
(* and then sleeps; signals come from other processes at any time.  What   *)
(* the kernel does with a signal (one bit for each standard signal, a      *)
(* queue for the real-time ones, the lowest number first, the masks of all *)
(* the handlers that are on the stack) is external.                        *)
(***************************************************************************)
EXTENDS Naturals, Sequences, FiniteSets, Functions

CONSTANT MaxSent      \* signals that are sent

SIGUSR1 == 10
SIGUSR2 == 12
SIGURG == 23
SIGRTMIN == 34
Signals == {SIGUSR1, SIGUSR2, SIGURG, SIGRTMIN}

VARIABLES
  installed,    \* handlers that main has installed
  alive,
  sent,         \* signals sent, by number
  pending,      \* those that wait for delivery
  handled,      \* those whose handler was begun
  frames,       \* the handlers on the stack, the latest last
  gCount,
  shown         \* what the handlers that are done had for their index

vars == <<installed, alive, sent, pending, handled, frames, gCount, shown>>

\* What setHandler and main ask of sigaction.
Handlers ==
  <<[signum |-> SIGUSR1, handler |-> "SigHandler", mask |-> {}],    \* SA_NODEFER
    [signum |-> SIGUSR2, handler |-> "SigHandler", mask |-> {SIGUSR2}],
    [signum |-> SIGRTMIN, handler |-> "SigHandlerNB", mask |-> {SIGRTMIN}],
    [signum |-> SIGURG, handler |-> "SigHandler", mask |-> Signals]>>

Action(sig) == CHOOSE h \in Range(Handlers) : h.signum = sig
Installed(sig) == \E i \in 1 .. installed : Handlers[i].signum = sig

Init ==
  /\ installed = 0 /\ alive = TRUE
  /\ sent = [s \in Signals |-> 0] /\ pending = [s \in Signals |-> 0]
  /\ handled = [s \in Signals |-> 0]
  /\ frames = <<>> /\ gCount = 0 /\ shown = {}

main ==
  /\ alive /\ frames = <<>> /\ installed < Len(Handlers) /\ installed' = installed + 1
  /\ UNCHANGED <<alive, sent, pending, handled, frames, gCount, shown>>

-----------------------------------------------------------------------------
(* The kernel *)

Total == FoldFunctionOnSet(+, 0, sent, Signals)

\* A standard signal that is pending already is not kept again.
Send(sig) ==
  /\ alive /\ Total < MaxSent /\ sent' = [sent EXCEPT ![sig] = @ + 1]
  /\ pending' = [pending EXCEPT ![sig] = IF sig >= SIGRTMIN THEN @ + 1 ELSE 1]
  /\ UNCHANGED <<installed, alive, handled, frames, gCount, shown>>

Blocked == UNION {Action(frames[i].sig).mask : i \in DOMAIN frames}
Deliverable == {s \in Signals \ Blocked : pending[s] > 0}

\* Without a handler SIGURG is ignored, and the others end the process.
Deliver(sig) ==
  /\ alive /\ sig \in Deliverable /\ \A s \in Deliverable : sig <= s
  /\ pending' = [pending EXCEPT ![sig] = @ - 1]
  /\ IF Installed(sig)
     THEN /\ frames' =
               [i \in DOMAIN frames |->
                  IF frames[i].at = "load" THEN [frames[i] EXCEPT !.cut = TRUE] ELSE frames[i]]
               \o <<[sig |-> sig, at |-> "begin", own |-> 0, index |-> 0, cut |-> FALSE]>>
          /\ handled' = [handled EXCEPT ![sig] = @ + 1] /\ UNCHANGED alive
     ELSE alive' = (sig = SIGURG) /\ UNCHANGED <<frames, handled>>
  /\ UNCHANGED <<installed, sent, gCount, shown>>

-----------------------------------------------------------------------------
(* The handlers *)

Top == frames[Len(frames)]
Below == SubSeq(frames, 1, Len(frames) - 1)
IsTop(handler, at) ==
  /\ alive /\ frames # <<>> /\ Action(Top.sig).handler = handler /\ Top.at = at

\* gCount++ and the load that follows are two steps: a handler that comes in
\* between counts too.  ("own" and "cut" say what happened and decide nothing.)
SigHandler ==
  \/ /\ IsTop("SigHandler", "begin") /\ gCount' = gCount + 1
     /\ frames' = [frames EXCEPT ![Len(frames)].at = "load", ![Len(frames)].own = gCount']
     /\ UNCHANGED <<installed, alive, sent, pending, handled, shown>>
  \/ /\ IsTop("SigHandler", "load")
     /\ frames' = [frames EXCEPT ![Len(frames)].at = "sleep", ![Len(frames)].index = gCount]
     /\ UNCHANGED <<installed, alive, sent, pending, handled, gCount, shown>>
  \/ /\ IsTop("SigHandler", "sleep")
     /\ frames' = Below
     /\ shown' = shown \union {[own |-> Top.own, index |-> Top.index, cut |-> Top.cut]}
     /\ UNCHANGED <<installed, alive, sent, pending, handled, gCount>>

SigHandlerNB ==
  /\ IsTop("SigHandlerNB", "begin") /\ frames' = Below
  /\ UNCHANGED <<installed, alive, sent, pending, handled, gCount, shown>>

Running == main \/ (\E sig \in Signals : Deliver(sig)) \/ SigHandler \/ SigHandlerNB
Next == Running \/ \E sig \in Signals : Send(sig)

-----------------------------------------------------------------------------
(* Properties *)

On(sig) == {i \in DOMAIN frames : frames[i].sig = sig}

\* As main prints: SIGUSR2 cannot be interrupted by itself, not even through
\* the handlers that came in between, and SIGURG by none.
MasksHold ==
  /\ \A s \in {SIGUSR2, SIGURG, SIGRTMIN} : \A i, j \in On(s) : i = j
  /\ \A i \in On(SIGURG) : i = Len(frames)

\* As main prints: real-time signals are handled as often as they were sent,
\* and of the others one that was pending already is the same as before.
SignalsCounted ==
  alive /\ installed = Len(Handlers) =>
    /\ handled[SIGRTMIN] + pending[SIGRTMIN] = sent[SIGRTMIN]
    /\ \A s \in Signals : handled[s] + pending[s] <= sent[s]

\* A handler shows its own number, and no other shows the same, unless it was
\* interrupted between counting and loading; it then shows a later one's.
IndexIsOwn ==
  /\ \A x \in shown : x.index # x.own => x.cut
  /\ \A x, y \in shown : x # y /\ ~x.cut /\ ~y.cut => x.index # y.index

\* Every signal that is pending while the program lives is handled.
SignalsHandled == ~alive \/ (installed = Len(Handlers) /\ frames = <<>> /\ Deliverable = {})
============================================================================
