---------------------------- MODULE ProcessOrder ----------------------------
(***************************************************************************)
(* The order file processor: main() loads the messages of a file, links    *)
(* entries with acknowledgements, joins fills with entries, and prints the *)
(* leading traders and the volume of each instrument.  INTEGRITY_VERIFY    *)
(* and DEBUGV are not defined.                                             *)
(***************************************************************************)
EXTENDS Integers, Sequences, FiniteSets, SequencesExt

CONSTANTS
  Clients,       \* IDs of clients and of orders
  Traders,
  Instruments,
  MaxEach        \* bound: messages of each type

VARIABLES
  stage,           \* of main()
  messages,        \* how many have been loaded
  vEntryMsg, vAckMsg, vFillMsg,
  ActiveVector, LiquidityVector,   \* <<trader, quantity>>
  ClientID2OrderEntry,             \* to the position of the entry
  TradesMap

orderVars == <<stage, messages, vEntryMsg, vAckMsg, vFillMsg, ActiveVector,
               LiquidityVector, ClientID2OrderEntry, TradesMap>>

Init ==
  /\ stage = "load"
  /\ messages = 0
  /\ vEntryMsg = <<>> /\ vAckMsg = <<>> /\ vFillMsg = <<>>
  /\ ActiveVector = <<>> /\ LiquidityVector = <<>>
  /\ ClientID2OrderEntry = <<>> /\ TradesMap = <<>>

\* Every quantity is a power of two of its own: a sum tells what is in it.
Qty == 2 ^ messages

\* The messages of the file, under one header that says which one it is: what
\* a class takes over from the packed bytes of its message
OrderEntryMsg ==
  [client_id : Clients, trader_tag : Traders, instrument : Instruments,
   time_in_force : {"IOC", "GFD"}]
OrderAckMsg == [order_id : Clients, client_id : Clients, order_status : {"GOOD", "REJECT"}]
OrderFillMsg == [order_id : Clients]
isGFD(e) == e.time_in_force = "GFD"
Accept(a) == a.order_status = "GOOD"

\* Bound: names are numbers, given in the order in which they first appear.
InOrder(e) ==
  \A name \in {"client_id", "trader_tag", "instrument"} :
    e[name] <= 1 + Cardinality({vEntryMsg[i][name] : i \in DOMAIN vEntryMsg})

\* LoadFile(): a message goes to the vector of its type, and the next one
\* starts as many bytes further as its header says.  Bound: the types come one
\* after the other, since nothing compares the places of two messages.
LoadEntry ==
  /\ Len(vEntryMsg) < MaxEach /\ vAckMsg = <<>> /\ vFillMsg = <<>>
  /\ \E e \in OrderEntryMsg :
       InOrder(e) /\ vEntryMsg' = Append(vEntryMsg, [qty |-> Qty] @@ e)
  /\ UNCHANGED <<vAckMsg, vFillMsg>>
LoadAck ==
  /\ Len(vAckMsg) < MaxEach /\ vFillMsg = <<>>
  /\ \E a \in OrderAckMsg : vAckMsg' = Append(vAckMsg, a)
  /\ UNCHANGED <<vEntryMsg, vFillMsg>>
LoadFill ==
  /\ Len(vFillMsg) < MaxEach
  /\ \E f \in OrderFillMsg : vFillMsg' = Append(vFillMsg, [qty |-> Qty] @@ f)
  /\ UNCHANGED <<vEntryMsg, vAckMsg>>
Load ==
  /\ stage = "load"
  /\ LoadEntry \/ LoadAck \/ LoadFill
  /\ messages' = messages + 1
  /\ UNCHANGED <<stage, ActiveVector, LiquidityVector, ClientID2OrderEntry, TradesMap>>

\* The end of the file, or a message of an unknown type, whose -1 is ignored
Loaded ==
  /\ stage = "load" /\ stage' = "link"
  /\ UNCHANGED <<messages, vEntryMsg, vAckMsg, vFillMsg, ActiveVector,
                 LiquidityVector, ClientID2OrderEntry, TradesMap>>

\* Fault: any acknowledgement will do, not the first one.
Accepted_Any(e) ==
  \E i \in DOMAIN vAckMsg : vAckMsg[i].client_id = e.client_id /\ Accept(vAckMsg[i])

\* The first acknowledgement with the client's ID says GOOD.
Accepted(e) ==
  LET i == SelectInSeq(vAckMsg, LAMBDA a : a.client_id = e.client_id)
  IN  i # 0 /\ Accept(vAckMsg[i])

\* ActiveTrader and Liquidity know a trader by the characters of the name.
IsOf(item, e) == item[1] = e.trader_tag

\* A quantity is added to its trader's, who is looked for from the front.
Counted(v, e) ==
  LET i == SelectInSeq(v, LAMBDA item : IsOf(item, e))
  IN  IF i = 0 THEN Append(v, <<e.trader_tag, e.qty>>)
               ELSE [v EXCEPT ![i][2] = @ + e.qty]

Tally(entries) == FoldLeft(Counted, <<>>, entries)

\* What std::sort may make of a vector: the largest quantity first
Sorted(v) ==
  {w \in SetToSeqs(ToSet(v)) : \A i \in 2 .. Len(w) : w[i - 1][2] >= w[i][2]}

\* LinkFile()
Link ==
  /\ stage = "link" /\ stage' = "parse"
  /\ ActiveVector' \in Sorted(Tally(SelectSeq(vEntryMsg, Accepted)))
  /\ LiquidityVector' \in Sorted(Tally(SelectSeq(vEntryMsg, isGFD)))
  /\ ClientID2OrderEntry' =
       [c \in {vEntryMsg[i].client_id : i \in DOMAIN vEntryMsg} |->
          SelectLastInSeq(vEntryMsg, LAMBDA e : e.client_id = c)]
  /\ UNCHANGED <<messages, vEntryMsg, vAckMsg, vFillMsg, TradesMap>>

\* The entry of a fill: the order's ID is taken for the client's.
OrderID2ClientID(order_id) == order_id
EntryOf(f) == vEntryMsg[ClientID2OrderEntry[OrderID2ClientID(f.order_id)]]
Filled(trades, f) ==
  LET i == EntryOf(f).instrument
  IN  IF i \in DOMAIN trades THEN [trades EXCEPT ![i] = @ + f.qty]
                             ELSE (i :> f.qty) @@ trades

\* ParseFile(): a fill without an entry makes operator[] insert a null entry,
\* and the instrument is read through it.
Parse ==
  /\ stage = "parse"
  /\ IF \E i \in DOMAIN vFillMsg : vFillMsg[i].order_id \notin DOMAIN ClientID2OrderEntry
     THEN stage' = "crash" /\ UNCHANGED TradesMap
     ELSE stage' = "show" /\ TradesMap' = FoldLeft(Filled, TradesMap, vFillMsg)
  /\ UNCHANGED <<messages, vEntryMsg, vAckMsg, vFillMsg, ActiveVector,
                 LiquidityVector, ClientID2OrderEntry>>

\* ShowResult() reads the first of both vectors, also when there is none.
Show ==
  /\ stage = "show"
  /\ stage' = IF <<>> \in {ActiveVector, LiquidityVector} THEN "crash" ELSE "shown"
  /\ UNCHANGED <<messages, vEntryMsg, vAckMsg, vFillMsg, ActiveVector,
                 LiquidityVector, ClientID2OrderEntry, TradesMap>>

Next == Load \/ Loaded \/ Link \/ Parse \/ Show

-----------------------------------------------------------------------------
(* Properties *)

Total(S(_)) ==
  MapThenSumSet(LAMBDA i : vEntryMsg[i].qty, {i \in DOMAIN vEntryMsg : S(vEntryMsg[i])})
First(acks) == CHOOSE i \in acks : \A j \in acks : i <= j
Acks(c) == {i \in DOMAIN vAckMsg : vAckMsg[i].client_id = c}
Good(e) ==
  Acks(e.client_id) # {} /\ vAckMsg[First(Acks(e.client_id))].order_status = "GOOD"
ActiveQty(t) == Total(LAMBDA e : e.trader_tag = t /\ Good(e))
LiquidQty(t) == Total(LAMBDA e : e.trader_tag = t /\ e.time_in_force = "GFD")
Leads(v, Of(_)) ==
  /\ v # <<>> /\ v[1][2] = Of(v[1][1])
  /\ \A t \in Traders : Of(t) <= v[1][2]
InstrumentOf(c) ==
  vEntryMsg[CHOOSE i \in DOMAIN vEntryMsg :
              /\ vEntryMsg[i].client_id = c
              /\ \A j \in DOMAIN vEntryMsg : vEntryMsg[j].client_id = c => j <= i].instrument

\* The clients of an order, as the acknowledgements give them.  ProcessOrder.h
\* asks whether the two IDs are one, and the code takes them to be.
NumbersAgree == \A i \in DOMAIN vAckMsg : vAckMsg[i].order_id = vAckMsg[i].client_id
Client(order_id) ==
  LET told == {vAckMsg[i].client_id : i \in {j \in DOMAIN vAckMsg : vAckMsg[j].order_id = order_id}}
  IN  IF told = {} THEN order_id ELSE CHOOSE c \in told : TRUE
Fills(S(_)) ==
  MapThenSumSet(LAMBDA n : vFillMsg[n].qty, {n \in DOMAIN vFillMsg : S(vFillMsg[n])})

\* What is shown is what the messages say: the leading traders have the
\* largest totals, counting accepted and good-for-day quantities over all their
\* orders; every fill is in the volume of its order's instrument, provided that
\* the acknowledgements give an order the number of its client; and whatever
\* they give, every fill is in one volume.
ShowsTheTotals ==
  stage = "shown" =>
    /\ Leads(ActiveVector, ActiveQty) /\ Leads(LiquidityVector, LiquidQty)
    /\ NumbersAgree =>
         \A i \in Instruments :
           (IF i \in DOMAIN TradesMap THEN TradesMap[i] ELSE 0)
             = Fills(LAMBDA f : InstrumentOf(Client(f.order_id)) = i)
    /\ MapThenSumSet(LAMBDA i : TradesMap[i], DOMAIN TradesMap) = Fills(LAMBDA f : TRUE)

\* A file is processed to the end unless it has a fill of an order it lacks,
\* or names no accepted or no good-for-day order.
FailsOnlyOnGaps ==
  stage = "crash" =>
    \/ \E n \in DOMAIN vFillMsg : \A i \in DOMAIN vEntryMsg :
         vEntryMsg[i].client_id # vFillMsg[n].order_id
    \/ \A i \in DOMAIN vEntryMsg : ~Good(vEntryMsg[i])
    \/ \A i \in DOMAIN vEntryMsg : vEntryMsg[i].time_in_force # "GFD"
=============================================================================
