------------------------------ MODULE Matching ------------------------------
(***************************************************************************)
(* The matching engine of PrestoLabs/src: orders are read from a file line *)
(* by line.  Under the "normal" rule each is matched against the other     *)
(* side's book and what is left rests in its own; under the "auction" rule *)
(* all rest first, one price is chosen, and then the buys that reach it    *)
(* are matched.  The rule is a choice of the Makefile; both builds define  *)
(* NDEBUG, so no assert is evaluated.                                      *)
(*                                                                         *)
(* A line is known by its number, which stands for its ID and its time;    *)
(* the times of the order files rise strictly.                             *)
(***************************************************************************)
EXTENDS Integers, Sequences, FiniteSets, FiniteSetsExt, Sums

CONSTANTS
  NumParties,
  Prices,
  MaxQty,
  MaxLines   \* bound: lines of the file

ASSUME MatchingAssumption ==
  /\ NumParties \in Nat \ {0}
  /\ Prices \subseteq Nat \ {0} /\ IsFiniteSet(Prices)
  /\ MaxQty \in Nat /\ MaxLines \in Nat

VARIABLES
  rule,                  \* NORMAL_RULE_APPLY or not
  pc, lines,             \* what the loop is about, and the orders it has read
  index, order,          \* Orders.bin: next slot, and the entry in each
  levels,                \* of each side: the keys of mOrderMap
  mOrders,               \* of each group: the slots of its orders
  mTotalQty, mLeavesQty, \* of each group
  in, at, full,          \* slot of pIncoming, price of BestOrderGroup, result
  todo, target,          \* auction: buys to match, and targetPrice
  reports, account

book == <<levels, mOrders, mTotalQty, mLeavesQty>>
vars == <<rule, pc, lines, index, order, book, in, at, full, todo, target,
          reports, account>>

Sides == {"BUY", "SELL"}
Other(side) == IF side = "BUY" THEN "SELL" ELSE "BUY"
Slots == 0 .. MaxLines - 1
None == 0   \* no price

\* The parties take turns (a bound on the input).
Parties == 0 .. NumParties - 1
PartyOf(n) == n % NumParties

\* The entries OrderEntry(OrderStr) builds from line n
NewOrders(n) ==
  {[id |-> n, party |-> PartyOf(n), price |-> p, qty |-> q, leaves |-> q, side |-> s] :
     p \in Prices, q \in 0 .. MaxQty, s \in Sides}

Groups(v) == [s \in Sides |-> [p \in Prices |-> v]]

Init ==
  /\ rule \in {"normal", "auction"}
  /\ pc = "read" /\ lines = <<>>
  /\ index = 0 /\ order = <<>>
  /\ levels = [s \in Sides |-> {}]
  /\ mOrders = Groups({}) /\ mTotalQty = Groups(0) /\ mLeavesQty = Groups(0)
  /\ in = 0 /\ at = None /\ full = FALSE
  /\ todo = {} /\ target = None
  /\ reports = <<>>
  /\ account = [p \in Parties |-> [longQty |-> 0, shortQty |-> 0]]

\* cmpBuy and cmpSell order the levels of a side.
Better(side, p, q) == IF side = "BUY" THEN p > q ELSE p < q
Best(side, ps) == CHOOSE p \in ps : \A q \in ps \ {p} : Better(side, p, q)

\* Fault: the limit is compared the wrong way round at equal prices.
OutOfReach_Equal(o, p) == ~Better(Other(o.side), p, o.price)

\* cmp(pIncomingOrder->getPrice(), group)
OutOfReach(o, p) == Better(Other(o.side), o.price, p)

\* match() has a group to begin with.
Meets(o) ==
  LET there == Other(o.side)
  IN  levels[there] # {} /\ ~OutOfReach(o, Best(there, levels[there]))

Added(o) == o.leaves

\* Book::addOrder of entry o in slot s
AddOrder(s, o) ==
  /\ levels' = [levels EXCEPT ![o.side] = @ \union {o.price}]
  /\ mOrders' = [mOrders EXCEPT ![o.side][o.price] = @ \union {s}]
  /\ mTotalQty' = [mTotalQty EXCEPT ![o.side][o.price] = @ + o.qty]
  /\ mLeavesQty' = [mLeavesQty EXCEPT ![o.side][o.price] = @ + Added(o)]

\* Orders.bin with entry o in the slot of index; what a slot held is gone.
Placed(o) == [s \in DOMAIN order \union {index} |->
                IF s = index THEN o ELSE order[s]]

-----------------------------------------------------------------------------
(* Reading a line *)

ReadNormal(o) ==
  /\ in' = index
  /\ IF o.qty = 0 THEN pc' = "read" /\ UNCHANGED at
     ELSE IF Meets(o)
     THEN pc' = "match" /\ at' = Best(Other(o.side), levels[Other(o.side)])
     ELSE pc' = "rest" /\ UNCHANGED at
  /\ UNCHANGED <<index, book>>

ReadAuction(o) ==
  AddOrder(index, o) /\ index' = index + 1 /\ UNCHANGED <<pc, in, at>>

Read ==
  /\ pc = "read" /\ Len(lines) < MaxLines
  /\ full' = FALSE
  /\ \E o \in NewOrders(Len(lines) + 1) :
       /\ lines' = Append(lines, o)
       /\ order' = Placed(o)
       /\ IF rule = "normal" THEN ReadNormal(o) ELSE ReadAuction(o)
  /\ UNCHANGED <<rule, todo, target, reports, account>>

Taken == index + 1

\* match() has returned false: the order rests and keeps its slot.
Rest ==
  /\ pc = "rest"
  /\ AddOrder(in, order[in])
  /\ index' = Taken
  /\ pc' = "read"
  /\ UNCHANGED <<rule, lines, order, in, at, full, todo, target, reports, account>>

-----------------------------------------------------------------------------
(* Matching order[in] with the group at price at of the other side *)

There == Other(order[in].side)

\* Fault: the group is ordered by size under either rule.
Sooner_Size(s, t) == order[s].leaves > order[t].leaves

\* getKey: time under the normal rule, else quantity
Sooner(s, t) == IF rule = "normal" THEN order[s].id < order[t].id
                                   ELSE order[s].leaves > order[t].leaves

\* The orders std::sort may put first
Front(slots) == {s \in slots : ~\E t \in slots : Sooner(t, s)}

Crossed(s) == Min({order[in].leaves, order[s].leaves})

\* Fault: the parties are told apart by who came first.
Buyer_First(s) == s
Buyer(s) == IF There = "BUY" THEN s ELSE in
Seller(s) == IF There = "BUY" THEN in ELSE s

Finished(q) == order[in].leaves = q

\* The entry of Reports.bin, placed behind those before it
Report(s, q) ==
  [id1 |-> order[in].id, id2 |-> order[s].id, ptr1 |-> in, ptr2 |-> s, qty |-> q,
   price |-> at]

\* An iteration of OrderGroup::match: OrderEntry::match, and the resting
\* order leaves the group when it is filled.
Fill(s) ==
  LET q == Crossed(s)
  IN  /\ order' = [order EXCEPT ![in].leaves = @ - q, ![s].leaves = @ - q]
      /\ reports' = Append(reports, Report(s, q))
      /\ account' = [account EXCEPT ![order[Buyer(s)].party].longQty = @ + q,
                                    ![order[Seller(s)].party].shortQty = @ + q]
      /\ mLeavesQty' = [mLeavesQty EXCEPT ![There][at] = @ - q]
      /\ mOrders' = [mOrders EXCEPT ![There][at] =
                       IF order[s].leaves = q THEN @ \ {s} ELSE @]
      /\ full' = Finished(q)

MatchOrder ==
  /\ pc = "match" /\ ~full
  /\ \E s \in Front(mOrders[There][at]) : Fill(s)
  /\ UNCHANGED <<rule, pc, lines, index, levels, mTotalQty, in, at, todo, target>>

UsedUp == mLeavesQty[There][at] = 0

Erased(f, v) == IF UsedUp THEN [f EXCEPT ![There][at] = v] ELSE f
\* Fault: only the best level is gone through.
Behind_None == {}
Behind == {p \in levels[There] : Better(There, at, p)}

\* Under the auction rule the result is not used.
Return(result) ==
  /\ pc' = IF rule = "auction" THEN "auction" ELSE IF result THEN "read" ELSE "rest"
  /\ todo' = todo \ {in}
  /\ at' = None

\* Book::match after group.match.  The comparison with a level behind the
\* last one reads the end of the map: it may go either way, and when it does
\* not stop the loop, the loop ends and the order counts as filled.
NextGroup ==
  /\ pc = "match" /\ (full \/ mOrders[There][at] = {})
  /\ levels' = IF UsedUp THEN [levels EXCEPT ![There] = @ \ {at}] ELSE levels
  /\ mOrders' = Erased(mOrders, {})
  /\ mTotalQty' = Erased(mTotalQty, 0)
  /\ \/ full /\ Return(TRUE)
     \/ ~full /\ Behind = {} /\ \E result \in BOOLEAN : Return(result)
     \/ ~full /\ Behind # {} /\ OutOfReach(order[in], Best(There, Behind))
        /\ Return(FALSE)
     \/ /\ ~full /\ Behind # {} /\ ~OutOfReach(order[in], Best(There, Behind))
        /\ at' = Best(There, Behind)
        /\ UNCHANGED <<pc, todo>>
  /\ UNCHANGED <<rule, lines, index, order, mLeavesQty, in, full, target,
                 reports, account>>

-----------------------------------------------------------------------------
(* The auction *)

\* consolidateGroupQty: the sum so far, with this level
SumSofar(side, p) ==
  Total(mTotalQty[side], {q \in levels[side] : ~Better(side, p, q)})

\* consolidateQty: each level adds up those before it.
Consolidated(side) ==
  [p \in Prices |-> IF p \in levels[side] THEN SumSofar(side, p) ELSE 0]

\* restoreQty of the sells, after their totals have been consolidated
Restored == [mLeavesQty EXCEPT !["SELL"] = Consolidated("SELL")]

\* Fault: the level behind the price is looked at.
Reached_Behind(p) == {q \in levels["SELL"] : q >= p}
Reached(p) == {q \in levels["SELL"] : q <= p}

\* totalCrossQty of buy level p: Book::match(Qty, p) looks at the last sell
\* level p reaches.
CrossQty(p) ==
  IF Reached(p) = {} THEN 0
  ELSE Min({Consolidated("BUY")[p], Consolidated("SELL")[Max(Reached(p))]})

\* The first buy level that no other beats in volume, if any has a volume
TargetPrice ==
  LET volume(p) == p * CrossQty(p)
      best == {p \in levels["BUY"] : /\ volume(p) > 0
                                     /\ \A q \in levels["BUY"] : volume(q) <= volume(p)}
  IN  IF best = {} THEN None ELSE Max(best)

Called(p) == p >= target'

\* After the last line: consolidate both books, choose the price, and count
\* the sells anew from the consolidated totals (restoreQty).
Uncross ==
  /\ rule = "auction" /\ pc = "read"
  /\ mTotalQty' = [s \in Sides |-> Consolidated(s)]
  /\ mLeavesQty' = Restored
  /\ target' = TargetPrice
  /\ todo' = UNION {mOrders["BUY"][p] : p \in {q \in levels["BUY"] : Called(q)}}
  /\ pc' = "auction"
  /\ UNCHANGED <<rule, lines, index, order, levels, mOrders, in, at, full,
                 reports, account>>

\* The next buy: the groups from the best, each sorted by sortForAuction
NextBuy ==
  /\ pc = "auction" /\ todo # {}
  /\ LET price == Max({order[s].price : s \in todo})
     IN  \E s \in Front({t \in todo : order[t].price = price}) :
           /\ in' = s
           /\ IF Meets(order[s])
              THEN /\ pc' = "match" /\ at' = Best("SELL", levels["SELL"])
                   /\ UNCHANGED todo
              ELSE todo' = todo \ {s} /\ UNCHANGED <<pc, at>>
  /\ full' = FALSE
  /\ UNCHANGED <<rule, lines, index, order, book, target, reports, account>>

-----------------------------------------------------------------------------
Next == Read \/ Rest \/ MatchOrder \/ NextGroup \/ Uncross \/ NextBuy

Spec == Init /\ [][Next]_vars

-----------------------------------------------------------------------------
(* Properties *)

Leaves == [s \in DOMAIN order |-> order[s].leaves]
Traded == [i \in DOMAIN reports |-> reports[i].qty]

\* What the reports say that each line has traded
Mentions(n) == {i \in DOMAIN reports : n \in {reports[i].id1, reports[i].id2}}
FilledQty == [n \in DOMAIN lines |-> Total(Traded, Mentions(n))]
LinesOf(p, side) == {n \in DOMAIN lines : lines[n].party = p /\ lines[n].side = side}

Entry(n) == [id : {n}, party : Parties, price : Prices, qty : 0 .. MaxQty,
             leaves : 0 .. MaxQty, side : Sides]

\* Every variable stays in its type.
TypeOK ==
  /\ rule \in {"normal", "auction"}
  /\ pc \in {"read", "rest", "match", "auction"}
  /\ Len(lines) <= MaxLines /\ \A n \in DOMAIN lines : lines[n] \in Entry(n)
  /\ index \in 0 .. Len(lines)
  /\ DOMAIN order \subseteq Slots
  /\ \A s \in DOMAIN order : \E n \in DOMAIN lines : order[s] \in Entry(n)
  /\ levels \in [Sides -> SUBSET Prices]
  /\ mOrders \in [Sides -> [Prices -> SUBSET DOMAIN order]]
  /\ mTotalQty \in [Sides -> [Prices -> Nat]]
  /\ mLeavesQty \in [Sides -> [Prices -> Nat]]
  /\ in \in Slots \union {0} /\ at \in Prices \union {None} /\ full \in BOOLEAN
  /\ todo \subseteq DOMAIN order /\ target \in Prices \union {None}
  /\ reports \in Seq([id1 : DOMAIN lines, id2 : DOMAIN lines, ptr1 : Slots,
                      ptr2 : Slots, qty : 0 .. MaxQty, price : Prices])
  /\ account \in [Parties -> [longQty : Nat, shortQty : Nat]]

\* Between two lines of a normal run the best buy is below the best sell: no
\* pair of resting orders could still trade, whatever path match() took.
NotCrossed ==
  rule = "normal" /\ pc = "read" =>
    \A b \in levels["BUY"], s \in levels["SELL"] : b < s

\* Between two lines of a normal run a level is in the map exactly as long as
\* it has orders, mLeavesQty is what they have left, and none is empty: group
\* and map agree on what empty() means (Order.hpp, line 113).
LevelsExact ==
  rule = "normal" /\ pc = "read" =>
    \A side \in Sides, p \in Prices :
      /\ p \in levels[side] <=> mOrders[side][p] # {}
      /\ mLeavesQty[side][p] = Total(Leaves, mOrders[side][p])
      /\ \A s \in mOrders[side][p] :
           order[s].leaves > 0 /\ order[s].price = p /\ order[s].side = side

\* The books say, between two lines, what their orders say: levels, groups and
\* entries agree, and whatever could have traded has.
BooksExact == LevelsExact /\ NotCrossed

\* The reports, the entries and the accounts tell one story: what an order has
\* lost is what the reports say of it, no order is overfilled, and each party's
\* positions are what its orders have traded.
ReportsComplete ==
  /\ \A s \in DOMAIN order : order[s].qty - order[s].leaves = FilledQty[order[s].id]
  /\ \A n \in DOMAIN lines : FilledQty[n] <= lines[n].qty
  /\ \A p \in Parties :
       account[p] = [longQty |-> Total(FilledQty, LinesOf(p, "BUY")),
                     shortQty |-> Total(FilledQty, LinesOf(p, "SELL"))]

\* A report's pointer to the resting order (mOrderPtr2; Report.hpp, line 19)
\* still leads to it: the slot of an order that has rested is never given to
\* another.  The one to the incoming order (mOrderPtr1, line 18) goes stale when
\* that order was fully crossed or dropped, as the next line takes its slot
\* (Rules.hpp, lines 53-54); otherwise, as long as the order has an entry
\* anywhere in Orders.bin, the pointer leads there, and in an auction always.
PointersLead ==
  \A i \in DOMAIN reports :
    LET r == reports[i]
    IN  /\ order[r.ptr2].id = r.id2
        /\ \/ order[r.ptr1].id = r.id1
           \/ rule = "normal" /\ \A s \in DOMAIN order : order[s].id # r.id1

\* Every report fills one of its two orders, so the reports of a file never
\* outgrow the entries Reports.bin was mapped with, two for each line.
ReportsFit == Len(reports) <= Len(lines)

\* Orders.bin, Reports.bin and the accounts fit each other.
ReportsExact == TypeOK /\ ReportsComplete /\ PointersLead /\ ReportsFit

\* Priority: an order still in a book was in the book of every trade of an
\* order that came later, and no such trade took one behind it: at a worse
\* price, or under the normal rule at the same price and later.
Priority ==
  \A side \in Sides : \A p \in levels[side] :
    \A s \in mOrders[side][p], i \in DOMAIN reports :
      LET other == lines[reports[i].id2]
          earlier == order[s].id < reports[i].id1 \/ rule = "auction"
      IN  earlier /\ other.side = side =>
            /\ ~Better(side, p, reports[i].price)
            /\ rule = "normal" /\ p = reports[i].price => other.id <= order[s].id

\* An order loses its rest, dropped with a quantity left, only when it has used
\* up the other book (Book.hpp, line 73, answers true for it).
DropsOnlyAtTheEnd ==
  [][rule = "normal" /\ pc = "match" /\ pc' = "read" /\ ~full
       => levels'[There] = {}]_vars

\* The chosen price has the greatest volume any price of the market has, with
\* demand and supply counted from the orders of the file.
Wanted(side, p) ==
  Total([n \in DOMAIN lines |-> lines[n].qty],
        {n \in DOMAIN lines : lines[n].side = side /\ ~Better(side, p, lines[n].price)})
Volume(p) == Min({Wanted("BUY", p), Wanted("SELL", p)})
TargetIsBest ==
  pc = "auction" => \A p \in Prices : p * Volume(p) <= target * Volume(target)

\* When the auction is over the quantity that its price promised has traded.
TradesTheVolume ==
  pc = "auction" /\ todo = {} =>
    Total(Traded, DOMAIN reports) >= Volume(target)

\* The auction calls the best price and trades what it promises.
AuctionBest == TargetIsBest /\ TradesTheVolume
=============================================================================
