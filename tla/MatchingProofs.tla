--------------------------- MODULE MatchingProofs ---------------------------
(***************************************************************************)
(* Proofs about Matching for any prices, parties, quantities and files.    *)
(***************************************************************************)
EXTENDS Matching, FiniteSetTheorems, SequenceTheorems, WellFoundedInduction,
        TLAPS

(***************************************************************************)
(* The inductive invariant                                                 *)
(***************************************************************************)

Records == [id : Nat, party : Parties, price : Prices, qty : 0 .. MaxQty,
            leaves : 0 .. MaxQty, side : Sides]
Fills == [id1 : Nat, id2 : Nat, ptr1 : Slots, ptr2 : Slots, qty : 0 .. MaxQty,
          price : Prices]

KindsOK ==
  /\ rule \in {"normal", "auction"}
  /\ pc \in {"read", "rest", "match", "auction"}
  /\ lines \in Seq(Records) /\ Len(lines) <= MaxLines
  /\ index \in 0 .. Len(lines)
  /\ order \in [DOMAIN order -> Records]
  /\ DOMAIN order \subseteq Slots /\ \A s \in DOMAIN order : s <= index
  /\ levels \in [Sides -> SUBSET Prices]
  /\ mOrders \in [Sides -> [Prices -> SUBSET Slots]]
  /\ mTotalQty \in [Sides -> [Prices -> Nat]]
  /\ mLeavesQty \in [Sides -> [Prices -> Nat]]
  /\ in \in Slots \union {0} /\ at \in Prices \union {None} /\ full \in BOOLEAN
  /\ todo \subseteq DOMAIN order /\ target \in Prices \union {None}
  /\ reports \in Seq(Fills)
  /\ account \in [Parties -> [longQty : Nat, shortQty : Nat]]

\* Every slot holds a line of its own, as the file had it but for its leaves.
EntriesOK ==
  /\ \A n \in DOMAIN lines : lines[n].id = n
  /\ \A s \in DOMAIN order :
       LET line == lines[order[s].id]
       IN  /\ order[s].id \in DOMAIN lines
           /\ order[s].leaves <= order[s].qty
           /\ order[s].party = line.party /\ order[s].price = line.price
           /\ order[s].qty = line.qty /\ order[s].side = line.side
  /\ \A s, t \in DOMAIN order : order[s].id = order[t].id => s = t

\* What each place of the loop knows of the order it is about.
PlaceOK ==
  /\ pc \in {"match", "rest"} => in \in DOMAIN order
  /\ pc = "match" => at \in levels[There] /\ (full => order[in].leaves = 0)
  /\ rule = "normal" =>
       /\ pc # "auction" /\ todo = {}
       /\ pc \in {"match", "rest"} =>
            in = index /\ order[in].id = Len(lines) /\ index < Len(lines)
       /\ pc = "rest" \/ (pc = "match" /\ ~full) => order[in].leaves > 0
  /\ rule = "auction" =>
       /\ pc # "rest"
       /\ pc = "read" => reports = <<>> /\ index = Len(lines)
       /\ pc = "match" => in \in todo
       /\ \A s \in todo : order[s].side = "BUY" /\ s < index

\* A group's orders have come to rest, at its side and price; better groups
\* than the one being matched have been used up.
GroupsOK ==
  /\ \A side \in Sides, p \in Prices :
       /\ mOrders[side][p] # {} => p \in levels[side]
       /\ \A s \in mOrders[side][p] :
            /\ s \in DOMAIN order /\ s < index
            /\ order[s].side = side /\ order[s].price = p
            /\ rule = "normal" => order[s].leaves > 0
  /\ pc = "match" =>
       \A p \in levels[There] : Better(There, p, at) => mOrders[There][p] = {}

\* Under the normal rule no level is empty but the one being matched, and
\* neither the levels nor an order about to rest cross the other side.
LevelsOK ==
  /\ rule = "normal" =>
       /\ \A side \in Sides : \A p \in levels[side] :
            mOrders[side][p] = {} => pc = "match" /\ side = There /\ p = at
       /\ \A b \in levels["BUY"], s \in levels["SELL"] : b < s
  /\ pc = "rest" => \A p \in levels[There] : OutOfReach(order[in], p)

\* A group's quantity covers what its orders have left; the auction counts
\* levels more than once, and the normal rule is exact.
SumsOK ==
  \A side \in Sides, p \in Prices :
    /\ mLeavesQty[side][p] >= Total(Leaves, mOrders[side][p])
    /\ rule = "normal" => mLeavesQty[side][p] = Total(Leaves, mOrders[side][p])
    /\ rule = "auction" /\ pc = "read" => mTotalQty[side][p] >= mLeavesQty[side][p]

\* Priority, of every group.
TradesOK ==
  \A side \in Sides, p \in Prices :
    \A s \in mOrders[side][p], i \in DOMAIN reports :
      LET other == lines[reports[i].id2]
          earlier == order[s].id < reports[i].id1 \/ rule = "auction"
      IN  earlier /\ other.side = side =>
            /\ ~Better(side, p, reports[i].price)
            /\ rule = "normal" /\ p = reports[i].price => other.id <= order[s].id

\* A report is about two lines.  Its pointer to the second leads to an order
\* that has rested, the one to the first to that order or else it has no entry.
PointersOK ==
  \A i \in DOMAIN reports :
    /\ reports[i].id1 \in DOMAIN lines /\ reports[i].id2 \in DOMAIN lines
    /\ reports[i].ptr2 \in DOMAIN order /\ reports[i].ptr2 < index
    /\ order[reports[i].ptr2].id = reports[i].id2
    /\ reports[i].ptr1 \in DOMAIN order
    /\ \/ order[reports[i].ptr1].id = reports[i].id1
       \/ rule = "normal" /\ \A s \in DOMAIN order : order[s].id # reports[i].id1

\* Each report is of an order that it has finished: one with nothing left
\* that is still to be matched has not been reported.
Finishing == {n \in DOMAIN lines : FilledQty[n] = lines[n].qty /\ Mentions(n) # {}}
Unreported(s) == order[s].leaves = 0 => Mentions(order[s].id) = {}
CountOK ==
  /\ Len(reports) <= Cardinality(Finishing)
  /\ \A p \in Prices : \A s \in mOrders["SELL"][p] : Unreported(s)
  /\ \A s \in todo : (pc = "match" /\ s = in => ~full) => Unreported(s)

IInv == /\ KindsOK /\ EntriesOK /\ PlaceOK /\ GroupsOK /\ LevelsOK /\ SumsOK
        /\ TradesOK /\ PointersOK /\ ReportsComplete /\ CountOK

LEMMA MinOfTwo ==
  ASSUME NEW a \in Int, NEW b \in Int
  PROVE  Min({a, b}) = IF a <= b THEN a ELSE b
<1>1. \E x \in {a, b} : \A y \in {a, b} : x <= y
  OBVIOUS
<1>2. Min({a, b}) \in {a, b} /\ Min({a, b}) <= a /\ Min({a, b}) <= b
  BY <1>1 DEF Min
<1> QED
  BY <1>2

LEMMA PricesAreNumbers ==
  /\ \A p \in Prices : p \in Nat /\ p # None
  /\ \A ps : ps \subseteq Prices => ps \subseteq Nat /\ IsFiniteSet(ps)
<1>1. \A p \in Prices : p \in Nat /\ p # None
  BY MatchingAssumption DEF None
<1>2. \A ps : ps \subseteq Prices => IsFiniteSet(ps)
  BY MatchingAssumption, FS_Subset
<1> QED
  BY <1>1, <1>2

LEMMA BestIsBest ==
  ASSUME NEW side \in Sides, NEW ps, ps \subseteq Prices, ps # {}
  PROVE  /\ Best(side, ps) \in ps
         /\ \A q \in ps \ {Best(side, ps)} : Better(side, Best(side, ps), q)
<1>1. ps \subseteq Nat /\ IsFiniteSet(ps)
  BY PricesAreNumbers
<1>2. /\ \E x \in ps : \A y \in ps : y <= x
      /\ \E x \in ps : \A y \in ps : x <= y
  BY <1>1, Extrema
<1>3. \E p \in ps : \A q \in ps \ {p} : Better(side, p, q)
  <2>1. CASE side = "BUY"
    BY <1>1, <1>2, <2>1 DEF Better
  <2>2. CASE side # "BUY"
    <3>1. PICK p \in ps : \A q \in ps : p <= q
      BY <1>2
    <3>2. \A q \in ps \ {p} : p < q
      BY <1>1, <3>1
    <3> QED
      BY <2>2, <3>2 DEF Better
  <2> QED
    BY <2>1, <2>2
<1> QED
  BY <1>3 DEF Best

LEMMA MaxIsIn ==
  ASSUME NEW S, S \subseteq Nat, IsFiniteSet(S), S # {}
  PROVE  Max(S) \in S /\ \A y \in S : y <= Max(S)
<1>1. \E x \in S : \A y \in S : x >= y
  BY Extrema
<1> QED
  BY <1>1 DEF Max

\* What is summed over is finite.
LEMMA Finite ==
  KindsOK => /\ IsFiniteSet(DOMAIN lines) /\ IsFiniteSet(DOMAIN reports)
             /\ \A S : S \subseteq DOMAIN lines => IsFiniteSet(S)
             /\ \A n : IsFiniteSet(Mentions(n))
             /\ \A side \in Sides, p \in Prices : IsFiniteSet(mOrders[side][p])
             /\ \A side \in Sides : IsFiniteSet(levels[side])
<1> SUFFICES ASSUME KindsOK
             PROVE  /\ IsFiniteSet(DOMAIN lines) /\ IsFiniteSet(DOMAIN reports)
                    /\ \A S : S \subseteq DOMAIN lines => IsFiniteSet(S)
                    /\ \A n : IsFiniteSet(Mentions(n))
                    /\ \A side \in Sides, p \in Prices : IsFiniteSet(mOrders[side][p])
                    /\ \A side \in Sides : IsFiniteSet(levels[side])
  OBVIOUS
<1>1. /\ DOMAIN lines = 1 .. Len(lines) /\ Len(lines) \in Int
      /\ DOMAIN reports = 1 .. Len(reports) /\ Len(reports) \in Int
  BY DEF KindsOK
<1>2. IsFiniteSet(DOMAIN lines) /\ IsFiniteSet(DOMAIN reports)
  BY <1>1, FS_Interval
<1>3. IsFiniteSet(Slots)
  <2>1. MaxLines - 1 \in Int /\ 0 \in Int
    BY MatchingAssumption
  <2> QED
    BY <2>1, FS_Interval DEF Slots
<1>4. \A S : S \subseteq DOMAIN lines => IsFiniteSet(S)
  BY <1>2, FS_Subset
<1>5. \A n : IsFiniteSet(Mentions(n))
  BY <1>2, FS_Subset DEF Mentions
<1>6. \A side \in Sides, p \in Prices : mOrders[side][p] \subseteq Slots
  BY DEF KindsOK
<1>7. \A side \in Sides, p \in Prices : IsFiniteSet(mOrders[side][p])
  BY <1>3, <1>6, FS_Subset
<1>8. \A side \in Sides : IsFiniteSet(levels[side])
  BY PricesAreNumbers DEF KindsOK
<1> QED
  BY <1>2, <1>4, <1>5, <1>7, <1>8

(***************************************************************************)
(* The initial states                                                      *)
(***************************************************************************)

LEMMA Initially == Init => IInv
<1> SUFFICES ASSUME Init PROVE IInv
  OBVIOUS
<1>0. MaxLines \in Nat
  BY MatchingAssumption
<1>1. KindsOK
  <2>1. lines \in Seq(Records) /\ Len(lines) = 0 /\ reports \in Seq(Fills)
    BY DEF Init
  <2>2. order \in [DOMAIN order -> Records] /\ DOMAIN order = {} /\ todo = {}
    BY DEF Init
  <2>3. /\ levels \in [Sides -> SUBSET Prices]
        /\ mOrders \in [Sides -> [Prices -> SUBSET Slots]]
        /\ mTotalQty \in [Sides -> [Prices -> Nat]]
        /\ mLeavesQty \in [Sides -> [Prices -> Nat]]
    BY DEF Init, Groups
  <2>4. account \in [Parties -> [longQty : Nat, shortQty : Nat]]
    BY DEF Init
  <2>5. /\ rule \in {"normal", "auction"} /\ pc = "read" /\ index = 0
        /\ in = 0 /\ at = None /\ full = FALSE /\ target = None
    BY DEF Init
  <2> QED
    <3>1. index \in 0 .. Len(lines) /\ Len(lines) <= MaxLines
      BY <1>0, <2>1, <2>5
    <3> QED
      BY <2>1, <2>2, <2>3, <2>4, <2>5, <3>1, Zenon DEF KindsOK
<1>2. EntriesOK /\ PlaceOK /\ GroupsOK /\ LevelsOK /\ TradesOK /\ PointersOK
  BY DEF Init, EntriesOK, PlaceOK, GroupsOK, LevelsOK, TradesOK, PointersOK, Groups, Sides
<1>3. SumsOK
  <2>1. \A side \in Sides, p \in Prices :
          /\ mOrders[side][p] = {} /\ mLeavesQty[side][p] = 0 /\ mTotalQty[side][p] = 0
    BY DEF Init, Groups
  <2>2. Total(Leaves, {}) = 0 /\ 0 >= 0
    BY TotalEmpty
  <2> QED
    BY <2>1, <2>2, Zenon DEF SumsOK
<1>4. ReportsComplete
  <2>1. \A p \in Parties, side \in Sides : LinesOf(p, side) = {}
    BY DEF Init, LinesOf
  <2>2. Total(FilledQty, {}) = 0
    BY TotalEmpty
  <2>3. DOMAIN lines = {} /\ DOMAIN order = {}
    BY DEF Init
  <2>4. \A p \in Parties : account[p] = [longQty |-> 0, shortQty |-> 0]
    BY DEF Init
  <2> QED
    BY <2>1, <2>2, <2>3, <2>4 DEF ReportsComplete, Sides
<1>5. CountOK
  <2>1. Len(reports) = 0 /\ Finishing = {} /\ todo = {}
    BY DEF Init, Finishing
  <2>2. \A p \in Prices : mOrders["SELL"][p] = {}
    BY DEF Init, Groups, Sides
  <2> QED
    BY <2>1, <2>2, FS_EmptySet DEF CountOK
<1> QED
  BY <1>1, <1>2, <1>3, <1>4, <1>5 DEF IInv

\* What has been traded is counted in natural numbers.
LEMMA FilledIsNat ==
  KindsOK => /\ \A i \in DOMAIN reports :
                  reports[i] \in Fills /\ Traded[i] = reports[i].qty /\ Traded[i] \in Nat
             /\ \A n : Total(Traded, Mentions(n)) \in Nat
             /\ \A n \in DOMAIN lines : FilledQty[n] \in Nat
<1> SUFFICES ASSUME KindsOK
             PROVE  /\ \A i \in DOMAIN reports : /\ reports[i] \in Fills
                                                 /\ Traded[i] = reports[i].qty
                                                 /\ Traded[i] \in Nat
                    /\ \A n : Total(Traded, Mentions(n)) \in Nat
                    /\ \A n \in DOMAIN lines : FilledQty[n] \in Nat
  OBVIOUS
<1>1. \A i \in DOMAIN reports : reports[i] \in Fills
  BY DEF KindsOK
<1>2. \A f \in Fills : f.qty \in Nat
  BY MatchingAssumption DEF Fills
<1>3. \A i \in DOMAIN reports : Traded[i] = reports[i].qty /\ Traded[i] \in Nat
  BY <1>1, <1>2 DEF Traded
<1>4. \A n : \A i \in Mentions(n) : Traded[i] \in Nat
  BY <1>3 DEF Mentions
<1>5. \A n : Total(Traded, Mentions(n)) \in Nat
  BY <1>4, Finite, TotalNat
<1> QED
  BY <1>1, <1>3, <1>5 DEF FilledQty

\* What the orders of a group have left, too.
LEMMA LeavesAreNat ==
  KindsOK /\ GroupsOK =>
    /\ \A s \in DOMAIN order : Leaves[s] = order[s].leaves /\ Leaves[s] \in Nat
    /\ \A side \in Sides, p \in Prices : mOrders[side][p] \subseteq DOMAIN order
<1> SUFFICES ASSUME KindsOK, GroupsOK
             PROVE  /\ \A s \in DOMAIN order : Leaves[s] = order[s].leaves /\ Leaves[s] \in Nat
                    /\ \A side \in Sides, p \in Prices : mOrders[side][p] \subseteq DOMAIN order
  OBVIOUS
<1>1. \A r \in Records : r.leaves \in Nat
  BY MatchingAssumption DEF Records
<1>2. \A s \in DOMAIN order : order[s] \in Records
  BY DEF KindsOK
<1> QED
  BY <1>1, <1>2 DEF Leaves, GroupsOK

LEMMA QuantitiesAreNat ==
  KindsOK => \A side \in Sides, p \in Prices :
               mLeavesQty[side][p] \in Nat /\ mTotalQty[side][p] \in Nat
  BY DEF KindsOK

(***************************************************************************)
(* Reading a line                                                          *)
(***************************************************************************)

\* Line o has been appended, and its entry is in the slot of index.
Placing(o) ==
  /\ o \in Records /\ o.id = Len(lines) + 1 /\ o.leaves = o.qty
  /\ lines' \in Seq(Records) /\ Len(lines') = Len(lines) + 1
  /\ DOMAIN lines' = DOMAIN lines \cup {o.id} /\ o.id \notin DOMAIN lines
  /\ lines'[o.id] = o /\ \A n \in DOMAIN lines : lines'[n] = lines[n]
  /\ order' \in [DOMAIN order' -> Records]
  /\ DOMAIN order' = DOMAIN order \cup {index} /\ index \in Slots
  /\ order'[index] = o
  /\ \A s \in DOMAIN order : s # index => order'[s] = order[s]

LEMMA LineIsPlaced ==
  ASSUME IInv, Len(lines) < MaxLines, NEW o \in NewOrders(Len(lines) + 1),
         lines' = Append(lines, o), order' = Placed(o)
  PROVE  Placing(o) /\ EntriesOK'
<1>1. /\ lines \in Seq(Records) /\ Len(lines) \in Nat /\ index \in 0 .. Len(lines)
      /\ order \in [DOMAIN order -> Records] /\ DOMAIN order \subseteq Slots
      /\ DOMAIN lines = 1 .. Len(lines)
  BY DEF IInv, KindsOK
<1>2. o \in Records /\ o.id = Len(lines) + 1 /\ o.leaves = o.qty
  <2>1. PICK n : n = Len(lines) + 1
    OBVIOUS
  <2>2. n \in Nat /\ PartyOf(n) \in Parties
    BY <1>1, <2>1, MatchingAssumption DEF PartyOf, Parties
  <2> QED
    BY <2>1, <2>2, MatchingAssumption DEF NewOrders, Records
<1>3. /\ lines' \in Seq(Records) /\ Len(lines') = Len(lines) + 1
      /\ lines'[Len(lines) + 1] = o
      /\ \A n \in 1 .. Len(lines) : lines'[n] = lines[n]
  BY <1>1, <1>2, AppendProperties
<1>4. DOMAIN lines' = DOMAIN lines \cup {o.id} /\ o.id \notin DOMAIN lines
  <2>1. DOMAIN lines' = 1 .. Len(lines')
    BY <1>3
  <2> QED
    BY <1>1, <1>2, <1>3, <2>1
<1>5. index \in Slots
  BY <1>1, MatchingAssumption DEF Slots
<1>6. /\ DOMAIN order' = DOMAIN order \cup {index}
      /\ order'[index] = o
      /\ \A s \in DOMAIN order : s # index => order'[s] = order[s]
      /\ order' \in [DOMAIN order' -> Records]
  BY <1>1, <1>2 DEF Placed
<1>7. Placing(o)
  BY <1>1, <1>2, <1>3, <1>4, <1>5, <1>6 DEF Placing
<1>8. EntriesOK'
  <2>1. \A n \in DOMAIN lines' : lines'[n].id = n
    BY <1>1, <1>2, <1>3, <1>4 DEF IInv, EntriesOK
  <2>2. /\ order'[index].id \in DOMAIN lines'
        /\ order'[index].leaves <= order'[index].qty
        /\ lines'[order'[index].id] = order'[index]
    BY <1>2, <1>3, <1>4, <1>6 DEF Records
  <2>3. \A s \in DOMAIN order : order[s].id \in DOMAIN lines
    BY DEF IInv, EntriesOK
  <2>4. \A s \in DOMAIN order' : s # index =>
          /\ s \in DOMAIN order /\ order'[s] = order[s]
          /\ lines'[order[s].id] = lines[order[s].id] /\ order[s].id # o.id
    BY <1>1, <1>3, <1>4, <1>6, <2>3
  <2>5. \A s \in DOMAIN order' :
          /\ order'[s].id \in DOMAIN lines'
          /\ order'[s].leaves <= order'[s].qty
          /\ order'[s].party = lines'[order'[s].id].party
          /\ order'[s].price = lines'[order'[s].id].price
          /\ order'[s].qty = lines'[order'[s].id].qty
          /\ order'[s].side = lines'[order'[s].id].side
    BY <1>4, <2>2, <2>3, <2>4 DEF IInv, EntriesOK
  <2>6. \A s, t \in DOMAIN order' : order'[s].id = order'[t].id => s = t
    BY <1>6, <2>4 DEF IInv, EntriesOK
  <2> QED
    BY <2>1, <2>5, <2>6 DEF EntriesOK
<1> QED
  BY <1>7, <1>8

\* The new line is in no report, and the old ones are reported as before.
LEMMA LineIsNotReported ==
  ASSUME IInv, NEW o, Placing(o), reports' = reports, account' = account
  PROVE  /\ ReportsComplete'
         /\ \A n : Mentions(n)' = Mentions(n)
         /\ Mentions(o.id) = {}
         /\ Finishing' = Finishing
<1>1. \A n : Mentions(n)' = Mentions(n)
  BY DEF Mentions
<1>2. Mentions(o.id) = {}
  BY DEF Mentions, Placing, IInv, PointersOK
<1>3. \A n : Total(Traded', Mentions(n)') = Total(Traded, Mentions(n))
  BY <1>1 DEF Traded
<1>4. /\ \A n \in DOMAIN lines : FilledQty'[n] = FilledQty[n]
      /\ FilledQty'[o.id] = 0
      /\ \A n \in DOMAIN lines' : n # o.id => n \in DOMAIN lines
  <2>1. \A n \in DOMAIN lines' : FilledQty'[n] = Total(Traded, Mentions(n))
    BY <1>3 DEF FilledQty
  <2>2. \A n \in DOMAIN lines : FilledQty[n] = Total(Traded, Mentions(n))
    BY DEF FilledQty
  <2>3. Total(Traded, {}) = 0
    BY TotalEmpty
  <2> QED
    BY <1>2, <2>1, <2>2, <2>3 DEF Placing
<1>5. \A n \in DOMAIN lines : lines'[n] = lines[n] /\ n # o.id
  BY DEF Placing
<1>6. Finishing' = Finishing
  <2>1. \A n \in DOMAIN lines' : n \in Finishing' <=> n \in Finishing
    BY <1>1, <1>2, <1>4, <1>5 DEF Finishing
  <2>2. DOMAIN lines \subseteq DOMAIN lines'
    BY DEF Placing
  <2> QED
    BY <2>1, <2>2 DEF Finishing
<1>7. \A s \in DOMAIN order' :
        order'[s].qty - order'[s].leaves = FilledQty'[order'[s].id]
  <2>1. order'[index].qty - order'[index].leaves = 0 /\ order'[index].id = o.id
    BY DEF Placing, Records
  <2>2. \A s \in DOMAIN order' : s # index =>
          s \in DOMAIN order /\ order'[s] = order[s] /\ order[s].id \in DOMAIN lines
    BY DEF Placing, IInv, EntriesOK
  <2> QED
    BY <1>4, <2>1, <2>2 DEF IInv, ReportsComplete
<1>8. \A n \in DOMAIN lines' : FilledQty'[n] <= lines'[n].qty
  BY <1>4, <1>5 DEF IInv, ReportsComplete, Placing, Records
<1>9. ASSUME NEW p \in Parties, NEW side \in Sides
      PROVE  Total(FilledQty', LinesOf(p, side)') = Total(FilledQty, LinesOf(p, side))
  <2>1. IsFiniteSet(LinesOf(p, side))
    BY Finite DEF LinesOf, IInv
  <2>2. \A n \in LinesOf(p, side) : FilledQty'[n] = FilledQty[n] /\ FilledQty[n] \in Nat
    BY <1>4, FilledIsNat DEF LinesOf, IInv
  <2>3. Total(FilledQty', LinesOf(p, side)) = Total(FilledQty, LinesOf(p, side))
    BY <2>1, <2>2, TotalAgrees
  <2>4. LinesOf(p, side)' = LinesOf(p, side) \/ LinesOf(p, side)' = LinesOf(p, side) \cup {o.id}
    BY <1>5 DEF LinesOf, Placing
  <2>5. o.id \notin LinesOf(p, side)
    BY <1>5 DEF LinesOf
  <2>6. Total(FilledQty', LinesOf(p, side) \cup {o.id}) = 0 + Total(FilledQty', LinesOf(p, side))
    <3>1. \A n \in LinesOf(p, side) \cup {o.id} : FilledQty'[n] \in Nat
      BY <1>4, <2>2
    <3> QED
      BY <1>4, <2>1, <2>5, <3>1, TotalAdds
  <2>7. Total(FilledQty', LinesOf(p, side)) \in Nat
    BY <2>1, <2>2, TotalNat
  <2>8. \A t \in Nat : 0 + t = t
    OBVIOUS
  <2> QED
    BY <2>3, <2>4, <2>6, <2>7, <2>8
<1>10. \A p \in Parties :
         account'[p] = [longQty |-> Total(FilledQty', LinesOf(p, "BUY")'),
                        shortQty |-> Total(FilledQty', LinesOf(p, "SELL")')]
  BY <1>9 DEF IInv, ReportsComplete, Sides
<1> QED
  BY <1>1, <1>2, <1>6, <1>7, <1>8, <1>10 DEF ReportsComplete

\* The groups have nothing in the slot of index.
LEMMA GroupsStand ==
  ASSUME IInv, NEW o, Placing(o)
  PROVE  /\ \A side \in Sides, p \in Prices : \A s \in mOrders[side][p] :
              /\ s \in DOMAIN order /\ s \in DOMAIN order' /\ s < index /\ s # index
              /\ order'[s] = order[s]
         /\ \A side \in Sides, p \in Prices :
              Total(Leaves', mOrders[side][p]) = Total(Leaves, mOrders[side][p])
         /\ \A i \in DOMAIN reports :
              /\ lines'[reports[i].id2] = lines[reports[i].id2]
              /\ reports[i].ptr2 \in DOMAIN order'
              /\ order'[reports[i].ptr2] = order[reports[i].ptr2]
<1>1. ASSUME NEW side \in Sides, NEW p \in Prices, NEW s \in mOrders[side][p]
      PROVE  /\ s \in DOMAIN order /\ s \in DOMAIN order' /\ s < index /\ s # index
             /\ order'[s] = order[s]
  <2>1. s \in DOMAIN order /\ s < index
    BY DEF IInv, GroupsOK
  <2>2. s \in Int /\ index \in Int
    BY <2>1 DEF IInv, KindsOK, Slots
  <2> QED
    BY <2>1, <2>2 DEF Placing
<1>2. ASSUME NEW side \in Sides, NEW p \in Prices
      PROVE  Total(Leaves', mOrders[side][p]) = Total(Leaves, mOrders[side][p])
  <2>1. \A s \in mOrders[side][p] : Leaves'[s] = Leaves[s]
    BY <1>1 DEF Leaves
  <2>2. IsFiniteSet(mOrders[side][p])
    BY Finite DEF IInv
  <2> QED
    BY <2>1, <2>2, TotalAgrees
<1>3. \A i \in DOMAIN reports :
        /\ lines'[reports[i].id2] = lines[reports[i].id2]
        /\ reports[i].ptr2 \in DOMAIN order'
        /\ order'[reports[i].ptr2] = order[reports[i].ptr2]
  <2>1. \A i \in DOMAIN reports : /\ reports[i].id2 \in DOMAIN lines
                                  /\ reports[i].ptr2 \in DOMAIN order
                                  /\ reports[i].ptr2 < index
    BY DEF IInv, PointersOK
  <2>2. \A s \in DOMAIN order : s < index => s # index
    BY DEF IInv, KindsOK, Slots
  <2> QED
    BY <2>1, <2>2 DEF Placing
<1> QED
  BY <1>1, <1>2, <1>3

LEMMA ReadNormalKeeps ==
  ASSUME IInv, rule = "normal", pc = "read", Len(lines) < MaxLines, NEW o, Placing(o), EntriesOK',
         ReadNormal(o), full' = FALSE,
         UNCHANGED <<rule, todo, target, reports, account>>
  PROVE  IInv'
<1>1. o \in Records /\ order'[in'] = o /\ in' = index /\ index' = index
  BY DEF Placing, ReadNormal
<1>2. o.side \in Sides /\ Other(o.side) \in Sides /\ There' = Other(o.side)
  BY <1>1 DEF Records, Sides, Other, There
<1>3. levels[Other(o.side)] \subseteq Prices
  BY <1>2 DEF IInv, KindsOK
<1>4. book' = book /\ todo = {} /\ todo' = {}
  BY DEF ReadNormal, IInv, PlaceOK
<1>5. pc' \in {"read", "match", "rest"}
  BY DEF ReadNormal
<1>6. pc' = "match" => /\ Meets(o)
                       /\ at' = Best(Other(o.side), levels[Other(o.side)])
                       /\ at' \in levels[Other(o.side)]
                       /\ \A q \in levels[Other(o.side)] \ {at'} : Better(Other(o.side), at', q)
  BY <1>2, <1>3, BestIsBest DEF ReadNormal, Meets
<1>7. pc' # "match" => at' = at
  BY DEF ReadNormal
<1>8. o.leaves = o.qty /\ o.qty \in Nat /\ (pc' # "read" => o.qty > 0)
  <2>1. o.qty \in Nat /\ o.leaves = o.qty
    BY <1>1, MatchingAssumption DEF Records, Placing
  <2>2. pc' # "read" => o.qty # 0
    BY DEF ReadNormal
  <2> QED
    BY <2>1, <2>2
<1>9. KindsOK'
  <2>1. index' \in 0 .. Len(lines') /\ Len(lines') <= MaxLines
    <3>1. index \in 0 .. Len(lines) /\ Len(lines) \in Nat /\ Len(lines') = Len(lines) + 1
      BY DEF IInv, KindsOK, Placing
    <3> QED
      BY <1>1, <3>1, MatchingAssumption
  <2>2. DOMAIN order' \subseteq Slots /\ \A s \in DOMAIN order' : s <= index'
    BY <1>1 DEF IInv, KindsOK, Placing, Slots
  <2>3. at' \in Prices \union {None}
    BY <1>3, <1>6, <1>7 DEF IInv, KindsOK
  <2>4. in' \in Slots \union {0} /\ full' \in BOOLEAN
    BY <1>1 DEF Placing
  <2> QED
    BY <1>4, <1>5, <2>1, <2>2, <2>3, <2>4 DEF IInv, KindsOK, Placing, book
<1>10. PlaceOK'
  <2>1. index < Len(lines') /\ o.id = Len(lines') /\ in' \in DOMAIN order'
    BY <1>1 DEF IInv, KindsOK, Placing
  <2> QED
    BY <1>1, <1>2, <1>4, <1>5, <1>6, <1>8, <2>1 DEF PlaceOK, book
<1>11. GroupsOK'
  <2>1. \A side \in Sides, p \in Prices : mOrders'[side][p] = mOrders[side][p]
    BY <1>4 DEF book
  <2>2. ASSUME pc' = "match", NEW p \in levels'[There'], Better(There', p, at')
        PROVE  FALSE
    <3>1. p \in levels[Other(o.side)]
      BY <1>2, <1>4, <2>2 DEF book
    <3>2. p \in Nat /\ at' \in Nat
      BY <1>3, <1>6, <2>2, <3>1, PricesAreNumbers
    <3>3. p # at' => Better(Other(o.side), at', p)
      BY <1>6, <2>2, <3>1
    <3> QED
      BY <1>2, <2>2, <3>2, <3>3 DEF Better
  <2> QED
    BY <1>1, <1>4, <2>2, GroupsStand DEF IInv, GroupsOK, book
<1>12. LevelsOK'
  <2>1. \A side \in Sides : \A p \in levels[side] : mOrders[side][p] # {}
    BY DEF IInv, LevelsOK
  <2>2. pc' = "rest" => \A p \in levels[Other(o.side)] : OutOfReach(o, p)
    <3>1. SUFFICES ASSUME pc' = "rest", NEW p \in levels[Other(o.side)]
                   PROVE  OutOfReach(o, p)
      OBVIOUS
    <3>2. PICK b : b = Best(Other(o.side), levels[Other(o.side)])
      OBVIOUS
    <3>3. OutOfReach(o, b)
      BY <3>1, <3>2 DEF ReadNormal, Meets
    <3>4. b \in levels[Other(o.side)] /\ (p # b => Better(Other(o.side), b, p))
      BY <1>2, <1>3, <3>1, <3>2, BestIsBest
    <3>5. p \in Nat /\ b \in Nat /\ o.price \in Nat
      BY <1>1, <1>3, <3>1, <3>4, PricesAreNumbers DEF Records
    <3> QED
      BY <3>3, <3>4, <3>5 DEF OutOfReach, Better
  <2> QED
    BY <1>1, <1>2, <1>4, <2>1, <2>2 DEF IInv, LevelsOK, book
<1>13. SumsOK'
  BY <1>4, GroupsStand DEF IInv, SumsOK, book
<1>14. TradesOK'
  BY <1>4, GroupsStand DEF IInv, TradesOK, book
<1>15. PointersOK'
  <2>1. ASSUME NEW i \in DOMAIN reports
        PROVE  /\ reports[i].id1 \in DOMAIN lines' /\ reports[i].id2 \in DOMAIN lines'
               /\ reports[i].ptr2 \in DOMAIN order' /\ reports[i].ptr2 < index'
               /\ order'[reports[i].ptr2].id = reports[i].id2
    BY <1>1, GroupsStand DEF IInv, PointersOK, Placing
  <2>2. ASSUME NEW i \in DOMAIN reports
        PROVE  /\ reports[i].ptr1 \in DOMAIN order'
               /\ \/ order'[reports[i].ptr1].id = reports[i].id1
                  \/ \A s \in DOMAIN order' : order'[s].id # reports[i].id1
    <3>1. PICK n, r : n = reports[i].id1 /\ r = reports[i].ptr1
      OBVIOUS
    <3>2. /\ r \in DOMAIN order
          /\ order[r].id = n \/ \A s \in DOMAIN order : order[s].id # n
      BY <3>1 DEF IInv, PointersOK
    <3>3. n # o.id
      BY <3>1, LineIsNotReported, <1>1 DEF Mentions
    <3>4. /\ order'[index].id = o.id
          /\ DOMAIN order' = DOMAIN order \union {index}
          /\ \A s \in DOMAIN order : s # index => order'[s] = order[s]
      BY DEF Placing
    <3>5. \A s \in DOMAIN order : order[s].id = n /\ order[r].id = n => s = r
      BY <3>2 DEF IInv, EntriesOK
    <3>6. \/ order'[r].id = n
          \/ \A s \in DOMAIN order' : order'[s].id # n
      BY <3>2, <3>3, <3>4, <3>5
    <3> QED
      BY <3>1, <3>2, <3>4, <3>6
  <2> QED
    BY <1>1, <2>1, <2>2 DEF PointersOK
<1>16. ReportsComplete' /\ (\A n : Mentions(n)' = Mentions(n)) /\ Finishing' = Finishing
  BY LineIsNotReported
<1>17. CountOK'
  <2>1. Len(reports') <= Cardinality(Finishing')
    BY <1>16 DEF IInv, CountOK
  <2>2. mOrders' = mOrders /\ "SELL" \in Sides
    BY <1>4 DEF Sides, book
  <2>3. \A p \in Prices : \A s \in mOrders["SELL"][p] : order'[s] = order[s]
    BY <2>2, GroupsStand
  <2>4. \A p \in Prices : \A s \in mOrders'["SELL"][p] : Unreported(s)'
    BY <2>2, <2>3 DEF IInv, CountOK, Unreported, Mentions
  <2> QED
    BY <1>4, <2>1, <2>4 DEF CountOK
<1> QED
  BY <1>9, <1>10, <1>11, <1>12, <1>13, <1>14, <1>15, <1>16, <1>17 DEF IInv

(***************************************************************************)
(* An order comes to rest                                                  *)
(***************************************************************************)

\* What AddOrder does to each level and group.
Resting(s, o) ==
  /\ levels' \in [Sides -> SUBSET Prices]
  /\ mOrders' \in [Sides -> [Prices -> SUBSET Slots]]
  /\ mTotalQty' \in [Sides -> [Prices -> Nat]]
  /\ mLeavesQty' \in [Sides -> [Prices -> Nat]]
  /\ levels'[o.side] = levels[o.side] \cup {o.price}
  /\ mOrders'[o.side][o.price] = mOrders[o.side][o.price] \cup {s}
  /\ mTotalQty'[o.side][o.price] = mTotalQty[o.side][o.price] + o.qty
  /\ mLeavesQty'[o.side][o.price] = mLeavesQty[o.side][o.price] + o.leaves
  /\ \A side \in Sides : side # o.side => levels'[side] = levels[side]
  /\ \A side \in Sides, p \in Prices :
       side # o.side \/ p # o.price =>
         /\ mOrders'[side][p] = mOrders[side][p]
         /\ mTotalQty'[side][p] = mTotalQty[side][p]
         /\ mLeavesQty'[side][p] = mLeavesQty[side][p]

LEMMA OrderRests ==
  ASSUME KindsOK, NEW s \in Slots, NEW o \in Records, AddOrder(s, o)
  PROVE  Resting(s, o)
<1>1. /\ levels \in [Sides -> SUBSET Prices]
      /\ mOrders \in [Sides -> [Prices -> SUBSET Slots]]
      /\ mTotalQty \in [Sides -> [Prices -> Nat]]
      /\ mLeavesQty \in [Sides -> [Prices -> Nat]]
  BY DEF KindsOK
<1>2. o.side \in Sides /\ o.price \in Prices /\ o.qty \in Nat /\ o.leaves \in Nat
  BY MatchingAssumption DEF Records
<1>3. /\ levels' \in [Sides -> SUBSET Prices]
      /\ levels'[o.side] = levels[o.side] \cup {o.price}
      /\ \A side \in Sides : side # o.side => levels'[side] = levels[side]
  BY <1>1, <1>2 DEF AddOrder
<1>4. /\ mOrders' \in [Sides -> [Prices -> SUBSET Slots]]
      /\ mOrders'[o.side][o.price] = mOrders[o.side][o.price] \cup {s}
      /\ \A side \in Sides, p \in Prices :
           side # o.side \/ p # o.price => mOrders'[side][p] = mOrders[side][p]
  BY <1>1, <1>2 DEF AddOrder
<1>5. /\ mTotalQty' \in [Sides -> [Prices -> Nat]]
      /\ mTotalQty'[o.side][o.price] = mTotalQty[o.side][o.price] + o.qty
      /\ \A side \in Sides, p \in Prices :
           side # o.side \/ p # o.price => mTotalQty'[side][p] = mTotalQty[side][p]
  BY <1>1, <1>2 DEF AddOrder
<1>6. /\ mLeavesQty' \in [Sides -> [Prices -> Nat]]
      /\ mLeavesQty'[o.side][o.price] = mLeavesQty[o.side][o.price] + o.leaves
      /\ \A side \in Sides, p \in Prices :
           side # o.side \/ p # o.price => mLeavesQty'[side][p] = mLeavesQty[side][p]
  BY <1>1, <1>2 DEF AddOrder, Added
<1> QED
  BY <1>3, <1>4, <1>5, <1>6 DEF Resting

\* The sums follow, with the entries that the step leaves.
LEMMA SumsFollow ==
  ASSUME IInv, KindsOK', NEW s \in Slots, NEW o \in Records, Resting(s, o),
         s \in DOMAIN order', order'[s] = o, rule' = rule, pc' = "read",
         rule = "auction" => pc = "read",
         \A side \in Sides, p \in Prices :
           s \notin mOrders[side][p] /\ mOrders[side][p] \subseteq DOMAIN order',
         \A side \in Sides, p \in Prices :
           Total(Leaves', mOrders[side][p]) = Total(Leaves, mOrders[side][p]),
         o.leaves <= o.qty
  PROVE  SumsOK'
<1>1. o.side \in Sides /\ o.price \in Prices /\ o.qty \in Nat /\ o.leaves \in Nat
  BY MatchingAssumption DEF Records
<1>2. PICK n : n = Total(Leaves, mOrders[o.side][o.price])
  OBVIOUS
<1>3. \A t \in DOMAIN order' : Leaves'[t] = order'[t].leaves /\ Leaves'[t] \in Nat
  <2>1. \A r \in Records : r.leaves \in Nat
    BY MatchingAssumption DEF Records
  <2>2. \A t \in DOMAIN order' : order'[t] \in Records
    BY DEF KindsOK
  <2> QED
    BY <2>1, <2>2 DEF Leaves
<1>4. /\ Total(Leaves', mOrders'[o.side][o.price]) = o.leaves + n
      /\ n \in Nat
  <2>1. IsFiniteSet(mOrders[o.side][o.price])
    BY <1>1, Finite DEF IInv
  <2>2. \A t \in mOrders[o.side][o.price] \cup {s} : Leaves'[t] \in Nat
    BY <1>1, <1>3
  <2>3. Total(Leaves', mOrders[o.side][o.price]) = n
    BY <1>1, <1>2
  <2>4. Total(Leaves', mOrders[o.side][o.price] \cup {s}) = Leaves'[s] + n
    BY <1>1, <2>1, <2>2, <2>3, TotalAdds
  <2>5. n \in Nat
    BY <2>1, <2>2, <2>3, TotalNat
  <2> QED
    BY <1>3, <2>4, <2>5 DEF Resting
<1>5. /\ mLeavesQty[o.side][o.price] \in Nat /\ mTotalQty[o.side][o.price] \in Nat
      /\ mLeavesQty[o.side][o.price] >= n
      /\ rule = "normal" => mLeavesQty[o.side][o.price] = n
      /\ rule = "auction" => mTotalQty[o.side][o.price] >= mLeavesQty[o.side][o.price]
  <2>1. mLeavesQty[o.side][o.price] \in Nat /\ mTotalQty[o.side][o.price] \in Nat
    BY <1>1, QuantitiesAreNat DEF IInv
  <2> QED
    BY <1>1, <1>2, <2>1 DEF IInv, SumsOK
<1>6. /\ mLeavesQty'[o.side][o.price] >= o.leaves + n
      /\ rule = "normal" => mLeavesQty'[o.side][o.price] = o.leaves + n
      /\ rule = "auction" => mTotalQty'[o.side][o.price] >= mLeavesQty'[o.side][o.price]
  <2>1. /\ mLeavesQty'[o.side][o.price] = mLeavesQty[o.side][o.price] + o.leaves
        /\ mTotalQty'[o.side][o.price] = mTotalQty[o.side][o.price] + o.qty
    BY DEF Resting
  <2> QED
    BY <1>1, <1>4, <1>5, <2>1
<1>7. ASSUME NEW side \in Sides, NEW p \in Prices, side # o.side \/ p # o.price
      PROVE  /\ mLeavesQty'[side][p] >= Total(Leaves', mOrders'[side][p])
             /\ rule = "normal" => mLeavesQty'[side][p] = Total(Leaves', mOrders'[side][p])
             /\ rule = "auction" => mTotalQty'[side][p] >= mLeavesQty'[side][p]
  BY <1>7 DEF Resting, IInv, SumsOK
<1> QED
  BY <1>4, <1>6, <1>7 DEF SumsOK

LEMMA ReadAuctionKeeps ==
  ASSUME IInv, rule = "auction", pc = "read", Len(lines) < MaxLines, NEW o, Placing(o),
         EntriesOK', ReadAuction(o), full' = FALSE,
         UNCHANGED <<rule, todo, target, reports, account>>
  PROVE  IInv'
<1>1. /\ o \in Records /\ index \in Slots /\ pc' = "read" /\ index' = index + 1
      /\ index = Len(lines) /\ reports = <<>> /\ reports' = <<>>
      /\ in' = in /\ at' = at /\ Len(lines') = Len(lines) + 1 /\ Len(lines) \in Nat
  BY DEF Placing, ReadAuction, IInv, PlaceOK, KindsOK
<1>2. Resting(index, o)
  BY <1>1, OrderRests DEF ReadAuction, IInv
<1>3. o.side \in Sides /\ o.price \in Prices
  BY <1>1 DEF Records
<1>4. KindsOK'
  <2>1. index' \in 0 .. Len(lines') /\ Len(lines') <= MaxLines
    BY <1>1, MatchingAssumption
  <2>2. DOMAIN order' \subseteq Slots /\ \A s \in DOMAIN order' : s <= index'
    BY <1>1 DEF IInv, KindsOK, Placing, Slots
  <2>3. todo' \subseteq DOMAIN order'
    BY DEF IInv, KindsOK, Placing
  <2> QED
    BY <1>1, <1>2, <2>1, <2>2, <2>3 DEF IInv, KindsOK, Placing, Resting
<1>5. PlaceOK'
  <2>1. \A s \in todo : s \in DOMAIN order /\ s < index /\ s # index /\ order'[s] = order[s] /\ s < index'
    <3>1. \A s \in todo : s \in DOMAIN order /\ s < index
      BY DEF IInv, KindsOK, PlaceOK
    <3>2. \A s \in DOMAIN order : s \in Int
      BY DEF IInv, KindsOK, Slots
    <3> QED
      BY <1>1, <3>1, <3>2 DEF Placing, Slots
  <2> QED
    BY <1>1, <2>1 DEF IInv, PlaceOK
<1>6. \A side \in Sides, p \in Prices : \A s \in mOrders'[side][p] :
        \/ s = index /\ side = o.side /\ p = o.price
        \/ s \in mOrders[side][p]
  BY <1>2, <1>3 DEF Resting
<1>7. GroupsOK'
  <2>1. ASSUME NEW side \in Sides, NEW p \in Prices, mOrders'[side][p] # {}
        PROVE  p \in levels'[side]
    <3>1. CASE side = o.side /\ p = o.price
      BY <1>2, <3>1 DEF Resting
    <3>2. CASE ~(side = o.side /\ p = o.price)
      <4>1. mOrders[side][p] # {} /\ levels[side] \subseteq levels'[side]
        BY <1>2, <2>1, <3>2 DEF Resting
      <4> QED
        BY <4>1 DEF IInv, GroupsOK
    <3> QED
      BY <3>1, <3>2
  <2>2. ASSUME NEW side \in Sides, NEW p \in Prices, NEW s \in mOrders'[side][p]
        PROVE  s \in DOMAIN order' /\ s < index' /\ order'[s].side = side /\ order'[s].price = p
    <3>1. CASE s = index /\ side = o.side /\ p = o.price
      BY <1>1, <3>1 DEF Placing, Slots
    <3>2. CASE s \in mOrders[side][p]
      <4>1. s \in DOMAIN order /\ s < index /\ order'[s] = order[s] /\ s \in DOMAIN order'
        BY <3>2, GroupsStand
      <4>2. s \in Int
        BY <4>1 DEF IInv, KindsOK, Slots
      <4> QED
        BY <1>1, <3>2, <4>1, <4>2 DEF IInv, GroupsOK, Slots
    <3> QED
      BY <1>6, <3>1, <3>2
  <2> QED
    BY <1>1, <2>1, <2>2 DEF GroupsOK
<1>8. LevelsOK'
  BY <1>1 DEF LevelsOK
<1>9. SumsOK'
  <2>1. \A side \in Sides, p \in Prices :
          index \notin mOrders[side][p] /\ mOrders[side][p] \subseteq DOMAIN order'
    BY GroupsStand
  <2>2. index \in DOMAIN order' /\ order'[index] = o /\ o.leaves <= o.qty
    BY <1>1, MatchingAssumption DEF Placing, Records
  <2>3. \A side \in Sides, p \in Prices :
          Total(Leaves', mOrders[side][p]) = Total(Leaves, mOrders[side][p])
    BY GroupsStand
  <2> QED
    BY <1>1, <1>2, <1>4, <2>1, <2>2, <2>3, SumsFollow
<1>10. TradesOK' /\ PointersOK'
  BY <1>1 DEF TradesOK, PointersOK
<1>11. ReportsComplete' /\ Finishing' = Finishing
  BY LineIsNotReported
<1>12. CountOK'
  <2>1. \A s : Unreported(s)'
    BY <1>1 DEF Unreported, Mentions
  <2> QED
    BY <1>1, <1>11, <2>1 DEF IInv, CountOK
<1> QED
  BY <1>4, <1>5, <1>7, <1>8, <1>9, <1>10, <1>11, <1>12 DEF IInv

LEMMA ReadKeeps == IInv /\ Read => IInv'
<1> SUFFICES ASSUME IInv, Read PROVE IInv'
  OBVIOUS
<1>1. PICK o \in NewOrders(Len(lines) + 1) :
        /\ lines' = Append(lines, o) /\ order' = Placed(o)
        /\ IF rule = "normal" THEN ReadNormal(o) ELSE ReadAuction(o)
  BY DEF Read
<1>2. /\ pc = "read" /\ Len(lines) < MaxLines /\ full' = FALSE
      /\ UNCHANGED <<rule, todo, target, reports, account>>
  BY DEF Read
<1>3. Placing(o) /\ EntriesOK'
  BY <1>1, <1>2, LineIsPlaced
<1>4. rule \in {"normal", "auction"}
  BY DEF IInv, KindsOK
<1> QED
  BY <1>1, <1>2, <1>3, <1>4, ReadNormalKeeps, ReadAuctionKeeps

\* The prices of the other side that a resting order does not reach
LEMMA NothingCrosses ==
  ASSUME IInv, rule = "normal", NEW o \in Records,
         \A p \in levels[Other(o.side)] : OutOfReach(o, p),
         NEW new, new \in [Sides -> SUBSET Prices],
         new[o.side] = levels[o.side] \cup {o.price},
         \A side \in Sides : side # o.side => new[side] = levels[side]
  PROVE  \A b \in new["BUY"], s \in new["SELL"] : b < s
<1>1. \A b \in levels["BUY"], s \in levels["SELL"] : b < s
  BY DEF IInv, LevelsOK
<1>2. o.side \in Sides /\ o.price \in Nat
  BY PricesAreNumbers DEF Records
<1>3. \A side \in Sides : levels[side] \subseteq Nat
  BY PricesAreNumbers DEF IInv, KindsOK
<1>4. CASE o.side = "BUY"
  <2>1. /\ new["BUY"] = levels["BUY"] \cup {o.price} /\ new["SELL"] = levels["SELL"]
        /\ "SELL" \in Sides
    BY <1>4 DEF Sides
  <2>2. \A s \in levels["SELL"] : o.price < s
    BY <1>4 DEF Other, OutOfReach, Better
  <2> QED
    BY <1>1, <2>1, <2>2
<1>5. CASE o.side = "SELL"
  <2>1. /\ new["SELL"] = levels["SELL"] \cup {o.price} /\ new["BUY"] = levels["BUY"]
        /\ "BUY" \in Sides
    BY <1>5 DEF Sides
  <2>2. \A b \in levels["BUY"] : b < o.price
    BY <1>2, <1>3, <1>5, <2>1 DEF Other, OutOfReach, Better
  <2> QED
    BY <1>1, <2>1, <2>2
<1> QED
  BY <1>2, <1>4, <1>5 DEF Sides

LEMMA RestKeeps == IInv /\ Rest => IInv'
<1> SUFFICES ASSUME IInv, Rest PROVE IInv'
  OBVIOUS
<1>1. /\ rule = "normal" /\ pc = "rest" /\ pc' = "read" /\ index' = index + 1 /\ todo = {}
      /\ in = index /\ index \in DOMAIN order /\ index < Len(lines) /\ index \in Slots
      /\ UNCHANGED <<rule, lines, order, in, at, full, todo, target, reports, account>>
  BY DEF Rest, Taken, IInv, PlaceOK, KindsOK
<1>2. PICK o : o = order[index]
  OBVIOUS
<1>3. /\ o \in Records /\ o.side \in Sides /\ o.price \in Prices /\ o.id = Len(lines)
      /\ o.leaves > 0 /\ o.leaves <= o.qty
  <2>1. o \in Records
    BY <1>1, <1>2 DEF IInv, KindsOK
  <2>2. o.id = Len(lines) /\ o.leaves > 0 /\ o.leaves <= o.qty
    <3>1. order[in].id = Len(lines) /\ order[in].leaves > 0
      <4>1. rule = "normal" /\ pc = "rest" /\ PlaceOK
        BY <1>1 DEF IInv
      <4> QED
        BY ONLY <4>1 DEF PlaceOK
    <3>2. order[index].leaves <= order[index].qty
      BY <1>1 DEF IInv, EntriesOK
    <3> QED
      BY <1>1, <1>2, <3>1, <3>2
  <2> QED
    BY <2>1, <2>2 DEF Records
<1>4. Resting(index, o)
  BY <1>1, <1>2, <1>3, OrderRests DEF Rest, IInv
<1>5. index \in Int /\ Len(lines) \in Int /\ \A s \in DOMAIN order : s \in Int
  BY <1>1 DEF IInv, KindsOK, Slots
<1>6. KindsOK'
  <2>1. index' \in 0 .. Len(lines') /\ \A s \in DOMAIN order' : s <= index'
    BY <1>1, <1>5 DEF IInv, KindsOK
  <2> QED
    BY <1>1, <1>4, <2>1 DEF IInv, KindsOK, Resting
<1>7. EntriesOK'
  BY <1>1 DEF IInv, EntriesOK
<1>8. PlaceOK'
  BY <1>1 DEF IInv, PlaceOK
<1>9. \A side \in Sides, p \in Prices : \A s \in mOrders'[side][p] :
        \/ s = index /\ side = o.side /\ p = o.price
        \/ s \in mOrders[side][p]
  BY <1>3, <1>4 DEF Resting
<1>10. GroupsOK'
  <2>1. ASSUME NEW side \in Sides, NEW p \in Prices, mOrders'[side][p] # {}
        PROVE  p \in levels'[side]
    <3>1. CASE side = o.side /\ p = o.price
      BY <1>4, <3>1 DEF Resting
    <3>2. CASE ~(side = o.side /\ p = o.price)
      <4>1. mOrders[side][p] # {} /\ levels[side] \subseteq levels'[side]
        BY <1>4, <2>1, <3>2 DEF Resting
      <4> QED
        BY <4>1 DEF IInv, GroupsOK
    <3> QED
      BY <3>1, <3>2
  <2>2. ASSUME NEW side \in Sides, NEW p \in Prices, NEW s \in mOrders'[side][p]
        PROVE  /\ s \in DOMAIN order /\ s < index' /\ order[s].side = side
               /\ order[s].price = p /\ order[s].leaves > 0
    <3>1. CASE s = index /\ side = o.side /\ p = o.price
      BY <1>1, <1>2, <1>3, <1>5, <3>1
    <3>2. CASE s \in mOrders[side][p]
      <4>1. /\ s \in DOMAIN order /\ s < index /\ order[s].side = side
            /\ order[s].price = p /\ order[s].leaves > 0
        BY <1>1, <3>2 DEF IInv, GroupsOK
      <4> QED
        BY <1>1, <1>5, <4>1
    <3> QED
      BY <1>9, <3>1, <3>2
  <2> QED
    BY <1>1, <2>1, <2>2 DEF GroupsOK
<1>11. LevelsOK'
  <2>1. \A p \in levels[Other(o.side)] : OutOfReach(o, p)
    BY <1>1, <1>2 DEF IInv, LevelsOK, There
  <2>2. \A b \in levels'["BUY"], s \in levels'["SELL"] : b < s
    BY <1>1, <1>3, <1>4, <2>1, NothingCrosses DEF Resting
  <2>3. ASSUME NEW side \in Sides, NEW p \in levels'[side] PROVE mOrders'[side][p] # {}
    <3>1. p \in Prices
      BY <1>4 DEF Resting
    <3>2. CASE side = o.side /\ p = o.price
      BY <1>4, <3>2 DEF Resting
    <3>3. CASE ~(side = o.side /\ p = o.price)
      <4>1. p \in levels[side] /\ mOrders'[side][p] = mOrders[side][p]
        BY <1>4, <3>1, <3>3 DEF Resting
      <4> QED
        BY <1>1, <4>1 DEF IInv, LevelsOK
    <3> QED
      BY <3>2, <3>3
  <2> QED
    BY <1>1, <2>2, <2>3 DEF LevelsOK
<1>12. SumsOK'
  <2>1. \A side \in Sides, p \in Prices :
          index \notin mOrders[side][p] /\ mOrders[side][p] \subseteq DOMAIN order'
    <3>1. \A side \in Sides, p \in Prices : \A s \in mOrders[side][p] :
            s \in DOMAIN order /\ s < index
      BY DEF IInv, GroupsOK
    <3> QED
      BY <1>1, <1>5, <3>1
  <2>2. Leaves' = Leaves
    BY <1>1 DEF Leaves
  <2> QED
    BY <1>1, <1>2, <1>3, <1>4, <1>6, <2>1, <2>2, SumsFollow
<1>13. TradesOK'
  <2>1. \A i \in DOMAIN reports : reports[i].id1 <= Len(lines)
    BY DEF IInv, PointersOK, KindsOK
  <2>2. ASSUME NEW i \in DOMAIN reports PROVE ~(o.id < reports[i].id1)
    <3>1. reports[i].id1 \in Int
      BY DEF IInv, PointersOK, KindsOK
    <3> QED
      BY <1>3, <1>5, <2>1, <3>1
  <2> QED
    BY <1>1, <1>2, <1>9, <2>2 DEF IInv, TradesOK
<1>14. PointersOK'
  <2>1. \A s \in Int : s < index => s < index'
    BY <1>1, <1>5
  <2> QED
    BY <1>1, <1>5, <2>1 DEF IInv, PointersOK
<1>15. ReportsComplete' /\ Finishing' = Finishing
  BY <1>1 DEF IInv, ReportsComplete, Finishing, FilledQty, Traded, Mentions, LinesOf
<1>16. CountOK'
  <2>1. \A s : Unreported(s)' = Unreported(s)
    BY <1>1 DEF Unreported, Mentions
  <2>2. Unreported(index)
    BY <1>2, <1>3 DEF Unreported, Records
  <2>3. \A p \in Prices : \A s \in mOrders'["SELL"][p] : Unreported(s)
    BY <1>9, <2>2 DEF IInv, CountOK, Sides
  <2> QED
    BY <1>1, <1>15, <2>1, <2>3 DEF IInv, CountOK
<1> QED
  BY <1>6, <1>7, <1>8, <1>10, <1>11, <1>12, <1>13, <1>14, <1>15, <1>16 DEF IInv

(***************************************************************************)
(* A fill                                                                  *)
(***************************************************************************)

\* The incoming order trades q with the one in slot s.
Filling(s, q) ==
  /\ s \in mOrders[There][at] /\ There \in Sides /\ at \in Prices
  /\ in \in DOMAIN order /\ s \in DOMAIN order /\ s # in /\ s < index
  /\ order[s].side = There /\ order[in].side # There /\ order[s].price = at
  /\ q \in Nat /\ q <= order[in].leaves /\ q <= order[s].leaves /\ q <= MaxQty
  /\ q = order[in].leaves \/ q = order[s].leaves
  /\ DOMAIN order' = DOMAIN order /\ order' \in [DOMAIN order' -> Records]
  /\ \A t \in DOMAIN order :
       /\ order'[t].id = order[t].id /\ order'[t].party = order[t].party
       /\ order'[t].price = order[t].price /\ order'[t].qty = order[t].qty
       /\ order'[t].side = order[t].side
       /\ order'[t].leaves = IF t \in {in, s} THEN order[t].leaves - q ELSE order[t].leaves
  /\ There' = There /\ in' = in /\ at' = at
  /\ full' = (order'[in].leaves = 0)
  /\ mOrders' \in [Sides -> [Prices -> SUBSET Slots]]
  /\ mOrders'[There][at] = IF order[s].leaves = q THEN mOrders[There][at] \ {s}
                                                 ELSE mOrders[There][at]
  /\ \A side \in Sides, p \in Prices :
       side # There \/ p # at => /\ mOrders'[side][p] = mOrders[side][p]
                                 /\ mLeavesQty'[side][p] = mLeavesQty[side][p]
  /\ mLeavesQty'[There][at] = mLeavesQty[There][at] - q
  /\ reports' = Append(reports, Report(s, q))

LEMMA OrderFills ==
  ASSUME IInv, pc = "match", ~full, NEW s \in mOrders[There][at], Fill(s),
         in' = in, at' = at
  PROVE  Filling(s, Crossed(s))
<1>1. /\ in \in DOMAIN order /\ at \in levels[There]
      /\ order \in [DOMAIN order -> Records]
  BY DEF IInv, PlaceOK, KindsOK
<1>2. order[in] \in Records
  BY <1>1
<1>3. There \in Sides /\ order[in].side # There
  BY <1>2 DEF Records, There, Other, Sides
<1>4. at \in Prices
  BY <1>1, <1>3 DEF IInv, KindsOK
<1>5. s \in DOMAIN order /\ s < index /\ order[s].side = There /\ order[s].price = at
  BY <1>3, <1>4 DEF IInv, GroupsOK
<1>6. s # in /\ order[s] \in Records
  BY <1>1, <1>3, <1>5
<1>7. /\ order[in].leaves \in Nat /\ order[s].leaves \in Nat
      /\ order[in].leaves <= MaxQty /\ order[s].leaves <= MaxQty
  BY <1>2, <1>6, MatchingAssumption DEF Records
<1>8. PICK q : q = Crossed(s)
  OBVIOUS
<1>9. /\ q \in Nat /\ q <= order[in].leaves /\ q <= order[s].leaves /\ q <= MaxQty
      /\ q = order[in].leaves \/ q = order[s].leaves
  <2>1. q = IF order[in].leaves <= order[s].leaves THEN order[in].leaves ELSE order[s].leaves
    BY <1>7, <1>8, MinOfTwo DEF Crossed
  <2> QED
    BY <1>7, <2>1, MatchingAssumption
<1>10. order' = [order EXCEPT ![in].leaves = @ - q, ![s].leaves = @ - q]
  BY <1>8 DEF Fill
<1>11. /\ DOMAIN order' = DOMAIN order
       /\ \A t \in DOMAIN order : t \notin {in, s} => order'[t] = order[t]
       /\ order'[in] = [order[in] EXCEPT !.leaves = @ - q]
       /\ order'[s] = [order[s] EXCEPT !.leaves = @ - q]
  BY <1>1, <1>5, <1>6, <1>10
<1>12. \A t \in DOMAIN order :
         /\ order'[t] \in Records
         /\ order'[t].id = order[t].id /\ order'[t].party = order[t].party
         /\ order'[t].price = order[t].price /\ order'[t].qty = order[t].qty
         /\ order'[t].side = order[t].side
         /\ order'[t].leaves = IF t \in {in, s} THEN order[t].leaves - q ELSE order[t].leaves
  <2>1. ASSUME NEW r \in Records, q <= r.leaves
        PROVE  LET w == [r EXCEPT !.leaves = @ - q]
               IN  /\ w \in Records /\ w.id = r.id /\ w.party = r.party
                   /\ w.price = r.price /\ w.qty = r.qty /\ w.side = r.side
                   /\ w.leaves = r.leaves - q
    <3>1. r.leaves \in 0 .. MaxQty
      BY DEF Records
    <3>2. r.leaves - q \in 0 .. MaxQty
      BY <1>9, <2>1, <3>1, MatchingAssumption
    <3> QED
      BY <3>2 DEF Records
  <2>2. \A t \in DOMAIN order : order[t] \in Records
    BY <1>1
  <2>3. ASSUME NEW t \in {in, s}
        PROVE  /\ order'[t] = [order[t] EXCEPT !.leaves = @ - q]
               /\ order[t] \in Records /\ q <= order[t].leaves
    BY <1>2, <1>6, <1>9, <1>11
  <2>4. ASSUME NEW t \in {in, s}
        PROVE  /\ order'[t] \in Records
               /\ order'[t].id = order[t].id /\ order'[t].party = order[t].party
               /\ order'[t].price = order[t].price /\ order'[t].qty = order[t].qty
               /\ order'[t].side = order[t].side
               /\ order'[t].leaves = order[t].leaves - q
    <3>1. PICK r \in Records : r = order[t] /\ q <= r.leaves
      BY <2>3
    <3>2. order'[t] = [r EXCEPT !.leaves = @ - q]
      BY <2>3, <3>1
    <3> QED
      BY <2>1, <3>1, <3>2
  <2>5. ASSUME NEW t \in DOMAIN order, t \notin {in, s}
        PROVE  order'[t] = order[t] /\ order[t] \in Records
    BY <1>11, <2>2, <2>5
  <2> QED
    BY <2>4, <2>5
<1>13. order' \in [DOMAIN order' -> Records]
  BY <1>10, <1>11, <1>12
<1>14. There' = There
  BY <1>1, <1>12 DEF There
<1>15. full' = (order'[in].leaves = 0)
  <2>1. full' = (order[in].leaves = q)
    BY <1>8 DEF Fill, Finished
  <2>2. order'[in].leaves = order[in].leaves - q
    BY <1>1, <1>12
  <2>3. (order[in].leaves = q) = (order'[in].leaves = 0)
    BY <1>7, <1>9, <2>2
  <2> QED
    BY <2>1, <2>3
<1>16. /\ mOrders' \in [Sides -> [Prices -> SUBSET Slots]]
       /\ mOrders'[There][at] = IF order[s].leaves = q THEN mOrders[There][at] \ {s}
                                                      ELSE mOrders[There][at]
       /\ \A side \in Sides, p \in Prices :
            side # There \/ p # at => mOrders'[side][p] = mOrders[side][p]
  <2>1. mOrders \in [Sides -> [Prices -> SUBSET Slots]]
    BY DEF IInv, KindsOK
  <2>2. mOrders' = [mOrders EXCEPT ![There][at] = IF order[s].leaves = q THEN @ \ {s} ELSE @]
    BY <1>8 DEF Fill
  <2> QED
    BY <1>3, <1>4, <2>1, <2>2
<1>17. /\ mLeavesQty'[There][at] = mLeavesQty[There][at] - q
       /\ \A side \in Sides, p \in Prices :
            side # There \/ p # at => mLeavesQty'[side][p] = mLeavesQty[side][p]
  <2>1. mLeavesQty \in [Sides -> [Prices -> Nat]]
    BY DEF IInv, KindsOK
  <2>2. mLeavesQty' = [mLeavesQty EXCEPT ![There][at] = @ - q]
    BY <1>8 DEF Fill
  <2> QED
    BY <1>3, <1>4, <2>1, <2>2
<1>18. reports' = Append(reports, Report(s, q))
  BY <1>8 DEF Fill
<1> QED
  BY <1>1, <1>3, <1>4, <1>5, <1>6, <1>8, <1>9, <1>11, <1>12, <1>13, <1>14, <1>15,
     <1>16, <1>17, <1>18 DEF Filling

\* One report has been added; it mentions the two orders.
LEMMA FillIsReported ==
  ASSUME IInv, NEW s, NEW q, Filling(s, q), UNCHANGED lines
  PROVE  LET k == Len(reports) + 1
             a == order[in].id
             b == order[s].id
         IN  /\ reports' \in Seq(Fills) /\ Len(reports') = k /\ k \in Nat
             /\ DOMAIN reports' = DOMAIN reports \cup {k} /\ k \notin DOMAIN reports
             /\ reports'[k] = [id1 |-> a, id2 |-> b, ptr1 |-> in, ptr2 |-> s,
                               qty |-> q, price |-> at]
             /\ \A i \in DOMAIN reports : reports'[i] = reports[i]
             /\ a \in DOMAIN lines /\ b \in DOMAIN lines /\ a # b
             /\ \A n : Mentions(n)' = IF n \in {a, b} THEN Mentions(n) \cup {k} ELSE Mentions(n)
             /\ \A n \in DOMAIN lines :
                  FilledQty'[n] = IF n \in {a, b} THEN FilledQty[n] + q ELSE FilledQty[n]
<1> DEFINE k == Len(reports) + 1
           a == order[in].id
           b == order[s].id
<1>1. reports \in Seq(Fills) /\ Len(reports) \in Nat
  BY DEF IInv, KindsOK
<1>2. in \in DOMAIN order /\ s \in DOMAIN order /\ in # s /\ q \in 0 .. MaxQty /\ at \in Prices
  BY MatchingAssumption DEF Filling
<1>3. a \in DOMAIN lines /\ b \in DOMAIN lines /\ a # b
  BY <1>2 DEF IInv, EntriesOK
<1>4. Report(s, q) \in Fills
  <2>1. s \in Slots /\ in \in Slots
    BY <1>2 DEF IInv, KindsOK
  <2>2. a \in Nat /\ b \in Nat
    BY <1>3 DEF IInv, KindsOK
  <2> QED
    BY <1>2, <2>1, <2>2 DEF Report, Fills
<1>5. reports' = Append(reports, Report(s, q))
  BY DEF Filling
<1>6. /\ reports' \in Seq(Fills) /\ Len(reports') = k
      /\ reports'[k] = Report(s, q)
      /\ \A i \in 1 .. Len(reports) : reports'[i] = reports[i]
  BY <1>1, <1>4, <1>5, AppendProperties
<1>7. DOMAIN reports = 1 .. Len(reports) /\ DOMAIN reports' = 1 .. k
  BY <1>1, <1>6
<1>8. DOMAIN reports' = DOMAIN reports \cup {k} /\ k \notin DOMAIN reports /\ k \in Nat
  BY <1>1, <1>7
<1>9. reports'[k] = [id1 |-> a, id2 |-> b, ptr1 |-> in, ptr2 |-> s,
                     qty |-> q, price |-> at]
  BY <1>6 DEF Report
<1> HIDE DEF k, a, b
<1>10. \A i \in DOMAIN reports : reports'[i] = reports[i]
  BY <1>6, <1>7
<1>11. \A n : Mentions(n)' = IF n \in {a, b} THEN Mentions(n) \cup {k} ELSE Mentions(n)
  BY <1>8, <1>9, <1>10 DEF Mentions
<1>12. /\ \A i \in DOMAIN reports : Traded'[i] = Traded[i] /\ Traded[i] \in Nat
       /\ Traded'[k] = q
  BY <1>8, <1>9, <1>10, FilledIsNat DEF Traded, IInv
<1>13. \A n : IsFiniteSet(Mentions(n)) /\ Mentions(n) \subseteq DOMAIN reports
  BY Finite DEF IInv, Mentions
<1>14. \A n : Total(Traded', Mentions(n)) = Total(Traded, Mentions(n))
  BY <1>12, <1>13, TotalAgrees
<1>15. ASSUME NEW n PROVE Total(Traded', Mentions(n) \cup {k}) = q + Total(Traded, Mentions(n))
  <2>1. \A i \in Mentions(n) \cup {k} : Traded'[i] \in Nat
    BY <1>2, <1>12, <1>13
  <2>2. k \notin Mentions(n)
    BY <1>8, <1>13
  <2>3. Total(Traded', Mentions(n) \cup {k}) = Traded'[k] + Total(Traded', Mentions(n))
    BY <1>13, <2>1, <2>2, TotalAdds
  <2> QED
    BY <1>12, <1>14, <2>3
<1>16. ASSUME NEW n \in DOMAIN lines
       PROVE  FilledQty'[n] = IF n \in {a, b} THEN FilledQty[n] + q ELSE FilledQty[n]
  <2>1. FilledQty'[n] = Total(Traded', Mentions(n)')
    BY DEF FilledQty
  <2>2. FilledQty[n] = Total(Traded, Mentions(n)) /\ FilledQty[n] \in Nat
    BY FilledIsNat DEF FilledQty, IInv
  <2>3. CASE n \in {a, b}
    <3>1. FilledQty'[n] = q + FilledQty[n]
      BY <1>11, <1>15, <2>1, <2>2, <2>3
    <3> QED
      BY <1>2, <2>2, <2>3, <3>1
  <2>4. CASE n \notin {a, b}
    BY <1>11, <1>14, <2>1, <2>2, <2>4
  <2> QED
    BY <2>3, <2>4
<1> QED
  BY <1>3, <1>6, <1>8, <1>9, <1>10, <1>11, <1>16 DEF k, a, b

\* What has been left is what has not been reported.
LEMMA FillCompletes ==
  ASSUME IInv, NEW s, NEW q, Filling(s, q), UNCHANGED lines,
         account' = [account EXCEPT ![order[Buyer(s)].party].longQty = @ + q,
                                    ![order[Seller(s)].party].shortQty = @ + q]
  PROVE  ReportsComplete' /\ account' \in [Parties -> [longQty : Nat, shortQty : Nat]]
<1>1. PICK a, b : a = order[in].id /\ b = order[s].id
  OBVIOUS
<1>2. /\ a \in DOMAIN lines /\ b \in DOMAIN lines /\ a # b
      /\ \A n \in DOMAIN lines :
           FilledQty'[n] = IF n \in {a, b} THEN FilledQty[n] + q ELSE FilledQty[n]
  BY <1>1, FillIsReported
<1>3. /\ in \in DOMAIN order /\ s \in DOMAIN order /\ s # in /\ q \in Nat
      /\ order[s].side = There /\ order[in].side # There /\ There \in Sides
      /\ DOMAIN order' = DOMAIN order
  BY DEF Filling
<1>4. \A n \in DOMAIN lines : FilledQty[n] \in Nat
  BY FilledIsNat DEF IInv
<1>5. ASSUME NEW t \in DOMAIN order
      PROVE  /\ order'[t].qty - order'[t].leaves = FilledQty'[order'[t].id]
             /\ order'[t].leaves \in Nat /\ order'[t].qty \in Nat
  <2>1. /\ order'[t].id = order[t].id /\ order'[t].qty = order[t].qty
        /\ order'[t].leaves = IF t \in {in, s} THEN order[t].leaves - q ELSE order[t].leaves
    BY DEF Filling
  <2>2. order[t].id \in DOMAIN lines /\ (order[t].id \in {a, b} <=> t \in {in, s})
    BY <1>1, <1>3 DEF IInv, EntriesOK
  <2>3. order[t].qty - order[t].leaves = FilledQty[order[t].id]
    BY DEF IInv, ReportsComplete
  <2>4. order[t] \in Records /\ order'[t] \in Records
    BY DEF IInv, KindsOK, Filling
  <2>5. \A r \in Records : r.leaves \in Nat /\ r.qty \in Nat
    BY MatchingAssumption DEF Records
  <2>6. order[t].leaves \in Nat /\ order[t].qty \in Nat
    BY <2>4, <2>5
  <2> QED
    BY <1>2, <1>3, <2>1, <2>2, <2>3, <2>4, <2>5, <2>6
<1>6. ASSUME NEW n \in DOMAIN lines' PROVE FilledQty'[n] <= lines'[n].qty
  <2>1. CASE n \in {a, b}
    <3>1. PICK t \in {in, s} : n = order[t].id
      BY <1>1, <2>1
    <3>2. /\ order'[t].qty - order'[t].leaves = FilledQty'[n]
          /\ order'[t].leaves \in Nat /\ order'[t].qty \in Nat
          /\ order'[t].qty = lines[n].qty
      BY <1>3, <1>5, <3>1 DEF Filling, IInv, EntriesOK
    <3> QED
      BY <3>2
  <2>2. CASE n \notin {a, b}
    BY <1>2, <2>2 DEF IInv, ReportsComplete
  <2> QED
    BY <2>1, <2>2
<1>7. PICK x, y : /\ x = order[Buyer(s)].id /\ y = order[Seller(s)].id
  OBVIOUS
<1>8. /\ Buyer(s) \in DOMAIN order /\ Seller(s) \in DOMAIN order
      /\ order[Buyer(s)].side = "BUY" /\ order[Seller(s)].side = "SELL"
      /\ {x, y} = {a, b}
  <2>1. /\ order[s].side \in Sides /\ order[in].side \in Sides
    <3>1. order[s] \in Records /\ order[in] \in Records
      BY <1>3 DEF IInv, KindsOK
    <3> QED
      BY <3>1 DEF Records
  <2> QED
    BY <1>1, <1>3, <1>7, <2>1 DEF Buyer, Seller, Sides
<1>9. /\ x \in DOMAIN lines /\ y \in DOMAIN lines /\ x # y
      /\ lines[x].side = "BUY" /\ lines[y].side = "SELL"
      /\ lines[x].party = order[Buyer(s)].party /\ lines[y].party = order[Seller(s)].party
      /\ lines[x].party \in Parties /\ lines[y].party \in Parties
      /\ \A n \in DOMAIN lines :
           FilledQty'[n] = IF n \in {x, y} THEN FilledQty[n] + q ELSE FilledQty[n]
  <2>1. /\ lines[x].side = "BUY" /\ lines[y].side = "SELL"
        /\ lines[x].party = order[Buyer(s)].party /\ lines[y].party = order[Seller(s)].party
    BY <1>7, <1>8 DEF IInv, EntriesOK
  <2>2. \A r \in Records : r.party \in Parties
    BY DEF Records
  <2>3. order[Buyer(s)] \in Records /\ order[Seller(s)] \in Records
    BY <1>8 DEF IInv, KindsOK
  <2> QED
    BY <1>2, <1>8, <2>1, <2>2, <2>3
<1>10. ASSUME NEW p \in Parties, NEW side \in Sides, NEW z \in {x, y}, lines[z].side = side
       PROVE  /\ LinesOf(p, side)' = LinesOf(p, side)
              /\ Total(FilledQty', LinesOf(p, side)) =
                   IF lines[z].party = p THEN Total(FilledQty, LinesOf(p, side)) + q
                                         ELSE Total(FilledQty, LinesOf(p, side))
              /\ Total(FilledQty, LinesOf(p, side)) \in Nat
  <2>1. LinesOf(p, side)' = LinesOf(p, side)
    BY DEF LinesOf
  <2>2. PICK S : S = LinesOf(p, side)
    OBVIOUS
  <2>3. S \subseteq DOMAIN lines /\ IsFiniteSet(S)
    BY <2>2, Finite DEF LinesOf, IInv
  <2>4. \A n \in S : n \in {x, y} => n = z
    BY <1>9, <1>10, <2>2 DEF LinesOf
  <2>5. z \in S <=> lines[z].party = p
    BY <1>9, <1>10, <2>2 DEF LinesOf
  <2>6. \A n \in S : FilledQty[n] \in Nat /\ FilledQty'[n] \in Nat
    BY <1>3, <1>4, <1>9, <2>3
  <2>7. Total(FilledQty, S) \in Nat /\ Total(FilledQty', S) \in Nat
    BY <2>3, <2>6, TotalNat
  <2>8. CASE z \in S
    <3>1. \A n \in S \ {z} : FilledQty[n] = FilledQty'[n]
      BY <1>9, <2>3, <2>4
    <3>2. FilledQty'[z] = FilledQty[z] + q /\ FilledQty[z] \in Nat
      BY <1>4, <1>9
    <3>3. Total(FilledQty', S) + FilledQty[z] = Total(FilledQty, S) + FilledQty'[z]
      BY <2>3, <2>6, <2>8, <3>1, TotalMoves
    <3>4. \A i, j, m, n \in Nat : i + m = j + (m + n) => i = j + n
      OBVIOUS
    <3>5. Total(FilledQty', S) = Total(FilledQty, S) + q
      BY <1>3, <2>7, <3>2, <3>3, <3>4
    <3> QED
      BY <2>1, <2>2, <2>5, <2>7, <2>8, <3>5
  <2>9. CASE z \notin S
    <3>1. \A n \in S : FilledQty'[n] = FilledQty[n]
      BY <1>9, <2>3, <2>4, <2>9
    <3>2. Total(FilledQty', S) = Total(FilledQty, S)
      BY <2>3, <3>1, TotalAgrees
    <3> QED
      BY <2>1, <2>2, <2>5, <2>7, <2>9, <3>2
  <2> QED
    BY <2>8, <2>9
<1>11. /\ account' \in [Parties -> [longQty : Nat, shortQty : Nat]]
       /\ \A p \in Parties :
            account'[p] =
              [longQty |-> IF lines[x].party = p THEN account[p].longQty + q
                                                 ELSE account[p].longQty,
               shortQty |-> IF lines[y].party = p THEN account[p].shortQty + q
                                                  ELSE account[p].shortQty]
  <2>1. account \in [Parties -> [longQty : Nat, shortQty : Nat]]
    BY DEF IInv, KindsOK
  <2>2. account' = [account EXCEPT ![lines[x].party].longQty = @ + q,
                                   ![lines[y].party].shortQty = @ + q]
    BY <1>9
  <2> QED
    BY SMTT(20), <1>3, <1>9, <2>1, <2>2
<1>12. ASSUME NEW p \in Parties
       PROVE  account'[p] = [longQty |-> Total(FilledQty', LinesOf(p, "BUY")'),
                             shortQty |-> Total(FilledQty', LinesOf(p, "SELL")')]
  <2>1. account[p] = [longQty |-> Total(FilledQty, LinesOf(p, "BUY")),
                      shortQty |-> Total(FilledQty, LinesOf(p, "SELL"))]
    BY DEF IInv, ReportsComplete
  <2>2. "BUY" \in Sides /\ "SELL" \in Sides
    BY DEF Sides
  <2>3. /\ LinesOf(p, "BUY")' = LinesOf(p, "BUY")
        /\ Total(FilledQty', LinesOf(p, "BUY")) =
             IF lines[x].party = p THEN Total(FilledQty, LinesOf(p, "BUY")) + q
                                   ELSE Total(FilledQty, LinesOf(p, "BUY"))
    BY <1>9, <1>10, <2>2
  <2>4. /\ LinesOf(p, "SELL")' = LinesOf(p, "SELL")
        /\ Total(FilledQty', LinesOf(p, "SELL")) =
             IF lines[y].party = p THEN Total(FilledQty, LinesOf(p, "SELL")) + q
                                   ELSE Total(FilledQty, LinesOf(p, "SELL"))
    BY <1>9, <1>10, <2>2
  <2>5. /\ account[p].longQty = Total(FilledQty, LinesOf(p, "BUY"))
        /\ account[p].shortQty = Total(FilledQty, LinesOf(p, "SELL"))
    BY <2>1
  <2>6. (IF lines[x].party = p THEN account[p].longQty + q ELSE account[p].longQty)
          = Total(FilledQty', LinesOf(p, "BUY")')
    BY <2>3, <2>5
  <2>7. (IF lines[y].party = p THEN account[p].shortQty + q ELSE account[p].shortQty)
          = Total(FilledQty', LinesOf(p, "SELL")')
    BY <2>4, <2>5
  <2> QED
    BY <1>11, <2>6, <2>7
<1> QED
  BY <1>3, <1>5, <1>6, <1>11, <1>12 DEF ReportsComplete

\* The orders that stay in a group, and what they have left.
LEMMA FillSums ==
  ASSUME IInv, NEW s, NEW q, Filling(s, q), rule' = rule, pc = "match", pc' = "match"
  PROVE  /\ \A side \in Sides, p \in Prices : mLeavesQty'[side][p] \in Nat
         /\ SumsOK'
<1>1. /\ There \in Sides /\ at \in Prices /\ s \in mOrders[There][at] /\ s # in
      /\ in \in DOMAIN order /\ s \in DOMAIN order /\ q \in Nat
      /\ order[s].side = There /\ order[in].side # There /\ order[s].price = at
      /\ DOMAIN order' = DOMAIN order
  BY DEF Filling
<1>2. \A t \in DOMAIN order :
        /\ Leaves[t] \in Nat /\ Leaves'[t] \in Nat
        /\ Leaves[t] = order[t].leaves /\ Leaves'[t] = order'[t].leaves
        /\ t \notin {in, s} => Leaves'[t] = Leaves[t]
        /\ t \in {in, s} => Leaves[t] = Leaves'[t] + q
  <2>1. ASSUME NEW t \in DOMAIN order
        PROVE  /\ order[t].leaves \in Nat /\ order'[t].leaves \in Nat
               /\ t \notin {in, s} => order'[t].leaves = order[t].leaves
               /\ t \in {in, s} => order[t].leaves = order'[t].leaves + q
    <3>1. order[t] \in Records /\ order'[t] \in Records
      BY DEF IInv, KindsOK, Filling
    <3>2. \A r \in Records : r.leaves \in Nat
      BY MatchingAssumption DEF Records
    <3>3. order'[t].leaves = IF t \in {in, s} THEN order[t].leaves - q ELSE order[t].leaves
      BY DEF Filling
    <3>4. order[t].leaves \in Nat /\ order'[t].leaves \in Nat
      BY <3>1, <3>2
    <3> QED
      BY <1>1, <3>3, <3>4
  <2>2. \A t \in DOMAIN order : Leaves[t] = order[t].leaves
    BY DEF Leaves
  <2>3. \A t \in DOMAIN order : Leaves'[t] = order'[t].leaves
    BY <1>1 DEF Leaves
  <2> QED
    BY <2>1, <2>2, <2>3
<1>3. \A side \in Sides, p \in Prices :
        /\ mOrders[side][p] \subseteq DOMAIN order /\ IsFiniteSet(mOrders[side][p])
        /\ \A t \in mOrders[side][p] : order[t].side = side /\ order[t].price = p
        /\ mLeavesQty[side][p] \in Nat
        /\ mLeavesQty[side][p] >= Total(Leaves, mOrders[side][p])
        /\ rule = "normal" => mLeavesQty[side][p] = Total(Leaves, mOrders[side][p])
  BY Finite, LeavesAreNat, QuantitiesAreNat DEF IInv, GroupsOK, SumsOK
<1>4. ASSUME NEW side \in Sides, NEW p \in Prices, side # There \/ p # at
      PROVE  /\ mOrders'[side][p] = mOrders[side][p]
             /\ mLeavesQty'[side][p] = mLeavesQty[side][p]
             /\ Total(Leaves', mOrders[side][p]) <= Total(Leaves, mOrders[side][p])
             /\ rule = "normal" =>
                  Total(Leaves', mOrders[side][p]) = Total(Leaves, mOrders[side][p])
             /\ Total(Leaves', mOrders[side][p]) \in Nat
             /\ Total(Leaves, mOrders[side][p]) \in Nat
  <2>1. mOrders'[side][p] = mOrders[side][p] /\ mLeavesQty'[side][p] = mLeavesQty[side][p]
    BY <1>4 DEF Filling
  <2>2. PICK G : G = mOrders[side][p]
    OBVIOUS
  <2>3. s \notin G /\ G \subseteq DOMAIN order /\ IsFiniteSet(G)
    BY <1>1, <1>3, <1>4, <2>2
  <2>4. \A t \in G : Leaves[t] \in Nat /\ Leaves'[t] \in Nat
    BY <1>2, <2>3
  <2>5. Total(Leaves, G) \in Nat /\ Total(Leaves', G) \in Nat
    BY <2>3, <2>4, TotalNat
  <2>6. CASE in \in G
    <3>1. \A t \in G \ {in} : Leaves[t] = Leaves'[t]
      BY <1>2, <2>3
    <3>2. Total(Leaves', G) + Leaves[in] = Total(Leaves, G) + Leaves'[in]
      BY <2>3, <2>4, <2>6, <3>1, TotalMoves
    <3>3. Leaves[in] = Leaves'[in] + q /\ Leaves'[in] \in Nat
      BY <1>1, <1>2
    <3>4. \A i, j, m \in Nat : i + (m + q) = j + m => i <= j
      BY <1>1
    <3>5. Total(Leaves', G) <= Total(Leaves, G)
      BY <2>5, <3>2, <3>3, <3>4
    <3>6. rule # "normal"
      <4>1. in < index
        BY <2>2, <2>6 DEF IInv, GroupsOK
      <4>2. in \in Int /\ index \in Int
        BY <1>1 DEF IInv, KindsOK, Slots
      <4> QED
        BY <4>1, <4>2 DEF IInv, PlaceOK
    <3> QED
      BY <2>1, <2>2, <2>5, <3>5, <3>6
  <2>7. CASE in \notin G
    <3>1. \A t \in G : Leaves'[t] = Leaves[t]
      BY <1>2, <2>3, <2>7
    <3>2. Total(Leaves', G) = Total(Leaves, G)
      BY <2>3, <3>1, TotalAgrees
    <3> QED
      BY <2>1, <2>2, <2>5, <3>2
  <2> QED
    BY <2>6, <2>7
<1>5. PICK G : G = mOrders[There][at]
  OBVIOUS
<1>6. /\ s \in G /\ in \notin G /\ G \subseteq DOMAIN order /\ IsFiniteSet(G)
      /\ \A t \in G : Leaves[t] \in Nat /\ Leaves'[t] \in Nat
  BY <1>1, <1>2, <1>3, <1>5
<1>7. Total(Leaves, G) \in Nat /\ Total(Leaves', G) \in Nat /\ Leaves[s] <= Total(Leaves, G)
  BY <1>6, TotalNat, TotalCovers
<1>8. Total(Leaves, G) = Total(Leaves', G) + q
  <2>1. \A t \in G \ {s} : Leaves[t] = Leaves'[t]
    BY <1>2, <1>6
  <2>2. Total(Leaves', G) + Leaves[s] = Total(Leaves, G) + Leaves'[s]
    BY <1>6, <2>1, TotalMoves
  <2>3. Leaves[s] = Leaves'[s] + q /\ Leaves'[s] \in Nat
    BY <1>1, <1>2
  <2>4. \A i, j, m \in Nat : i + (m + q) = j + m => j = i + q
    BY <1>1
  <2> QED
    BY <1>7, <2>2, <2>3, <2>4
<1>9. Total(Leaves', mOrders'[There][at]) = Total(Leaves', G)
  <2>1. CASE order[s].leaves = q
    <3>1. mOrders'[There][at] = G \ {s}
      BY <1>5, <2>1 DEF Filling
    <3>2. Leaves'[s] = 0
      BY <1>1, <1>2, <2>1
    <3>3. Total(Leaves', G) = Leaves'[s] + Total(Leaves', G \ {s})
      BY <1>6, TotalWith
    <3>4. Total(Leaves', G \ {s}) \in Nat
      <4>1. IsFiniteSet(G \ {s})
        BY <1>6, FS_RemoveElement
      <4> QED
        BY <1>6, <4>1, TotalNat
    <3>5. \A i \in Nat : 0 + i = i
      OBVIOUS
    <3> QED
      BY <3>1, <3>2, <3>3, <3>4, <3>5
  <2>2. CASE order[s].leaves # q
    BY <1>5, <2>2 DEF Filling
  <2> QED
    BY <2>1, <2>2
<1>10. /\ mLeavesQty'[There][at] \in Nat
       /\ mLeavesQty'[There][at] >= Total(Leaves', mOrders'[There][at])
       /\ rule = "normal" =>
            mLeavesQty'[There][at] = Total(Leaves', mOrders'[There][at])
  <2>1. mLeavesQty'[There][at] = mLeavesQty[There][at] - q
    BY DEF Filling
  <2>2. /\ mLeavesQty[There][at] \in Nat /\ mLeavesQty[There][at] >= Total(Leaves, G)
        /\ rule = "normal" => mLeavesQty[There][at] = Total(Leaves, G)
    BY <1>1, <1>3, <1>5
  <2> QED
    BY <1>1, <1>7, <1>8, <1>9, <2>1, <2>2
<1>11. ASSUME NEW side \in Sides, NEW p \in Prices, side # There \/ p # at
       PROVE  /\ mLeavesQty'[side][p] \in Nat
              /\ mLeavesQty'[side][p] >= Total(Leaves', mOrders'[side][p])
              /\ rule = "normal" => mLeavesQty'[side][p] = Total(Leaves', mOrders'[side][p])
  <2>1. /\ mLeavesQty[side][p] \in Nat
        /\ mLeavesQty[side][p] >= Total(Leaves, mOrders[side][p])
        /\ rule = "normal" => mLeavesQty[side][p] = Total(Leaves, mOrders[side][p])
    BY <1>3
  <2> QED
    BY <1>4, <1>11, <2>1
<1> QED
  BY <1>10, <1>11 DEF SumsOK

\* The report finishes one of its orders, which no report had finished.
LEMMA FillCounts ==
  ASSUME IInv, NEW s, NEW q, Filling(s, q), UNCHANGED <<lines, todo>>, ReportsComplete',
         pc = "match", ~full, pc' = "match", rule' = rule
  PROVE  CountOK'
<1>1. PICK a, b, k : a = order[in].id /\ b = order[s].id /\ k = Len(reports) + 1
  OBVIOUS
<1>2. /\ a \in DOMAIN lines /\ b \in DOMAIN lines /\ a # b
      /\ Len(reports') = k /\ k \in Nat
      /\ \A n : Mentions(n)' = IF n \in {a, b} THEN Mentions(n) \cup {k} ELSE Mentions(n)
      /\ \A n \in DOMAIN lines :
           FilledQty'[n] = IF n \in {a, b} THEN FilledQty[n] + q ELSE FilledQty[n]
  BY <1>1, FillIsReported
<1>3. /\ in \in DOMAIN order /\ s \in DOMAIN order /\ s # in /\ q \in Nat
      /\ order[s].side = There /\ order[in].side # There /\ There \in Sides /\ at \in Prices
      /\ DOMAIN order' = DOMAIN order /\ s \in mOrders[There][at] /\ in' = in
      /\ q = order[in].leaves \/ q = order[s].leaves
  BY DEF Filling
<1>4. rule \in {"normal", "auction"} /\ order[in] \in Records /\ order[s] \in Records
  BY <1>3 DEF IInv, KindsOK
<1>5. /\ rule = "normal" => order[in].leaves > 0 /\ order[s].leaves > 0 /\ in = index
      /\ rule = "auction" => in \in todo /\ There = "SELL"
  <2>1. rule = "normal" => order[in].leaves > 0 /\ in = index
    BY DEF IInv, PlaceOK
  <2>2. rule = "normal" => order[s].leaves > 0
    BY <1>3 DEF IInv, GroupsOK
  <2>3. rule = "auction" => in \in todo /\ order[in].side = "BUY"
    BY DEF IInv, PlaceOK
  <2> QED
    BY <2>1, <2>2, <2>3 DEF There, Other
<1>6. \A r \in Records : r.leaves \in Nat /\ r.qty \in Nat
  BY MatchingAssumption DEF Records
<1>7. Unreported(in) /\ Unreported(s)
  <2>1. CASE rule = "normal"
    BY <1>4, <1>5, <1>6, <2>1 DEF Unreported
  <2>2. CASE rule = "auction"
    BY <1>3, <1>5, <2>2 DEF IInv, CountOK
  <2> QED
    BY <1>4, <2>1, <2>2
<1>8. ASSUME NEW t \in {in, s}
      PROVE  order[t].id \notin Finishing
  <2>1. CASE order[t].leaves = 0
    BY <1>7, <2>1 DEF Unreported, Finishing
  <2>2. CASE order[t].leaves # 0
    <3>1. order[t].qty - order[t].leaves = FilledQty[order[t].id]
      BY <1>3 DEF IInv, ReportsComplete
    <3>2. order[t].qty = lines[order[t].id].qty
      BY <1>3 DEF IInv, EntriesOK
    <3>3. order[t].leaves \in Nat /\ order[t].qty \in Nat
      BY <1>4, <1>6
    <3>4. FilledQty[order[t].id] # lines[order[t].id].qty
      BY <2>2, <3>1, <3>2, <3>3
    <3> QED
      BY <3>4 DEF Finishing
  <2> QED
    BY <2>1, <2>2
<1>9. \E t \in {in, s} : order[t].id \in Finishing'
  <2>1. PICK t \in {in, s} : q = order[t].leaves
    BY <1>3
  <2>2. order'[t].leaves = order[t].leaves - q /\ order'[t].id = order[t].id /\ order'[t].qty = order[t].qty
    BY <1>3 DEF Filling
  <2>3. order'[t].qty - order'[t].leaves = FilledQty'[order[t].id]
    BY <1>3, <2>2 DEF ReportsComplete
  <2>4. order[t].leaves \in Nat /\ order[t].qty \in Nat
    BY <1>4, <1>6
  <2>5. FilledQty'[order[t].id] = lines[order[t].id].qty
    <3>1. order[t].qty = lines[order[t].id].qty
      BY <1>3 DEF IInv, EntriesOK
    <3> QED
      BY <2>1, <2>2, <2>3, <2>4, <3>1
  <2>6. order[t].id \in {a, b}
    BY <1>1
  <2> QED
    BY <1>2, <2>5, <2>6 DEF Finishing
<1>10. Finishing \subseteq Finishing'
  <2>1. a \notin Finishing /\ b \notin Finishing
    BY <1>1, <1>8
  <2> QED
    BY <1>2, <2>1 DEF Finishing
<1>11. Len(reports') <= Cardinality(Finishing')
  <2>1. PICK x : x \in Finishing' /\ x \notin Finishing
    BY <1>8, <1>9
  <2>2. IsFiniteSet(Finishing') /\ IsFiniteSet(Finishing)
    <3>1. \A S : S \subseteq DOMAIN lines => IsFiniteSet(S)
      BY Finite DEF IInv
    <3>2. Finishing \subseteq DOMAIN lines /\ Finishing' \subseteq DOMAIN lines
      BY DEF Finishing
    <3> QED
      BY <3>1, <3>2
  <2>3. Cardinality(Finishing \cup {x}) = Cardinality(Finishing) + 1
    BY <2>1, <2>2, FS_AddElement
  <2>4. Cardinality(Finishing \cup {x}) <= Cardinality(Finishing')
    BY <1>10, <2>1, <2>2, FS_Subset
  <2>5. /\ Cardinality(Finishing) \in Nat /\ Cardinality(Finishing') \in Nat
        /\ Len(reports) <= Cardinality(Finishing)
    BY <2>2, FS_CardinalityType DEF IInv, CountOK
  <2>6. Len(reports) \in Nat
    BY DEF IInv, KindsOK
  <2> QED
    BY <1>1, <1>2, <2>3, <2>4, <2>5, <2>6
<1>12. ASSUME NEW t \in DOMAIN order, t \notin {in, s}, Unreported(t)
       PROVE  Unreported(t)'
  <2>1. order'[t].id = order[t].id /\ order'[t].leaves = order[t].leaves
    BY <1>12 DEF Filling
  <2>2. order[t].id \notin {a, b}
    BY <1>1, <1>3, <1>12 DEF IInv, EntriesOK
  <2>3. \A n : n \notin {a, b} => Mentions(n)' = Mentions(n)
    BY <1>2
  <2>4. {i \in DOMAIN reports' : order[t].id \in {reports'[i].id1, reports'[i].id2}}
          = {i \in DOMAIN reports : order[t].id \in {reports[i].id1, reports[i].id2}}
    BY <2>2, <2>3 DEF Mentions
  <2> QED
    BY <1>12, <2>1, <2>4 DEF Unreported, Mentions
<1>13. ASSUME NEW p \in Prices, NEW t \in mOrders'["SELL"][p] PROVE Unreported(t)'
  <2>1. t \in mOrders["SELL"][p]
    BY <1>13 DEF Filling, Sides
  <2>2. t \in DOMAIN order /\ order[t].side = "SELL" /\ t < index
    BY <2>1 DEF IInv, GroupsOK, Sides
  <2>3. t # in
    <3>1. t \in Int /\ index \in Int
      BY <2>2 DEF IInv, KindsOK, Slots
    <3> QED
      BY <1>3, <1>4, <1>5, <2>2, <3>1
  <2>4. CASE t = s
    <3>1. There = "SELL" /\ p = at
      BY <1>3, <2>1, <2>2, <2>4 DEF Filling, IInv, GroupsOK, Sides
    <3>2. order[s].leaves # q
      BY <1>13, <2>4, <3>1 DEF Filling
    <3>3. order'[s].leaves = order[s].leaves - q /\ order[s].leaves \in Nat
      BY <1>3, <1>4, <1>6 DEF Filling
    <3>4. order'[s].leaves # 0
      BY <1>3, <3>2, <3>3
    <3> QED
      BY <2>4, <3>4 DEF Unreported
  <2>5. CASE t # s
    <3>1. Unreported(t)
      BY <2>1 DEF IInv, CountOK
    <3> QED
      BY <1>12, <2>2, <2>3, <2>5, <3>1
  <2> QED
    BY <2>4, <2>5
<1>14. ASSUME NEW t \in todo', (pc' = "match" /\ t = in' => ~full') PROVE Unreported(t)'
  <2>1. rule = "auction" /\ t \in todo /\ t \in DOMAIN order
    BY <1>4, <1>14 DEF IInv, PlaceOK, KindsOK
  <2>2. t # s
    BY <1>3, <1>5, <2>1 DEF IInv, PlaceOK
  <2>3. CASE t = in
    <3>1. order'[in].leaves # 0
      BY <1>3, <1>14, <2>3 DEF Filling
    <3> QED
      BY <2>3, <3>1 DEF Unreported
  <2>4. CASE t # in
    <3>1. Unreported(t)
      BY <2>1, <2>4 DEF IInv, CountOK
    <3> QED
      BY <1>12, <2>1, <2>2, <2>4, <3>1
  <2> QED
    BY <2>3, <2>4
<1> QED
  BY <1>11, <1>13, <1>14 DEF CountOK

LEMMA MatchOrderKeeps == IInv /\ MatchOrder => IInv'
<1> SUFFICES ASSUME IInv, MatchOrder PROVE IInv'
  OBVIOUS
<1>1. /\ pc = "match" /\ pc' = "match" /\ ~full
      /\ UNCHANGED <<rule, lines, index, levels, mTotalQty, in, at, todo, target>>
  BY DEF MatchOrder
<1>2. PICK s \in Front(mOrders[There][at]) : Fill(s)
  BY DEF MatchOrder
<1>3. s \in mOrders[There][at] /\ \A t \in mOrders[There][at] : ~Sooner(t, s)
  BY <1>2 DEF Front
<1>4. PICK q : q = Crossed(s)
  OBVIOUS
<1>5. Filling(s, q)
  BY <1>1, <1>2, <1>3, <1>4, OrderFills
<1>6. ReportsComplete' /\ account' \in [Parties -> [longQty : Nat, shortQty : Nat]]
  <2>1. account' = [account EXCEPT ![order[Buyer(s)].party].longQty = @ + q,
                                   ![order[Seller(s)].party].shortQty = @ + q]
    BY <1>2, <1>4 DEF Fill
  <2> QED
    BY <1>1, <1>5, <2>1, FillCompletes
<1>7. SumsOK' /\ \A side \in Sides, p \in Prices : mLeavesQty'[side][p] \in Nat
  BY <1>1, <1>5, FillSums
<1>8. CountOK'
  BY <1>1, <1>5, <1>6, FillCounts
<1>9. PICK a, b, k : a = order[in].id /\ b = order[s].id /\ k = Len(reports) + 1
  OBVIOUS
<1>10. /\ reports' \in Seq(Fills)
       /\ DOMAIN reports' = DOMAIN reports \cup {k}
       /\ reports'[k] = [id1 |-> a, id2 |-> b, ptr1 |-> in, ptr2 |-> s,
                         qty |-> q, price |-> at]
       /\ \A i \in DOMAIN reports : reports'[i] = reports[i]
       /\ a \in DOMAIN lines /\ b \in DOMAIN lines
  BY <1>1, <1>5, <1>9, FillIsReported
<1>11. /\ s \in DOMAIN order /\ s < index /\ order[s].side = There /\ order[s].price = at
       /\ There \in Sides /\ at \in Prices /\ in \in DOMAIN order /\ There' = There
       /\ DOMAIN order' = DOMAIN order /\ order' \in [DOMAIN order' -> Records]
       /\ \A t \in DOMAIN order :
            /\ order'[t].id = order[t].id /\ order'[t].party = order[t].party
            /\ order'[t].price = order[t].price /\ order'[t].qty = order[t].qty
            /\ order'[t].side = order[t].side
       /\ full' = (order'[in].leaves = 0)
  BY <1>5 DEF Filling
<1>12. \A t \in DOMAIN order :
         /\ order[t].leaves \in Nat /\ order'[t].leaves \in Nat
         /\ order'[t].leaves <= order[t].leaves
         /\ t \notin {in, s} => order'[t].leaves = order[t].leaves
  <2> SUFFICES ASSUME NEW t \in DOMAIN order
               PROVE  /\ order[t].leaves \in Nat /\ order'[t].leaves \in Nat
                      /\ order'[t].leaves <= order[t].leaves
                      /\ t \notin {in, s} => order'[t].leaves = order[t].leaves
    OBVIOUS
  <2>1. order[t] \in Records /\ order'[t] \in Records
    BY <1>11 DEF IInv, KindsOK
  <2>2. \A r \in Records : r.leaves \in Nat
    BY MatchingAssumption DEF Records
  <2>3. order'[t].leaves = IF t \in {in, s} THEN order[t].leaves - q ELSE order[t].leaves
    BY <1>5 DEF Filling
  <2>4. q \in Nat
    BY <1>5 DEF Filling
  <2>5. order[t].leaves \in Nat /\ order'[t].leaves \in Nat
    BY <2>1, <2>2
  <2> QED
    BY <2>3, <2>4, <2>5
<1>13. KindsOK'
  <2>1. mLeavesQty' \in [Sides -> [Prices -> Nat]]
    <3>1. mLeavesQty' = [mLeavesQty EXCEPT ![There][at] = @ - q]
      BY <1>2, <1>4 DEF Fill
    <3>2. mLeavesQty \in [Sides -> [Prices -> Nat]]
      BY DEF IInv, KindsOK
    <3>3. mLeavesQty[There][at] - q \in Nat
      BY <1>5, <1>7, <1>11 DEF Filling
    <3> QED
      BY <1>11, <3>1, <3>2, <3>3
  <2>2. mOrders' \in [Sides -> [Prices -> SUBSET Slots]] /\ full' \in BOOLEAN
    BY <1>5, <1>11 DEF Filling
  <2>3. DOMAIN order' \subseteq Slots /\ (\A t \in DOMAIN order' : t <= index') /\ todo' \subseteq DOMAIN order'
    BY <1>1, <1>11 DEF IInv, KindsOK
  <2> QED
    BY <1>1, <1>6, <1>10, <1>11, <2>1, <2>2, <2>3 DEF IInv, KindsOK
<1>14. EntriesOK'
  <2>1. ASSUME NEW t \in DOMAIN order'
        PROVE  /\ order'[t].id \in DOMAIN lines'
               /\ order'[t].leaves <= order'[t].qty
               /\ order'[t].party = lines'[order'[t].id].party
               /\ order'[t].price = lines'[order'[t].id].price
               /\ order'[t].qty = lines'[order'[t].id].qty
               /\ order'[t].side = lines'[order'[t].id].side
    <3>1. /\ order[t].id \in DOMAIN lines /\ order[t].leaves <= order[t].qty
          /\ order[t].party = lines[order[t].id].party
          /\ order[t].price = lines[order[t].id].price
          /\ order[t].qty = lines[order[t].id].qty
          /\ order[t].side = lines[order[t].id].side
      BY <1>11 DEF IInv, EntriesOK
    <3>2. order[t].qty \in Nat
      <4>1. order[t] \in Records
        BY <1>11 DEF IInv, KindsOK
      <4> QED
        BY <4>1, MatchingAssumption DEF Records
    <3>3. order'[t].leaves <= order[t].qty
      BY <1>11, <1>12, <3>1, <3>2
    <3> QED
      BY <1>1, <1>11, <3>1, <3>3
  <2>2. \A t, u \in DOMAIN order' : order'[t].id = order'[u].id => t = u
    BY <1>11 DEF IInv, EntriesOK
  <2> QED
    BY <1>1, <2>1, <2>2 DEF IInv, EntriesOK
<1>15. PlaceOK'
  <2>1. order'[in].leaves > 0 <=> ~full'
    <3>1. order'[in].leaves \in Nat /\ (full' <=> order'[in].leaves = 0)
      BY <1>11, <1>12
    <3> QED
      BY <3>1
  <2>2. \A t \in todo : t \in DOMAIN order /\ order'[t].side = order[t].side
    BY <1>11 DEF IInv, KindsOK
  <2> QED
    BY <1>1, <1>11, <2>1, <2>2 DEF IInv, PlaceOK
<1>16. \A side \in Sides, p \in Prices : mOrders'[side][p] \subseteq mOrders[side][p]
  BY <1>5 DEF Filling
<1>17. GroupsOK'
  <2>1. ASSUME NEW side \in Sides, NEW p \in Prices, NEW t \in mOrders'[side][p]
        PROVE  /\ p \in levels[side] /\ t \in DOMAIN order /\ t < index
               /\ order[t].side = side /\ order[t].price = p
               /\ rule = "normal" => order'[t].leaves > 0
    <3>1. /\ p \in levels[side] /\ t \in DOMAIN order /\ t < index
          /\ order[t].side = side /\ order[t].price = p
          /\ rule = "normal" => order[t].leaves > 0
      BY <1>16, <2>1 DEF IInv, GroupsOK
    <3>2. CASE t = s
      <4>1. order[s].leaves # q
        BY <1>5, <1>11, <2>1, <3>1, <3>2 DEF Filling
      <4>2. order'[s].leaves = order[s].leaves - q /\ q \in Nat /\ q <= order[s].leaves
        BY <1>5 DEF Filling
      <4>3. order'[s].leaves > 0
        BY <1>11, <1>12, <4>1, <4>2
      <4> QED
        BY <3>1, <3>2, <4>3
    <3>3. CASE t # s
      <4>1. rule = "normal" => t # in
        <5>1. rule = "normal" => in = index
          BY <1>1 DEF IInv, PlaceOK
        <5>2. t \in Int /\ index \in Int
          BY <3>1 DEF IInv, KindsOK, Slots
        <5> QED
          BY <3>1, <5>1, <5>2
      <4> QED
        BY <1>12, <3>1, <3>3, <4>1
    <3> QED
      BY <3>2, <3>3
  <2>2. \A p \in levels[There] : Better(There, p, at) => mOrders'[There][p] = {}
    <3>1. \A p \in levels[There] : p \in Prices
      BY <1>11 DEF IInv, KindsOK
    <3>2. \A p \in levels[There] : Better(There, p, at) => mOrders[There][p] = {}
      BY <1>1 DEF IInv, GroupsOK
    <3> QED
      BY <1>11, <1>16, <3>1, <3>2
  <2> QED
    BY <1>1, <1>11, <2>1, <2>2 DEF GroupsOK
<1>18. LevelsOK'
  <2>1. ASSUME rule = "normal", NEW side \in Sides, NEW p \in levels[side], mOrders'[side][p] = {}
        PROVE  side = There /\ p = at
    <3>1. p \in Prices
      BY DEF IInv, KindsOK
    <3>2. side # There \/ p # at => mOrders'[side][p] = mOrders[side][p]
      BY <1>5, <3>1 DEF Filling
    <3>3. mOrders[side][p] = {} => side = There /\ p = at
      BY <2>1 DEF IInv, LevelsOK
    <3> QED
      BY <2>1, <3>2, <3>3
  <2> QED
    BY <1>1, <1>11, <2>1 DEF IInv, LevelsOK
<1>19. TradesOK'
  <2> SUFFICES ASSUME NEW side \in Sides, NEW p \in Prices, NEW t \in mOrders'[side][p],
                      NEW i \in DOMAIN reports',
                      order[t].id < reports'[i].id1 \/ rule = "auction",
                      lines[reports'[i].id2].side = side
               PROVE  /\ ~Better(side, p, reports'[i].price)
                      /\ rule = "normal" /\ p = reports'[i].price
                           => lines[reports'[i].id2].id <= order[t].id
    <3>1. \A side \in Sides, p \in Prices : \A t \in mOrders'[side][p] : order'[t].id = order[t].id
      <4>1. \A side \in Sides, p \in Prices : \A t \in mOrders'[side][p] : t \in DOMAIN order
        BY <1>16 DEF IInv, GroupsOK
      <4> QED
        BY <1>11, <4>1
    <3> QED
      BY <1>1, <3>1 DEF TradesOK
  <2>1. /\ t \in mOrders[side][p] /\ t \in DOMAIN order /\ p \in levels[side]
    BY <1>16 DEF IInv, GroupsOK
  <2>2. CASE i \in DOMAIN reports
    BY <1>10, <2>1, <2>2 DEF IInv, TradesOK
  <2>3. CASE i = k
    <3>1. reports'[i].id2 = b /\ reports'[i].price = at
      BY <1>10, <2>3
    <3>2. lines[b].id = b /\ lines[b].side = There
      BY <1>9, <1>10, <1>11 DEF IInv, EntriesOK
    <3>3. side = There
      BY <3>1, <3>2
    <3>4. ~Better(side, p, at)
      BY <1>1, <2>1, <3>3 DEF IInv, GroupsOK
    <3>5. ASSUME rule = "normal", p = at PROVE b <= order[t].id
      <4>1. ~(order[t].id < order[s].id)
        BY <1>3, <2>1, <3>3, <3>5 DEF Sooner
      <4>2. order[t].id \in Int /\ order[s].id \in Int
        <5>1. order[t].id \in DOMAIN lines /\ order[s].id \in DOMAIN lines
          BY <1>11, <2>1 DEF IInv, EntriesOK
        <5> QED
          BY <5>1 DEF IInv, KindsOK
      <4> QED
        BY <1>9, <4>1, <4>2
    <3> QED
      BY <3>1, <3>2, <3>4, <3>5
  <2> QED
    BY <1>10, <2>2, <2>3
<1>20. PointersOK'
  BY <1>1, <1>9, <1>10, <1>11 DEF IInv, PointersOK
<1> QED
  BY <1>6, <1>7, <1>8, <1>13, <1>14, <1>15, <1>17, <1>18, <1>19, <1>20 DEF IInv

(***************************************************************************)
(* A group is left                                                         *)
(***************************************************************************)

\* What leaving it does to each level and group; under the normal rule it
\* goes exactly if it is empty.
Leaving ==
  /\ There \in Sides /\ at \in Prices /\ in \in DOMAIN order
  /\ levels' \in [Sides -> SUBSET Prices]
  /\ mOrders' \in [Sides -> [Prices -> SUBSET Slots]]
  /\ mTotalQty' \in [Sides -> [Prices -> Nat]]
  /\ mLeavesQty' = mLeavesQty
  /\ levels'[There] = IF UsedUp THEN levels[There] \ {at} ELSE levels[There]
  /\ mOrders'[There][at] = IF UsedUp THEN {} ELSE mOrders[There][at]
  /\ \A side \in Sides : side # There => levels'[side] = levels[side]
  /\ \A side \in Sides, p \in Prices :
       side # There \/ p # at => mOrders'[side][p] = mOrders[side][p]
  /\ rule = "normal" => (UsedUp <=> mOrders[There][at] = {})
  /\ There' = There

LEMMA GroupIsLeft == ASSUME IInv, NextGroup PROVE Leaving
<1>1. pc = "match" /\ UNCHANGED <<rule, lines, index, order, mLeavesQty, in, full>>
  BY DEF NextGroup
<1>2. in \in DOMAIN order /\ at \in levels[There] /\ order \in [DOMAIN order -> Records]
  BY <1>1 DEF IInv, PlaceOK, KindsOK
<1>3. There \in Sides
  BY <1>2 DEF Records, There, Other, Sides
<1>4. at \in Prices
  BY <1>2, <1>3 DEF IInv, KindsOK
<1>5. /\ levels \in [Sides -> SUBSET Prices]
      /\ mOrders \in [Sides -> [Prices -> SUBSET Slots]]
      /\ mTotalQty \in [Sides -> [Prices -> Nat]]
  BY DEF IInv, KindsOK
<1>6. /\ levels' = IF UsedUp THEN [levels EXCEPT ![There] = @ \ {at}] ELSE levels
      /\ mOrders' = IF UsedUp THEN [mOrders EXCEPT ![There][at] = {}] ELSE mOrders
      /\ mTotalQty' = IF UsedUp THEN [mTotalQty EXCEPT ![There][at] = 0] ELSE mTotalQty
  BY DEF NextGroup, Erased
<1>7. /\ levels' \in [Sides -> SUBSET Prices]
      /\ levels'[There] = IF UsedUp THEN levels[There] \ {at} ELSE levels[There]
      /\ \A side \in Sides : side # There => levels'[side] = levels[side]
  BY <1>3, <1>5, <1>6
<1>8. /\ mOrders' \in [Sides -> [Prices -> SUBSET Slots]]
      /\ mOrders'[There][at] = IF UsedUp THEN {} ELSE mOrders[There][at]
      /\ \A side \in Sides, p \in Prices :
           side # There \/ p # at => mOrders'[side][p] = mOrders[side][p]
  BY <1>3, <1>4, <1>5, <1>6
<1>9. mTotalQty' \in [Sides -> [Prices -> Nat]]
  BY <1>3, <1>4, <1>5, <1>6
<1>10. ASSUME rule = "normal" PROVE UsedUp <=> mOrders[There][at] = {}
  <2>1. UsedUp <=> Total(Leaves, mOrders[There][at]) = 0
    BY <1>3, <1>4, <1>10 DEF IInv, SumsOK, UsedUp
  <2>2. ASSUME NEW s \in mOrders[There][at] PROVE ~UsedUp
    <3>1. order[s].leaves > 0 /\ s \in DOMAIN order
      BY <1>3, <1>4, <1>10 DEF IInv, GroupsOK
    <3>2. /\ Leaves[s] = order[s].leaves /\ Leaves[s] \in Nat
          /\ \A t \in mOrders[There][at] : Leaves[t] \in Nat
      BY <1>3, <1>4, <3>1, LeavesAreNat DEF IInv
    <3>3. IsFiniteSet(mOrders[There][at])
      BY <1>3, <1>4, Finite DEF IInv
    <3>4. Leaves[s] <= Total(Leaves, mOrders[There][at])
      BY <3>2, <3>3, TotalCovers
    <3>5. Total(Leaves, mOrders[There][at]) \in Nat
      BY <3>2, <3>3, TotalNat
    <3>6. Total(Leaves, mOrders[There][at]) # 0
      BY <3>1, <3>2, <3>4, <3>5
    <3> QED
      BY <2>1, <3>6
  <2> QED
    BY <2>1, <2>2, TotalEmpty
<1>11. There' = There
  BY <1>1 DEF There
<1> QED
  BY <1>1, <1>2, <1>3, <1>4, <1>7, <1>8, <1>9, <1>10, <1>11 DEF Leaving

\* Under the normal rule the levels left are those behind.
LEMMA BehindAreLeft ==
  ASSUME IInv, NextGroup, Leaving, rule = "normal", ~full
  PROVE  levels'[There] = Behind
<1>1. pc = "match" /\ mOrders[There][at] = {}
  BY DEF NextGroup
<1>2. levels'[There] = levels[There] \ {at} /\ levels[There] \subseteq Prices
  BY <1>1 DEF Leaving, IInv, KindsOK
<1>3. ASSUME NEW p \in levels[There], p # at PROVE Better(There, at, p)
  <2>1. p \in Nat /\ at \in Nat
    BY <1>2, PricesAreNumbers DEF Leaving
  <2>2. mOrders[There][p] # {}
    BY <1>3 DEF IInv, LevelsOK, Leaving
  <2>3. ~Better(There, p, at)
    BY <1>1, <2>2 DEF IInv, GroupsOK
  <2> QED
    BY <1>3, <2>1, <2>3 DEF Better
<1>4. at \in Nat
  BY PricesAreNumbers DEF Leaving
<1>5. ~Better(There, at, at)
  BY <1>4 DEF Better
<1> QED
  BY <1>2, <1>3, <1>5 DEF Behind

LEMMA NextGroupKeeps == IInv /\ NextGroup => IInv'
<1> SUFFICES ASSUME IInv, NextGroup PROVE IInv'
  OBVIOUS
<1>1. /\ pc = "match" /\ (full \/ mOrders[There][at] = {})
      /\ UNCHANGED <<rule, lines, index, order, mLeavesQty, in, full, target,
                     reports, account>>
  BY DEF NextGroup
<1>2. Leaving
  BY GroupIsLeft
<1>3. rule \in {"normal", "auction"} /\ in \in DOMAIN order /\ index \in Int
  <2>1. rule \in {"normal", "auction"} /\ index \in Int
    BY DEF IInv, KindsOK
  <2>2. in \in DOMAIN order
    BY <1>1 DEF IInv, PlaceOK
  <2> QED
    BY <2>1, <2>2
<1>4. \/ /\ pc' = "auction" /\ rule = "auction" /\ todo' = todo \ {in} /\ at' = None
      \/ /\ pc' = "read" /\ rule = "normal" /\ todo' = todo \ {in} /\ at' = None
      \/ /\ pc' = "rest" /\ rule = "normal" /\ todo' = todo \ {in} /\ at' = None /\ ~full
         /\ (Behind = {} \/ OutOfReach(order[in], Best(There, Behind)))
      \/ /\ pc' = "match" /\ todo' = todo /\ ~full
         /\ Behind # {} /\ at' = Best(There, Behind)
  BY <1>1, <1>3 DEF NextGroup, Return
<1>5. Behind \subseteq levels[There] /\ Behind \subseteq Prices /\ at \notin Behind
  <2>1. levels[There] \subseteq Prices
    BY <1>2 DEF Leaving, IInv, KindsOK
  <2>2. at \in Nat
    BY <1>2, PricesAreNumbers DEF Leaving
  <2> QED
    BY <2>1, <2>2 DEF Behind, Better
<1>6. Behind # {} => /\ Best(There, Behind) \in Behind
                     /\ \A q \in Behind \ {Best(There, Behind)} :
                          Better(There, Best(There, Behind), q)
  BY <1>2, <1>5, BestIsBest DEF Leaving
<1>7. \A side \in Sides, p \in Prices : mOrders'[side][p] \subseteq mOrders[side][p]
  BY <1>2 DEF Leaving
<1>8. KindsOK'
  <2>1. at' \in Prices \union {None} /\ pc' \in {"read", "rest", "match", "auction"}
    BY <1>4, <1>5, <1>6
  <2>2. todo' \subseteq DOMAIN order'
    BY <1>1, <1>4 DEF IInv, KindsOK
  <2> QED
    BY <1>1, <1>2, <2>1, <2>2 DEF IInv, KindsOK, Leaving
<1>9. EntriesOK'
  BY <1>1 DEF IInv, EntriesOK
<1>10. PlaceOK'
  <2>1. pc' = "match" => at' \in levels'[There]
    BY <1>2, <1>4, <1>5, <1>6 DEF Leaving
  <2>2. There' = There
    BY <1>2 DEF Leaving
  <2>3. rule = "normal" =>
          /\ todo' = {} /\ pc' # "auction"
          /\ in = index /\ order[in].id = Len(lines) /\ index < Len(lines)
          /\ ~full => order[in].leaves > 0
    <3>1. rule = "normal" =>
            /\ todo = {} /\ in = index /\ order[in].id = Len(lines) /\ index < Len(lines)
            /\ ~full => order[in].leaves > 0
      BY <1>1 DEF IInv, PlaceOK
    <3>2. rule = "normal" => pc' # "auction" /\ (todo' = todo \ {in} \/ todo' = todo)
      BY <1>4
    <3> QED
      BY <3>1, <3>2
  <2>4. rule = "auction" =>
          /\ pc' \in {"auction", "match"}
          /\ pc' = "match" => in \in todo' /\ ~full
          /\ \A s \in todo' : order[s].side = "BUY" /\ s < index
    <3>1. rule = "auction" =>
            in \in todo /\ \A s \in todo : order[s].side = "BUY" /\ s < index
      BY <1>1 DEF IInv, PlaceOK
    <3>2. todo' \subseteq todo /\ (pc' = "match" => todo' = todo /\ ~full)
      BY <1>4
    <3>3. rule = "auction" => pc' \in {"auction", "match"}
      BY <1>4
    <3> QED
      BY <3>1, <3>2, <3>3
  <2>5. pc' \in {"match", "rest"} => ~full
    BY <1>4
  <2> QED
    BY <1>1, <1>3, <2>1, <2>2, <2>3, <2>4, <2>5 DEF PlaceOK
<1>11. GroupsOK'
  <2>1. ASSUME NEW side \in Sides, NEW p \in Prices, mOrders'[side][p] # {}
        PROVE  p \in levels'[side]
    <3>1. p \in levels[side]
      BY <1>7, <2>1 DEF IInv, GroupsOK
    <3> QED
      BY <1>2, <2>1, <3>1 DEF Leaving
  <2>2. ASSUME pc' = "match", NEW p \in levels'[There], Better(There, p, at')
        PROVE  mOrders'[There][p] = {}
    <3>1. ~full /\ mOrders[There][at] = {} /\ at' = Best(There, Behind) /\ Behind # {}
      BY <1>1, <1>4, <2>2
    <3>2. p \in levels[There] /\ p \in Prices
      BY <1>2 DEF Leaving
    <3>3. p \in Nat /\ at \in Nat /\ at' \in Nat
      BY <1>2, <1>5, <1>6, <3>1, <3>2, PricesAreNumbers DEF Leaving
    <3>4. CASE p = at
      BY <1>2, <1>7, <3>1, <3>4 DEF Leaving
    <3>5. CASE Better(There, p, at)
      <4>1. mOrders[There][p] = {}
        BY <1>1, <3>2, <3>5 DEF IInv, GroupsOK
      <4> QED
        BY <1>2, <1>7, <3>2, <4>1 DEF Leaving
    <3>6. CASE Better(There, at, p)
      <4>1. p \in Behind
        BY <3>2, <3>6 DEF Behind
      <4>2. p = at' \/ Better(There, at', p)
        BY <1>6, <3>1, <4>1
      <4> QED
        BY <2>2, <3>3, <4>2 DEF Better
    <3> QED
      BY <3>3, <3>4, <3>5, <3>6 DEF Better
  <2>3. There' = There
    BY <1>2 DEF Leaving
  <2>4. ASSUME NEW side \in Sides, NEW p \in Prices, NEW s \in mOrders'[side][p]
        PROVE  /\ s \in DOMAIN order /\ s < index /\ order[s].side = side
               /\ order[s].price = p /\ (rule = "normal" => order[s].leaves > 0)
    BY <1>7 DEF IInv, GroupsOK
  <2> QED
    BY <1>1, <2>1, <2>2, <2>3, <2>4 DEF GroupsOK
<1>12. LevelsOK'
  <2>1. ASSUME rule = "normal", NEW side \in Sides, NEW p \in levels'[side]
        PROVE  mOrders'[side][p] # {}
    <3>1. p \in levels[side] /\ p \in Prices
      BY <1>2 DEF Leaving
    <3>2. CASE side = There /\ p = at
      BY <1>2, <2>1, <3>2 DEF Leaving
    <3>3. CASE ~(side = There /\ p = at)
      <4>1. mOrders'[side][p] = mOrders[side][p]
        BY <1>2, <3>1, <3>3 DEF Leaving
      <4>2. mOrders[side][p] # {}
        BY <2>1, <3>1, <3>3 DEF IInv, LevelsOK
      <4> QED
        BY <4>1, <4>2
    <3> QED
      BY <3>2, <3>3
  <2>2. \A side \in Sides : levels'[side] \subseteq levels[side]
    BY <1>2 DEF Leaving
  <2>3. ASSUME pc' = "rest", NEW p \in levels'[There] PROVE OutOfReach(order[in], p)
    <3>1. rule = "normal" /\ ~full
      BY <1>4, <2>3
    <3>2. p \in Behind
      BY <1>2, <3>1, BehindAreLeft
    <3>3. PICK b : b = Best(There, Behind)
      OBVIOUS
    <3>4. OutOfReach(order[in], b) /\ b \in Behind /\ (p # b => Better(There, b, p))
      BY <1>4, <1>6, <2>3, <3>2, <3>3
    <3>5. order[in].price \in Prices
      <4>1. order[in] \in Records
        BY <1>3 DEF IInv, KindsOK
      <4> QED
        BY <4>1 DEF Records
    <3>6. p \in Nat /\ b \in Nat /\ order[in].price \in Nat
      BY <1>5, <3>2, <3>4, <3>5, PricesAreNumbers
    <3> QED
      BY <3>4, <3>6 DEF OutOfReach, Better, There
  <2>4. There' = There
    BY <1>2 DEF Leaving
  <2>5. rule = "normal" => \A b \in levels'["BUY"], s \in levels'["SELL"] : b < s
    BY <2>2 DEF IInv, LevelsOK, Sides
  <2> QED
    BY <1>1, <2>1, <2>3, <2>4, <2>5 DEF LevelsOK
<1>13. SumsOK'
  <2>1. Leaves' = Leaves
    BY <1>1 DEF Leaves
  <2>2. ASSUME NEW side \in Sides, NEW p \in Prices
        PROVE  /\ mLeavesQty'[side][p] >= Total(Leaves, mOrders'[side][p])
               /\ rule = "normal" => mLeavesQty'[side][p] = Total(Leaves, mOrders'[side][p])
    <3>1. CASE side = There /\ p = at /\ UsedUp
      <4>1. mLeavesQty'[side][p] = 0 /\ mOrders'[side][p] = {}
        BY <1>2, <3>1 DEF Leaving, UsedUp
      <4> QED
        BY <4>1, TotalEmpty
    <3>2. CASE ~(side = There /\ p = at /\ UsedUp)
      <4>1. mOrders'[side][p] = mOrders[side][p] /\ mLeavesQty'[side][p] = mLeavesQty[side][p]
        BY <1>2, <3>2 DEF Leaving
      <4> QED
        BY <4>1 DEF IInv, SumsOK
    <3> QED
      BY <3>1, <3>2
  <2>3. ~(rule = "auction" /\ pc' = "read")
    BY <1>4
  <2> QED
    BY <1>1, <2>1, <2>2, <2>3 DEF SumsOK
<1>14. TradesOK'
  BY <1>1, <1>7 DEF IInv, TradesOK
<1>15. PointersOK'
  BY <1>1 DEF IInv, PointersOK
<1>16. ReportsComplete' /\ Finishing' = Finishing
  BY <1>1 DEF IInv, ReportsComplete, Finishing, FilledQty, Traded, Mentions, LinesOf
<1>17. CountOK'
  <2>1. \A s : Unreported(s)' = Unreported(s)
    BY <1>1 DEF Unreported, Mentions
  <2>2. \A p \in Prices : \A s \in mOrders'["SELL"][p] : Unreported(s)
    BY <1>7 DEF IInv, CountOK, Sides
  <2>3. \A s \in todo' : (pc' = "match" /\ s = in => ~full) => Unreported(s)
    BY <1>1, <1>4 DEF IInv, CountOK
  <2> QED
    BY <1>1, <1>16, <2>1, <2>2, <2>3 DEF IInv, CountOK
<1> QED
  BY <1>8, <1>9, <1>10, <1>11, <1>12, <1>13, <1>14, <1>15, <1>16, <1>17 DEF IInv

(***************************************************************************)
(* The auction                                                             *)
(***************************************************************************)

\* Consolidated totals are numbers, and no less than a level's own.
LEMMA Consolidates ==
  ASSUME KindsOK, NEW side \in Sides
  PROVE  /\ Consolidated(side) \in [Prices -> Nat]
         /\ \A p \in levels[side] : Consolidated(side)[p] >= mTotalQty[side][p]
<1>1. /\ mTotalQty[side] \in [Prices -> Nat]
      /\ levels[side] \subseteq Prices /\ IsFiniteSet(levels[side])
  BY Finite DEF KindsOK
<1>2. ASSUME NEW p \in Prices
      PROVE  /\ SumSofar(side, p) \in Nat
             /\ p \in levels[side] => SumSofar(side, p) >= mTotalQty[side][p]
  <2>1. PICK S : S = {q \in levels[side] : ~Better(side, p, q)}
    OBVIOUS
  <2>2. IsFiniteSet(S) /\ \A q \in S : mTotalQty[side][q] \in Nat
    BY <1>1, <2>1, FS_Subset
  <2>3. SumSofar(side, p) = Total(mTotalQty[side], S)
    BY <2>1 DEF SumSofar
  <2>4. SumSofar(side, p) \in Nat
    BY <2>2, <2>3, TotalNat
  <2>5. p \in levels[side] => p \in S
    <3>1. p \in Nat
      BY PricesAreNumbers
    <3> QED
      BY <2>1, <3>1 DEF Better
  <2>6. p \in S => mTotalQty[side][p] <= Total(mTotalQty[side], S)
    BY <2>2, TotalCovers
  <2>7. mTotalQty[side][p] \in Nat
    BY <1>1
  <2> QED
    BY <2>3, <2>4, <2>5, <2>6, <2>7
<1> QED
  BY <1>1, <1>2 DEF Consolidated

LEMMA UncrossKeeps == IInv /\ Uncross => IInv'
<1> SUFFICES ASSUME IInv, Uncross PROVE IInv'
  OBVIOUS
<1>1. /\ rule = "auction" /\ pc = "read" /\ pc' = "auction" /\ reports = <<>> /\ index = Len(lines)
      /\ UNCHANGED <<rule, lines, index, order, levels, mOrders, in, at, full,
                     reports, account>>
  BY DEF Uncross, IInv, PlaceOK
<1>2. /\ mTotalQty' = [s \in Sides |-> Consolidated(s)]
      /\ mLeavesQty' = [mLeavesQty EXCEPT !["SELL"] = Consolidated("SELL")]
  BY DEF Uncross, Restored
<1>3. \A side \in Sides :
        /\ Consolidated(side) \in [Prices -> Nat]
        /\ \A p \in levels[side] : Consolidated(side)[p] >= mTotalQty[side][p]
  BY Consolidates DEF IInv
<1>4. /\ mTotalQty' \in [Sides -> [Prices -> Nat]]
      /\ mLeavesQty' \in [Sides -> [Prices -> Nat]]
      /\ mLeavesQty'["SELL"] = Consolidated("SELL")
      /\ mLeavesQty'["BUY"] = mLeavesQty["BUY"]
  <2>1. mLeavesQty \in [Sides -> [Prices -> Nat]] /\ "SELL" \in Sides /\ "BUY" \in Sides
    BY DEF IInv, KindsOK, Sides
  <2> QED
    BY <1>2, <1>3, <2>1
<1>5. target' \in Prices \union {None}
  <2>1. \A best : best \subseteq levels["BUY"] /\ best # {} => Max(best) \in best
    <3>1. levels["BUY"] \subseteq Prices
      BY DEF IInv, KindsOK, Sides
    <3> QED
      BY <3>1, PricesAreNumbers, MaxIsIn
  <2>2. levels["BUY"] \subseteq Prices
    BY DEF IInv, KindsOK, Sides
  <2>3. target' = TargetPrice
    BY DEF Uncross
  <2>4. PICK best : /\ best \subseteq levels["BUY"]
                    /\ TargetPrice = IF best = {} THEN None ELSE Max(best)
    <3>1. {p \in levels["BUY"] :
             /\ p * CrossQty(p) > 0
             /\ \A q \in levels["BUY"] : q * CrossQty(q) <= p * CrossQty(p)}
            \subseteq levels["BUY"]
      OBVIOUS
    <3> QED
      BY <3>1 DEF TargetPrice
  <2> QED
    BY <2>1, <2>2, <2>3, <2>4
<1>6. ASSUME NEW s \in todo'
      PROVE  s \in DOMAIN order /\ order[s].side = "BUY" /\ s < index
  <2>1. PICK p \in levels["BUY"] : s \in mOrders["BUY"][p]
    BY DEF Uncross
  <2>2. p \in Prices /\ "BUY" \in Sides
    BY DEF IInv, KindsOK, Sides
  <2> QED
    BY <2>1, <2>2 DEF IInv, GroupsOK
<1>7. KindsOK'
  <2>1. todo' \subseteq DOMAIN order' /\ pc' \in {"read", "rest", "match", "auction"}
    BY <1>1, <1>6
  <2> QED
    BY <1>1, <1>4, <1>5, <2>1 DEF IInv, KindsOK
<1>8. EntriesOK'
  BY <1>1 DEF IInv, EntriesOK
<1>9. PlaceOK'
  BY <1>1, <1>6 DEF PlaceOK
<1>10. GroupsOK'
  BY <1>1 DEF IInv, GroupsOK
<1>11. LevelsOK'
  BY <1>1 DEF LevelsOK
<1>12. SumsOK'
  <2>1. Leaves' = Leaves
    BY <1>1 DEF Leaves
  <2>2. ASSUME NEW p \in Prices
        PROVE  mLeavesQty'["SELL"][p] >= Total(Leaves, mOrders["SELL"][p])
    <3>0. "SELL" \in Sides
      BY DEF Sides
    <3>1. CASE p \in levels["SELL"]
      <4>1. PICK x, y, z, t : /\ x = mLeavesQty'["SELL"][p] /\ y = mTotalQty["SELL"][p]
                              /\ z = mLeavesQty["SELL"][p]
                              /\ t = Total(Leaves, mOrders["SELL"][p])
        OBVIOUS
      <4>2. x >= y /\ x \in Nat
        BY <1>3, <1>4, <3>0, <3>1, <4>1
      <4>3. y >= z /\ z >= t
        BY <1>1, <3>0, <4>1 DEF IInv, SumsOK
      <4>4. y \in Nat /\ z \in Nat
        BY <3>0, <4>1, QuantitiesAreNat DEF IInv
      <4>5. t \in Nat
        <5>1. /\ IsFiniteSet(mOrders["SELL"][p])
              /\ \A s \in mOrders["SELL"][p] : Leaves[s] \in Nat
          BY <3>0, Finite, LeavesAreNat DEF IInv
        <5> QED
          BY <4>1, <5>1, TotalNat
      <4> QED
        BY <4>1, <4>2, <4>3, <4>4, <4>5
    <3>2. CASE p \notin levels["SELL"]
      <4>1. mOrders["SELL"][p] = {}
        BY <3>0, <3>2 DEF IInv, GroupsOK
      <4>2. mLeavesQty'["SELL"][p] \in Nat
        BY <1>4, <3>0
      <4> QED
        BY <4>1, <4>2, TotalEmpty
    <3> QED
      BY <3>1, <3>2
  <2>3. \A p \in Prices : mLeavesQty'["BUY"][p] >= Total(Leaves, mOrders["BUY"][p])
    BY <1>4 DEF IInv, SumsOK, Sides
  <2> QED
    BY <1>1, <2>1, <2>2, <2>3 DEF SumsOK, Sides
<1>13. TradesOK' /\ PointersOK'
  BY <1>1 DEF TradesOK, PointersOK
<1>14. ReportsComplete' /\ Finishing' = Finishing
  BY SMTT(20), <1>1 DEF IInv, ReportsComplete, Finishing, FilledQty, Traded, Mentions, LinesOf
<1>15. CountOK'
  <2>1. \A s : Unreported(s)'
    BY <1>1 DEF Unreported, Mentions
  <2> QED
    BY <1>1, <1>14, <2>1 DEF IInv, CountOK
<1> QED
  BY <1>7, <1>8, <1>9, <1>10, <1>11, <1>12, <1>13, <1>14, <1>15 DEF IInv

LEMMA NextBuyKeeps == IInv /\ NextBuy => IInv'
<1> SUFFICES ASSUME IInv, NextBuy PROVE IInv'
  OBVIOUS
<1>1. /\ pc = "auction" /\ full' = FALSE
      /\ UNCHANGED <<rule, lines, index, order, book, target, reports, account>>
  BY DEF NextBuy
<1>2. rule = "auction"
  BY <1>1 DEF IInv, KindsOK, PlaceOK
<1>3. PICK s \in todo :
        /\ in' = s
        /\ \/ /\ Meets(order[s]) /\ pc' = "match" /\ todo' = todo
              /\ at' = Best("SELL", levels["SELL"])
           \/ pc' = "auction" /\ todo' = todo \ {s} /\ at' = at
  <2>1. PICK S : S = {t \in todo : order[t].price = Max({order[u].price : u \in todo})}
    OBVIOUS
  <2>2. PICK s \in Front(S) :
          /\ in' = s
          /\ IF Meets(order[s])
             THEN pc' = "match" /\ at' = Best("SELL", levels["SELL"]) /\ todo' = todo
             ELSE todo' = todo \ {s} /\ pc' = pc /\ at' = at
    BY <2>1 DEF NextBuy
  <2>3. s \in todo
    BY <2>1 DEF Front
  <2> QED
    BY <1>1, <2>2, <2>3
<1>4. s \in DOMAIN order /\ order[s].side = "BUY" /\ There' = "SELL" /\ Other(order[s].side) = "SELL"
  BY <1>1, <1>2, <1>3 DEF IInv, KindsOK, PlaceOK, There, Other
<1>5. pc' = "match" => /\ at' \in levels["SELL"] /\ at' \in Prices
                       /\ \A p \in levels["SELL"] \ {at'} : Better("SELL", at', p)
  <2>1. levels["SELL"] \subseteq Prices /\ "SELL" \in Sides
    BY DEF IInv, KindsOK, Sides
  <2>2. pc' = "match" => levels["SELL"] # {} /\ at' = Best("SELL", levels["SELL"])
    BY <1>3, <1>4 DEF Meets
  <2> QED
    BY <2>1, <2>2, BestIsBest
<1>6. todo' \subseteq todo /\ pc' \in {"match", "auction"} /\ (pc' = "match" => s \in todo')
  BY <1>3
<1>7. KindsOK'
  <2>1. at' \in Prices \union {None} /\ in' \in Slots \union {0}
    BY <1>3, <1>4, <1>5 DEF IInv, KindsOK
  <2>2. todo' \subseteq DOMAIN order' /\ pc' \in {"read", "rest", "match", "auction"} /\ full' \in BOOLEAN
    BY <1>1, <1>6 DEF IInv, KindsOK
  <2> QED
    BY <1>1, <2>1, <2>2 DEF IInv, KindsOK, book
<1>8. EntriesOK'
  BY <1>1 DEF IInv, EntriesOK
<1>9. PlaceOK'
  <2>1. \A t \in todo' : order[t].side = "BUY" /\ t < index
    BY <1>2, <1>6 DEF IInv, PlaceOK
  <2> QED
    BY <1>1, <1>2, <1>3, <1>4, <1>5, <1>6, <2>1 DEF PlaceOK, book
<1>10. GroupsOK'
  <2>1. ASSUME pc' = "match", NEW p \in levels["SELL"], Better("SELL", p, at') PROVE FALSE
    <3>1. p \in Nat /\ at' \in Nat
      BY <1>5, <2>1, PricesAreNumbers DEF IInv, KindsOK, Sides
    <3>2. p = at' \/ Better("SELL", at', p)
      BY <1>5, <2>1
    <3> QED
      BY <2>1, <3>1, <3>2 DEF Better
  <2> QED
    BY <1>1, <1>4, <2>1 DEF IInv, GroupsOK, book
<1>11. LevelsOK'
  BY <1>1, <1>2, <1>6 DEF LevelsOK
<1>12. SumsOK'
  <2>1. Leaves' = Leaves
    BY <1>1 DEF Leaves
  <2> QED
    BY <1>1, <1>2, <1>6, <2>1 DEF IInv, SumsOK, book
<1>13. TradesOK' /\ PointersOK'
  BY <1>1 DEF IInv, TradesOK, PointersOK, book
<1>14. ReportsComplete' /\ Finishing' = Finishing
  BY <1>1 DEF IInv, ReportsComplete, Finishing, FilledQty, Traded, Mentions, LinesOf
<1>15. CountOK'
  <2>1. \A t : Unreported(t)' = Unreported(t)
    BY <1>1 DEF Unreported, Mentions
  <2>2. \A t \in todo : Unreported(t)
    BY <1>1 DEF IInv, CountOK
  <2> QED
    BY <1>1, <1>6, <1>14, <2>1, <2>2 DEF IInv, CountOK, book
<1> QED
  BY <1>7, <1>8, <1>9, <1>10, <1>11, <1>12, <1>13, <1>14, <1>15 DEF IInv

(***************************************************************************)
(* The theorems                                                            *)
(***************************************************************************)

LEMMA Inductive == Spec => []IInv
<1>1. IInv /\ [Next]_vars => IInv'
  <2> SUFFICES ASSUME IInv, [Next]_vars PROVE IInv'
    OBVIOUS
  <2>1. CASE Next
    BY <2>1, ReadKeeps, RestKeeps, MatchOrderKeeps, NextGroupKeeps, UncrossKeeps,
       NextBuyKeeps DEF Next
  <2>2. CASE UNCHANGED vars
    <3>1. /\ UNCHANGED <<rule, pc, lines, index, order, levels, mOrders, mTotalQty,
                         mLeavesQty, in, at, full, todo, target, reports, account>>
      BY <2>2 DEF vars, book
    <3>2. UNCHANGED <<There, Leaves, FilledQty, Finishing>>
      BY <3>1 DEF There, Leaves, FilledQty, Finishing, Traded, Mentions
    <3>3. KindsOK' /\ EntriesOK' /\ PlaceOK'
      BY <3>1, <3>2 DEF IInv, KindsOK, EntriesOK, PlaceOK
    <3>4. GroupsOK' /\ LevelsOK' /\ SumsOK'
      BY <3>1, <3>2 DEF IInv, GroupsOK, LevelsOK, SumsOK
    <3>5. TradesOK' /\ PointersOK' /\ ReportsComplete'
      BY <3>1, <3>2 DEF IInv, TradesOK, PointersOK, ReportsComplete, LinesOf
    <3>6. CountOK'
      BY <3>1, <3>2 DEF IInv, CountOK, Unreported, Mentions
    <3> QED
      BY <3>3, <3>4, <3>5, <3>6 DEF IInv
  <2> QED
    BY <2>1, <2>2
<1> QED
  BY <1>1, Initially, PTL DEF Spec

LEMMA BooksFollow == IInv => BooksExact
<1> SUFFICES ASSUME IInv, rule = "normal", pc = "read"
             PROVE  LevelsExact /\ NotCrossed
  BY DEF BooksExact, LevelsExact, NotCrossed
<1>1. NotCrossed
  BY DEF IInv, LevelsOK, NotCrossed
<1>2. ASSUME NEW side \in Sides, NEW p \in Prices
      PROVE  /\ p \in levels[side] <=> mOrders[side][p] # {}
             /\ mLeavesQty[side][p] = Total(Leaves, mOrders[side][p])
             /\ \A s \in mOrders[side][p] :
                  order[s].leaves > 0 /\ order[s].price = p /\ order[s].side = side
  <2>1. p \in levels[side] <=> mOrders[side][p] # {}
    BY DEF IInv, GroupsOK, LevelsOK
  <2>2. mLeavesQty[side][p] = Total(Leaves, mOrders[side][p])
    BY DEF IInv, SumsOK
  <2>3. \A s \in mOrders[side][p] :
          order[s].leaves > 0 /\ order[s].price = p /\ order[s].side = side
    BY DEF IInv, GroupsOK
  <2> QED
    BY <2>1, <2>2, <2>3
<1> QED
  BY <1>1, <1>2 DEF LevelsExact

\* Under the normal rule, whatever the file says: between two lines the books
\* say what their orders say, and nothing in them could still trade
\* (OrderGroup::match, Book::match and Book::addOrder).
THEOREM BooksCorrect == Spec => []BooksExact
  BY Inductive, BooksFollow, PTL

LEMMA PriorityFollows == IInv => Priority
<1> SUFFICES ASSUME IInv PROVE Priority
  OBVIOUS
<1>1. \A side \in Sides : levels[side] \subseteq Prices
  BY DEF IInv, KindsOK
<1> QED
  BY <1>1 DEF IInv, TradesOK, Priority

\* Price and time priority, under either rule: no trade has passed over an
\* order that is still in a book (Book::match and OrderGroup::sortForAuction).
THEOREM PriorityCorrect == Spec => []Priority
  BY Inductive, PriorityFollows, PTL

LEMMA TypesFollow == IInv => TypeOK
<1> SUFFICES ASSUME IInv PROVE TypeOK
  OBVIOUS
<1>1. ASSUME NEW r \in Records PROVE r \in Entry(r.id)
  BY DEF Records, Entry
<1>2. \A n \in DOMAIN lines : lines[n] \in Entry(n)
  <2>1. \A n \in DOMAIN lines : lines[n] \in Records /\ lines[n].id = n
    BY DEF IInv, KindsOK, EntriesOK
  <2> QED
    BY <1>1, <2>1
<1>3. \A s \in DOMAIN order : \E n \in DOMAIN lines : order[s] \in Entry(n)
  <2>1. \A s \in DOMAIN order : order[s] \in Records /\ order[s].id \in DOMAIN lines
    BY DEF IInv, KindsOK, EntriesOK
  <2> QED
    BY <1>1, <2>1
<1>4. mOrders \in [Sides -> [Prices -> SUBSET DOMAIN order]]
  <2>1. mOrders \in [Sides -> [Prices -> SUBSET Slots]]
    BY DEF IInv, KindsOK
  <2>2. \A side \in Sides, p \in Prices : mOrders[side][p] \in SUBSET DOMAIN order
    BY LeavesAreNat DEF IInv
  <2>3. \A side \in Sides : mOrders[side] \in [Prices -> SUBSET DOMAIN order]
    BY <2>1, <2>2
  <2> QED
    BY <2>1, <2>3
<1>5. reports \in Seq([id1 : DOMAIN lines, id2 : DOMAIN lines, ptr1 : Slots, ptr2 : Slots,
                       qty : 0 .. MaxQty, price : Prices])
  <2>1. PICK R : R = [id1 : DOMAIN lines, id2 : DOMAIN lines, ptr1 : Slots, ptr2 : Slots,
                      qty : 0 .. MaxQty, price : Prices]
    OBVIOUS
  <2>2. reports \in Seq(Fills) /\ \A i \in 1 .. Len(reports) : reports[i] \in Fills
    BY DEF IInv, KindsOK
  <2>3. \A i \in 1 .. Len(reports) :
          reports[i].id1 \in DOMAIN lines /\ reports[i].id2 \in DOMAIN lines
    BY <2>2 DEF IInv, PointersOK
  <2>4. \A i \in 1 .. Len(reports) : reports[i] \in R
    BY <2>1, <2>2, <2>3 DEF Fills
  <2>5. reports \in [1 .. Len(reports) -> R] /\ Len(reports) \in Nat
    BY <2>2, <2>4
  <2>6. reports \in Seq(R)
    BY <2>5, SeqDef
  <2> QED
    BY <2>1, <2>6
<1> QED
  BY <1>2, <1>3, <1>4, <1>5 DEF IInv, KindsOK, TypeOK

LEMMA ReportsFollow == IInv => ReportsExact
<1> SUFFICES ASSUME IInv PROVE ReportsExact
  OBVIOUS
<1>1. PointersLead
  BY DEF IInv, PointersOK, PointersLead
<1>2. ReportsFit
  <2>1. DOMAIN lines = 1 .. Len(lines) /\ Len(lines) \in Nat /\ Len(reports) \in Nat
    BY DEF IInv, KindsOK
  <2>2. IsFiniteSet(DOMAIN lines) /\ Cardinality(DOMAIN lines) = Len(lines)
    <3>1. PICK n : n = Len(lines)
      OBVIOUS
    <3>2. n \in Int /\ 1 \in Int /\ n \in Nat
      BY <2>1, <3>1
    <3>3. IsFiniteSet(1 .. n) /\ Cardinality(1 .. n) = IF 1 > n THEN 0 ELSE n - 1 + 1
      BY <3>2, FS_Interval
    <3>4. Cardinality(1 .. n) = n
      BY <3>2, <3>3
    <3> QED
      BY <2>1, <3>1, <3>3, <3>4
  <2>3. /\ Finishing \in SUBSET DOMAIN lines
        /\ Len(reports) <= Cardinality(Finishing)
    BY DEF Finishing, IInv, CountOK
  <2>4. IsFiniteSet(Finishing) /\ Cardinality(Finishing) <= Len(lines)
    BY <2>2, <2>3, FS_Subset
  <2>5. Cardinality(Finishing) \in Nat
    BY <2>4, FS_CardinalityType
  <2> QED
    BY <2>1, <2>3, <2>4, <2>5 DEF ReportsFit
<1> QED
  BY <1>1, <1>2, TypesFollow DEF ReportsExact, IInv

\* Reports, entries and accounts agree under either rule, a report's pointer
\* keeps leading to the order it was made of, and there are never more reports
\* than lines (OrderEntry::match, Account::update, ReportManager::addReport).
THEOREM ReportsCorrect == Spec => []ReportsExact
  BY Inductive, ReportsFollow, PTL

LEMMA DropsOnlyThere ==
  IInv /\ [Next]_vars =>
    [rule = "normal" /\ pc = "match" /\ pc' = "read" /\ ~full => levels'[There] = {}]_vars
<1> SUFFICES ASSUME IInv, Next, rule = "normal", pc = "match", pc' = "read", ~full
             PROVE  levels'[There] = {}
  OBVIOUS
<1>1. NextGroup
  BY DEF Next, Read, Rest, MatchOrder, Uncross, NextBuy
<1>2. Behind = {}
  BY <1>1 DEF NextGroup, Return
<1> QED
  BY <1>1, <1>2, GroupIsLeft, BehindAreLeft

\* An order's rest is dropped only when nothing is left on the other side
\* (Book::match, which then looks at the end of the map).
THEOREM DropsCorrect == Spec => DropsOnlyAtTheEnd
  BY Inductive, DropsOnlyThere, PTL DEF Spec, DropsOnlyAtTheEnd

(***************************************************************************)
(* The inductive invariant of the auction                                  *)
(***************************************************************************)

Of(side) == {n \in DOMAIN lines : lines[n].side = side}
Sizes == [n \in DOMAIN lines |-> lines[n].qty]
UpTo(side, p) == {q \in Prices : ~Better(side, p, q)}
Wanting(side, p) == {n \in DOMAIN lines : lines[n].side = side /\ ~Better(side, p, lines[n].price)}

\* Every line is in a slot, and the next slot is free.
SlotsOK ==
  /\ \A n \in DOMAIN lines : \E s \in DOMAIN order : order[s].id = n
  /\ index \notin DOMAIN order

\* While the file is read all orders rest; later a sell leaves its group only
\* when it is filled.
RestingOK ==
  \A s \in DOMAIN order :
    /\ pc = "read" => /\ s \in mOrders[order[s].side][order[s].price]
                      /\ order[s].leaves = order[s].qty
    /\ order[s].side = "SELL" /\ order[s].leaves > 0 =>
         s \in mOrders["SELL"][order[s].price]

\* The groups' totals add up to what the lines want.
DemandOK ==
  pc = "read" =>
    \A side \in Sides, p \in Prices :
      /\ p \notin levels[side] => mTotalQty[side][p] = 0
      /\ Total(mTotalQty[side], UpTo(side, p)) = Wanted(side, p)

\* Each trade has one buy and one sell.
TradedOK ==
  \A side \in Sides : Total(Traded, DOMAIN reports) = Total(FilledQty, Of(side))

TargetOK == pc # "read" => \A p \in Prices : p * Volume(p) <= target * Volume(target)

\* A called buy that has been matched is filled or has taken all it could.
ServedOK ==
  pc # "read" =>
    \A s \in DOMAIN order \ todo :
      order[s].side = "BUY" /\ order[s].price >= target =>
        \/ order[s].leaves = 0
        \/ \A t \in DOMAIN order :
             order[t].side = "SELL" /\ order[t].price <= order[s].price => order[t].leaves = 0

AInv == rule = "auction" => SlotsOK /\ RestingOK /\ DemandOK /\ TradedOK /\ TargetOK /\ ServedOK

\* What a side wants is a finite sum of numbers.
WantsKnown ==
  /\ \A n \in DOMAIN lines : Sizes[n] = lines[n].qty /\ Sizes[n] \in Nat
  /\ \A side \in Sides, p \in Nat :
       /\ Wanted(side, p) = Total(Sizes, Wanting(side, p))
       /\ IsFiniteSet(Wanting(side, p)) /\ Wanting(side, p) \subseteq DOMAIN lines
       /\ Wanted(side, p) \in Nat

LEMMA WantedSums == KindsOK => WantsKnown
<1> SUFFICES ASSUME KindsOK, NEW side \in Sides, NEW p \in Nat
             PROVE  /\ \A n \in DOMAIN lines : Sizes[n] = lines[n].qty /\ Sizes[n] \in Nat
                    /\ Wanted(side, p) = Total(Sizes, Wanting(side, p))
                    /\ IsFiniteSet(Wanting(side, p)) /\ Wanting(side, p) \subseteq DOMAIN lines
                    /\ Wanted(side, p) \in Nat
  BY DEF WantsKnown, Sides
<1>1. Wanted(side, p) = Total(Sizes, Wanting(side, p))
  BY DEF Wanted, Sizes, Wanting
<1>2. Wanting(side, p) \subseteq DOMAIN lines
  BY DEF Wanting
<1>3. IsFiniteSet(Wanting(side, p))
  BY <1>2, Finite
<1>4. \A n \in DOMAIN lines : Sizes[n] = lines[n].qty /\ Sizes[n] \in Nat
  <2>1. \A r \in Records : r.qty \in Nat
    BY MatchingAssumption DEF Records
  <2>2. \A n \in DOMAIN lines : lines[n] \in Records
    BY DEF KindsOK
  <2> QED
    BY <2>1, <2>2 DEF Sizes
<1>5. Total(Sizes, Wanting(side, p)) \in Nat
  BY <1>2, <1>3, <1>4, TotalNat
<1> QED
  BY <1>1, <1>2, <1>3, <1>4, <1>5

\* Nothing reported, nothing filled.
LEMMA NothingTraded == KindsOK /\ reports = <<>> => TradedOK
<1> SUFFICES ASSUME KindsOK, reports = <<>> PROVE TradedOK
  OBVIOUS
<1>1. DOMAIN reports = {} /\ \A n : Mentions(n) = {}
  BY DEF Mentions
<1>2. \A n \in DOMAIN lines : FilledQty[n] = 0
  BY <1>1, TotalEmpty DEF FilledQty
<1>3. ASSUME NEW side \in Sides PROVE Total(FilledQty, Of(side)) = 0
  <2>1. Of(side) \subseteq DOMAIN lines
    BY DEF Of
  <2>2. IsFiniteSet(Of(side)) /\ \A n \in Of(side) : FilledQty[n] = 0
    BY <1>2, <2>1, Finite
  <2> QED
    BY <2>2, TotalZero
<1> QED
  BY <1>1, <1>3, TotalEmpty DEF TradedOK

LEMMA AuctionInitially == Init => AInv
<1> SUFFICES ASSUME Init PROVE SlotsOK /\ RestingOK /\ DemandOK /\ TradedOK /\ TargetOK /\ ServedOK
  BY DEF AInv
<1>1. KindsOK
  BY Initially DEF IInv
<1>2. pc = "read" /\ DOMAIN lines = {} /\ DOMAIN order = {} /\ reports = <<>>
  BY DEF Init
<1>3. SlotsOK /\ RestingOK /\ TargetOK /\ ServedOK
  BY <1>2 DEF SlotsOK, RestingOK, TargetOK, ServedOK
<1>4. TradedOK
  BY <1>1, <1>2, NothingTraded
<1>5. ASSUME NEW side \in Sides, NEW p \in Prices
      PROVE  mTotalQty[side][p] = 0 /\ Total(mTotalQty[side], UpTo(side, p)) = Wanted(side, p)
  <2>1. \A q \in Prices : mTotalQty[side][q] = 0
    BY DEF Init, Groups
  <2>2. IsFiniteSet(UpTo(side, p)) /\ UpTo(side, p) \subseteq Prices
    BY PricesAreNumbers DEF UpTo
  <2>3. Total(mTotalQty[side], UpTo(side, p)) = 0
    BY <2>1, <2>2, TotalZero
  <2>4. Wanting(side, p) = {}
    BY <1>2 DEF Wanting
  <2>5. Wanted(side, p) = 0
    BY <1>1, <2>4, WantedSums, TotalEmpty, PricesAreNumbers DEF WantsKnown
  <2> QED
    BY <2>1, <2>3, <2>5
<1> QED
  BY <1>3, <1>4, <1>5 DEF DemandOK

\* The new line adds to the demand at the prices it reaches.
LEMMA WantedFollows ==
  ASSUME IInv, NEW o, Placing(o), IInv', NEW side \in Sides, NEW p \in Prices
  PROVE  Wanted(side, p)' = Wanted(side, p)
                            + IF o.side = side /\ ~Better(side, p, o.price) THEN o.qty ELSE 0
<1>1. p \in Nat /\ o \in Records
  BY PricesAreNumbers DEF Placing
<1>2. KindsOK => WantsKnown
  BY WantedSums
<1>3. KindsOK' => WantsKnown'
  BY WantedSums, PTL
<1>4. WantsKnown /\ WantsKnown'
  BY <1>2, <1>3 DEF IInv
<1>5. PICK W, V : W = Wanting(side, p) /\ V = Wanting(side, p)'
  OBVIOUS
<1>6. /\ Wanted(side, p) = Total(Sizes, W) /\ IsFiniteSet(W) /\ W \subseteq DOMAIN lines
      /\ \A n \in DOMAIN lines : Sizes[n] = lines[n].qty /\ Sizes[n] \in Nat
      /\ Wanted(side, p) \in Nat
  BY <1>1, <1>4, <1>5 DEF WantsKnown
<1>7. /\ Wanted(side, p)' = Total(Sizes', V)
      /\ \A n \in DOMAIN lines' : Sizes'[n] = lines'[n].qty /\ Sizes'[n] \in Nat
  BY <1>1, <1>4, <1>5 DEF WantsKnown
<1>8. /\ DOMAIN lines' = DOMAIN lines \cup {o.id} /\ o.id \notin DOMAIN lines
      /\ lines'[o.id] = o /\ \A n \in DOMAIN lines : lines'[n] = lines[n]
  BY DEF Placing
<1>9. V = IF o.side = side /\ ~Better(side, p, o.price) THEN W \cup {o.id} ELSE W
  BY <1>5, <1>8 DEF Wanting
<1>10. Total(Sizes', W) = Total(Sizes, W)
  <2>1. \A n \in W : Sizes[n] = Sizes'[n]
    BY <1>6, <1>7, <1>8
  <2> QED
    BY <1>6, <2>1, TotalAgrees
<1>11. o.qty \in Nat
  BY <1>7, <1>8
<1>12. CASE o.side = side /\ ~Better(side, p, o.price)
  <2>1. V = W \cup {o.id} /\ o.id \notin W
    BY <1>6, <1>8, <1>9, <1>12
  <2>2. \A n \in W \cup {o.id} : Sizes'[n] \in Nat
    BY <1>6, <1>7, <1>8
  <2>3. Total(Sizes', W \cup {o.id}) = Sizes'[o.id] + Total(Sizes', W)
    BY <1>6, <2>1, <2>2, TotalAdds
  <2>4. Sizes'[o.id] = o.qty
    BY <1>7, <1>8
  <2>5. PICK i \in Nat, j \in Nat : i = o.qty /\ j = Wanted(side, p)
    BY <1>6, <1>11
  <2>6. Wanted(side, p)' = i + j
    BY <1>6, <1>7, <1>10, <2>1, <2>3, <2>4, <2>5
  <2>7. i + j = j + i
    OBVIOUS
  <2> QED
    BY <1>12, <2>5, <2>6, <2>7
<1>13. CASE ~(o.side = side /\ ~Better(side, p, o.price))
  <2>1. Wanted(side, p)' = Wanted(side, p)
    BY <1>6, <1>7, <1>9, <1>10, <1>13
  <2> QED
    BY <1>6, <1>13, <2>1
<1> QED
  BY <1>12, <1>13

(***************************************************************************)
(* Every action keeps it                                                   *)
(***************************************************************************)

LEMMA ReadKeepsAuction ==
  ASSUME IInv, IInv', AInv, rule = "auction", Read
  PROVE  AInv'
<1>1. SlotsOK /\ RestingOK /\ DemandOK
  BY DEF AInv
<1>2. pc = "read" /\ Len(lines) < MaxLines /\ UNCHANGED <<rule, todo, target, reports, account>>
  BY DEF Read
<1>3. PICK o \in NewOrders(Len(lines) + 1) :
        lines' = Append(lines, o) /\ order' = Placed(o) /\ ReadAuction(o)
  BY DEF Read
<1>4. Placing(o)
  BY <1>2, <1>3, LineIsPlaced
<1>5. o \in Records /\ index \in Slots /\ AddOrder(index, o) /\ index' = index + 1 /\ pc' = "read"
  BY <1>2, <1>3, <1>4 DEF ReadAuction, Placing
<1>6. Resting(index, o)
  BY <1>5, OrderRests DEF IInv
<1>7. o.side \in Sides /\ o.price \in Prices /\ o.qty \in Nat /\ o.leaves = o.qty
  BY <1>4, <1>5, MatchingAssumption DEF Records, Placing
<1>8. index \notin DOMAIN order
  BY <1>1 DEF SlotsOK
<1>9. SlotsOK'
  <2>1. \A n \in DOMAIN lines' : \E s \in DOMAIN order' : order'[s].id = n
    BY <1>1, <1>4, <1>8 DEF SlotsOK, Placing
  <2>2. \A s \in DOMAIN order : s <= index /\ s \in Int
    BY DEF IInv, KindsOK, Slots
  <2>3. index + 1 \notin DOMAIN order'
    BY <1>4, <1>5, <2>2 DEF Placing, Slots
  <2> QED
    BY <1>5, <2>1, <2>3 DEF SlotsOK
<1>10. RestingOK'
  <2>1. \A side \in Sides, p \in Prices : mOrders[side][p] \subseteq mOrders'[side][p]
    BY <1>6, <1>7 DEF Resting
  <2>2. ASSUME NEW s \in DOMAIN order'
        PROVE  /\ s \in mOrders'[order'[s].side][order'[s].price]
               /\ order'[s].leaves = order'[s].qty
    <3>1. CASE s = index
      BY <1>4, <1>6, <1>7, <3>1 DEF Resting, Placing
    <3>2. CASE s # index
      <4>1. s \in DOMAIN order /\ order'[s] = order[s]
        BY <1>4, <3>2 DEF Placing
      <4>2. order[s].side \in Sides /\ order[s].price \in Prices
        BY <4>1 DEF IInv, KindsOK, Records
      <4>3. s \in mOrders[order[s].side][order[s].price] /\ order[s].leaves = order[s].qty
        BY <1>1, <1>2, <4>1 DEF RestingOK
      <4> QED
        BY <2>1, <4>1, <4>2, <4>3
    <3> QED
      BY <3>1, <3>2
  <2>3. \A s \in DOMAIN order' : s \in mOrders'[order'[s].side][order'[s].price]
    BY <2>2
  <2> QED
    BY <2>2, <2>3 DEF RestingOK
<1>11. ASSUME NEW side \in Sides, NEW p \in Prices
       PROVE  /\ p \notin levels'[side] => mTotalQty'[side][p] = 0
              /\ Total(mTotalQty'[side], UpTo(side, p)) = Wanted(side, p)'
  <2>1. ASSUME p \notin levels'[side] PROVE mTotalQty'[side][p] = 0
    <3>1. p \notin levels[side] /\ (side # o.side \/ p # o.price)
      BY <1>6, <2>1 DEF Resting
    <3>2. mTotalQty[side][p] = 0
      BY <1>1, <1>2, <3>1 DEF DemandOK
    <3> QED
      BY <1>6, <3>1, <3>2 DEF Resting
  <2>2. PICK S, g, h : S = UpTo(side, p) /\ g = mTotalQty[side] /\ h = mTotalQty'[side]
    OBVIOUS
  <2>3. IsFiniteSet(S) /\ S \subseteq Prices
    BY <2>2, PricesAreNumbers DEF UpTo
  <2>4. \A q \in Prices : g[q] \in Nat /\ h[q] \in Nat
    BY <1>6, <2>2 DEF IInv, KindsOK, Resting
  <2>5. Total(g, S) = Wanted(side, p)
    BY <1>1, <1>2, <2>2 DEF DemandOK
  <2>6. Wanted(side, p)' = Wanted(side, p)
                           + IF o.side = side /\ ~Better(side, p, o.price) THEN o.qty ELSE 0
    BY <1>4, WantedFollows
  <2>7. Total(g, S) \in Nat /\ Total(h, S) \in Nat
    BY <2>3, <2>4, TotalNat
  <2>8. CASE o.side = side /\ ~Better(side, p, o.price)
    <3>1. o.price \in S
      BY <1>7, <2>2, <2>8 DEF UpTo
    <3>2. h[o.price] = g[o.price] + o.qty /\ \A q \in S \ {o.price} : g[q] = h[q]
      BY <1>6, <2>2, <2>3, <2>8 DEF Resting
    <3>3. Total(h, S) + g[o.price] = Total(g, S) + h[o.price]
      BY <2>3, <2>4, <3>1, <3>2, TotalMoves
    <3>4. PICK i \in Nat, j \in Nat, k \in Nat, l \in Nat :
            i = Total(g, S) /\ j = Total(h, S) /\ k = g[o.price] /\ l = o.qty
      BY <1>7, <2>4, <2>7
    <3>5. j + k = i + (k + l)
      BY <3>2, <3>3, <3>4
    <3>6. j = i + l
      BY <3>5
    <3> QED
      BY <2>1, <2>2, <2>5, <2>6, <2>8, <3>4, <3>6
  <2>9. CASE ~(o.side = side /\ ~Better(side, p, o.price))
    <3>1. \A q \in S : g[q] = h[q]
      BY <1>6, <2>2, <2>3, <2>9 DEF Resting, UpTo
    <3>2. Total(g, S) = Total(h, S)
      BY <2>3, <3>1, TotalAgrees
    <3>3. Wanted(side, p)' = Wanted(side, p)
      BY <2>5, <2>6, <2>7, <2>9
    <3> QED
      BY <2>1, <2>2, <2>5, <3>2, <3>3
  <2> QED
    BY <2>8, <2>9
<1>12. TradedOK'
  <2>1. reports = <<>>
    BY <1>2 DEF IInv, PlaceOK
  <2>2. (KindsOK /\ reports = <<>>)' => TradedOK'
    BY NothingTraded, PTL
  <2> QED
    BY <1>2, <2>1, <2>2 DEF IInv
<1> QED
  BY <1>5, <1>9, <1>10, <1>11, <1>12 DEF AInv, DemandOK, TargetOK, ServedOK

\* What the lines want does not change once they have been read.
LEMMA VolumeStays == ASSUME lines' = lines PROVE \A p : Volume(p)' = Volume(p)
  BY DEF Volume, Wanted

\* A fill adds as much to what the buys have traded as to what the sells have.
LEMMA TradesBalance ==
  ASSUME IInv, IInv', TradedOK, NEW s, NEW q, Filling(s, q), UNCHANGED lines
  PROVE  TradedOK'
<1>1. PICK a, b, k : a = order[in].id /\ b = order[s].id /\ k = Len(reports) + 1
  OBVIOUS
<1>2. /\ DOMAIN reports' = DOMAIN reports \cup {k} /\ k \notin DOMAIN reports
      /\ reports'[k] = [id1 |-> a, id2 |-> b, ptr1 |-> in, ptr2 |-> s,
                        qty |-> q, price |-> at]
      /\ \A i \in DOMAIN reports : reports'[i] = reports[i]
      /\ a \in DOMAIN lines /\ b \in DOMAIN lines /\ a # b
      /\ \A n \in DOMAIN lines :
           FilledQty'[n] = IF n \in {a, b} THEN FilledQty[n] + q ELSE FilledQty[n]
  BY <1>1, FillIsReported
<1>3. /\ in \in DOMAIN order /\ s \in DOMAIN order /\ q \in Nat
      /\ There \in Sides /\ order[s].side = There /\ order[in].side # There
  BY DEF Filling
<1>4. lines[b].side = There /\ lines[a].side # There /\ lines[a].side \in Sides
  <2>1. lines[b].side = order[s].side /\ lines[a].side = order[in].side
    BY <1>1, <1>3 DEF IInv, EntriesOK
  <2>2. lines[a].side \in Sides
    <3>1. lines[a] \in Records
      BY <1>2 DEF IInv, KindsOK
    <3> QED
      BY <3>1 DEF Records
  <2> QED
    BY <1>3, <2>1, <2>2
<1>5. /\ IsFiniteSet(DOMAIN reports)
      /\ \A i \in DOMAIN reports : Traded'[i] = Traded[i] /\ Traded[i] \in Nat
      /\ Traded'[k] = q
  BY <1>2, Finite, FilledIsNat DEF Traded, IInv
<1>6. Total(Traded', DOMAIN reports) = Total(Traded, DOMAIN reports)
  BY <1>5, TotalAgrees
<1>7. Total(Traded', DOMAIN reports') = q + Total(Traded, DOMAIN reports)
  <2>1. \A i \in DOMAIN reports \cup {k} : Traded'[i] \in Nat
    BY <1>3, <1>5
  <2>2. Total(Traded', DOMAIN reports \cup {k}) = Traded'[k] + Total(Traded', DOMAIN reports)
    BY <1>2, <1>5, <2>1, TotalAdds
  <2> QED
    BY <1>2, <1>5, <1>6, <2>2
<1>8. ASSUME NEW side \in Sides
      PROVE  Total(Traded', DOMAIN reports') = Total(FilledQty', Of(side)')
  <2>1. PICK S, g, h : S = Of(side) /\ g = FilledQty /\ h = FilledQty'
    OBVIOUS
  <2>2. Of(side)' = S /\ S \subseteq DOMAIN lines
    BY <2>1 DEF Of
  <2>3. IsFiniteSet(S)
    BY <2>2, Finite DEF IInv
  <2>4. PICK c \in {a, b} : c \in S /\ \A n \in S \ {c} : n \notin {a, b}
    BY <1>2, <1>3, <1>4, <2>1 DEF Of, Sides
  <2>5. \A n \in S : g[n] \in Nat
    BY <2>1, <2>2, FilledIsNat DEF IInv
  <2>6. h[c] = g[c] + q /\ \A n \in S \ {c} : g[n] = h[n]
    BY <1>2, <2>1, <2>2, <2>4
  <2>7. \A n \in S : g[n] \in Nat /\ h[n] \in Nat
    BY <1>3, <2>4, <2>5, <2>6
  <2>8. Total(h, S) + g[c] = Total(g, S) + h[c]
    BY <2>3, <2>4, <2>6, <2>7, TotalMoves
  <2>9. Total(g, S) \in Nat /\ Total(h, S) \in Nat
    BY <2>3, <2>7, TotalNat
  <2>10. PICK i \in Nat, j \in Nat, l \in Nat : i = Total(g, S) /\ j = Total(h, S) /\ l = g[c]
    BY <2>4, <2>7, <2>9
  <2>11. j + l = i + (l + q)
    BY <2>6, <2>8, <2>10
  <2>12. j = q + i
    BY <1>3, <2>11
  <2>13. Total(Traded, DOMAIN reports) = i
    BY <2>1, <2>10 DEF TradedOK
  <2> QED
    BY <1>7, <2>1, <2>2, <2>10, <2>12, <2>13
<1> QED
  BY <1>8 DEF TradedOK

LEMMA MatchOrderKeepsAuction ==
  ASSUME IInv, IInv', AInv, rule = "auction", MatchOrder
  PROVE  AInv'
<1>1. SlotsOK /\ RestingOK /\ TradedOK /\ TargetOK /\ ServedOK
  BY DEF AInv
<1>2. /\ pc = "match" /\ pc' = "match" /\ ~full
      /\ UNCHANGED <<rule, lines, index, in, at, todo, target>>
  BY DEF MatchOrder
<1>3. PICK s \in mOrders[There][at] : Fill(s)
  BY DEF MatchOrder, Front
<1>4. PICK q : q = Crossed(s)
  OBVIOUS
<1>5. Filling(s, q)
  BY <1>2, <1>3, <1>4, OrderFills
<1>6. in \in todo /\ order[in].side = "BUY" /\ There = "SELL"
  BY <1>2 DEF IInv, PlaceOK, There, Other
<1>7. /\ DOMAIN order' = DOMAIN order /\ q \in Nat /\ s \in DOMAIN order
      /\ order[s].side = "SELL" /\ order[s].price = at /\ at \in Prices
      /\ \A t \in DOMAIN order :
           /\ order'[t].id = order[t].id /\ order'[t].side = order[t].side
           /\ order'[t].price = order[t].price
           /\ order'[t].leaves = IF t \in {in, s} THEN order[t].leaves - q ELSE order[t].leaves
  BY <1>5, <1>6 DEF Filling
<1>8. \A t \in DOMAIN order :
        /\ order[t].leaves \in Nat /\ order[t].price \in Prices
        /\ order[t].leaves = 0 => order'[t].leaves = 0
  <2>1. \A t \in DOMAIN order : order[t].leaves \in Nat
    BY LeavesAreNat DEF IInv
  <2>2. \A t \in DOMAIN order : order[t].price \in Prices
    BY DEF IInv, KindsOK, Records
  <2>3. q <= order[in].leaves /\ q <= order[s].leaves
    BY <1>5 DEF Filling
  <2> QED
    BY <1>7, <2>1, <2>2, <2>3
<1>9. SlotsOK'
  BY <1>1, <1>2, <1>7 DEF SlotsOK
<1>10. RestingOK'
  <2>1. ASSUME NEW t \in DOMAIN order', order'[t].side = "SELL", order'[t].leaves > 0
        PROVE  t \in mOrders'["SELL"][order'[t].price]
    <3>1. PICK p \in Prices : p = order[t].price /\ order'[t].price = p
      BY <1>7, <1>8, <2>1
    <3>2. order[t].leaves \in Nat /\ order[t].leaves # 0 /\ order[t].side = "SELL" /\ t # in
      BY <1>6, <1>7, <1>8, <2>1
    <3>3. t \in mOrders["SELL"][p]
      BY <1>1, <1>7, <2>1, <3>1, <3>2 DEF RestingOK
    <3>4. t = s => order[s].leaves # q
      BY <1>7, <2>1, <3>2
    <3>5. /\ mOrders'["SELL"][at] = IF order[s].leaves = q THEN mOrders["SELL"][at] \ {s}
                                                          ELSE mOrders["SELL"][at]
          /\ p # at => mOrders'["SELL"][p] = mOrders["SELL"][p]
      BY <1>5, <1>6 DEF Filling, Sides
    <3> QED
      BY <3>1, <3>3, <3>4, <3>5
  <2> QED
    BY <1>2, <2>1 DEF RestingOK
<1>11. TradedOK'
  BY <1>1, <1>2, <1>5, TradesBalance
<1>12. TargetOK'
  BY <1>1, <1>2, VolumeStays DEF TargetOK
<1>13. ServedOK'
  <2>1. \A t \in DOMAIN order \ todo : order[t].side = "BUY" => order'[t].leaves = order[t].leaves
    BY <1>6, <1>7
  <2> QED
    BY <1>1, <1>2, <1>7, <1>8, <2>1 DEF ServedOK
<1> QED
  BY <1>2, <1>9, <1>10, <1>11, <1>12, <1>13 DEF AInv, DemandOK

\* A buy with no sell left in reach has taken all it could.
LEMMA NothingInReach ==
  ASSUME IInv, RestingOK, NEW p \in Prices,
         \A q \in levels["SELL"] : q <= p => mOrders["SELL"][q] = {}
  PROVE  \A t \in DOMAIN order :
           order[t].side = "SELL" /\ order[t].price <= p => order[t].leaves = 0
<1> SUFFICES ASSUME NEW t \in DOMAIN order, order[t].side = "SELL", order[t].price <= p
             PROVE  order[t].leaves = 0
  OBVIOUS
<1>1. order[t].price \in Prices
  BY DEF IInv, KindsOK, Records
<1>2. mOrders["SELL"][order[t].price] = {}
  BY <1>1 DEF IInv, GroupsOK, Sides
<1>3. order[t].leaves \in Nat
  BY LeavesAreNat DEF IInv
<1> QED
  BY <1>2, <1>3 DEF RestingOK

LEMMA NextGroupKeepsAuction ==
  ASSUME IInv, IInv', AInv, rule = "auction", NextGroup
  PROVE  AInv'
<1>1. SlotsOK /\ RestingOK /\ TradedOK /\ TargetOK /\ ServedOK
  BY DEF AInv
<1>2. /\ pc = "match" /\ (full \/ mOrders[There][at] = {})
      /\ UNCHANGED <<rule, lines, index, order, target, reports>>
  BY DEF NextGroup
<1>3. /\ Leaving /\ in \in todo /\ order[in].side = "BUY" /\ There = "SELL"
      /\ at \in Prices /\ at \in levels["SELL"]
  BY <1>2, GroupIsLeft DEF IInv, PlaceOK, There, Other, Leaving
<1>4. /\ pc' \in {"auction", "match"} /\ pc' # "read"
      /\ \/ todo' = todo
         \/ /\ todo' = todo \ {in}
            /\ full \/ Behind = {} \/ OutOfReach(order[in], Best(There, Behind))
  BY <1>2 DEF NextGroup, Return
<1>5. SlotsOK'
  BY <1>1, <1>2 DEF SlotsOK
<1>6. RestingOK'
  <2>1. ASSUME NEW t \in DOMAIN order, order[t].side = "SELL", order[t].leaves > 0
        PROVE  t \in mOrders'["SELL"][order[t].price]
    <3>1. PICK p \in Prices : p = order[t].price
      BY DEF IInv, KindsOK, Records
    <3>2. t \in mOrders["SELL"][p]
      BY <1>1, <2>1, <3>1 DEF RestingOK
    <3>3. CASE p = at /\ UsedUp
      <4>1. mLeavesQty["SELL"][p] = 0 /\ mLeavesQty["SELL"][p] >= Total(Leaves, mOrders["SELL"][p])
        BY <1>3, <3>3 DEF UsedUp, IInv, SumsOK, Sides
      <4>2. /\ IsFiniteSet(mOrders["SELL"][p])
            /\ \A u \in mOrders["SELL"][p] : Leaves[u] \in Nat /\ Leaves[u] = order[u].leaves
        BY Finite, LeavesAreNat DEF IInv, Sides
      <4>3. Leaves[t] <= Total(Leaves, mOrders["SELL"][p]) /\ Total(Leaves, mOrders["SELL"][p]) \in Nat
        BY <3>2, <4>2, TotalCovers, TotalNat
      <4> QED
        BY <2>1, <3>2, <4>1, <4>2, <4>3
    <3>4. CASE ~(p = at /\ UsedUp)
      BY <1>3, <3>1, <3>2, <3>4 DEF Leaving, Sides
    <3> QED
      BY <3>3, <3>4
  <2> QED
    BY <1>2, <1>4, <2>1 DEF RestingOK
<1>7. TradedOK'
  BY <1>1, <1>2 DEF TradedOK, Traded, FilledQty, Mentions, Of
<1>8. TargetOK'
  BY <1>1, <1>2, VolumeStays DEF TargetOK
<1>9. ASSUME todo' = todo \ {in}, ~full
      PROVE  \A t \in DOMAIN order :
               order[t].side = "SELL" /\ order[t].price <= order[in].price => order[t].leaves = 0
  <2>1. PICK p \in Prices : p = order[in].price
    BY <1>3 DEF IInv, KindsOK, Records, Leaving
  <2>2. levels["SELL"] \subseteq Prices
    BY DEF IInv, KindsOK, Sides
  <2>3. mOrders["SELL"][at] = {}
    BY <1>2, <1>3, <1>9
  <2>4. \A q \in levels["SELL"] : q < at => mOrders["SELL"][q] = {}
    BY <1>2, <1>3 DEF IInv, GroupsOK, Better
  <2>5. ASSUME NEW q \in levels["SELL"], q <= p, at < q PROVE FALSE
    <3>1. q \in Behind /\ Behind \subseteq Prices
      BY <1>3, <2>2, <2>5 DEF Behind, Better
    <3>2. PICK b : b = Best("SELL", Behind)
      OBVIOUS
    <3>3. b \in Behind /\ \A r \in Behind \ {b} : Better("SELL", b, r)
      BY <3>1, <3>2, BestIsBest DEF Sides
    <3>4. OutOfReach(order[in], b)
      <4>1. todo # todo \ {in}
        BY <1>3
      <4> QED
        BY <1>3, <1>4, <1>9, <3>1, <3>2, <4>1
    <3>5. p < b
      BY <1>3, <2>1, <3>4 DEF OutOfReach, Other, Better
    <3>6. q = b \/ b < q
      BY <3>1, <3>3 DEF Better
    <3>7. p \in Nat /\ q \in Nat /\ b \in Nat
      BY <3>1, <3>3, PricesAreNumbers
    <3> QED
      BY <2>5, <3>5, <3>6, <3>7
  <2>6. \A q \in levels["SELL"] : q <= p => mOrders["SELL"][q] = {}
    <3>1. at \in Nat /\ \A q \in levels["SELL"] : q \in Nat
      BY <1>3, <2>2, PricesAreNumbers
    <3> QED
      BY <2>3, <2>4, <2>5, <3>1
  <2> QED
    BY <1>1, <2>1, <2>6, NothingInReach
<1>10. ServedOK'
  <2>1. full => order[in].leaves = 0
    BY <1>2 DEF IInv, PlaceOK
  <2>2. todo' = todo \/ todo' = todo \ {in}
    BY <1>4
  <2>3. ASSUME NEW s \in DOMAIN order \ todo', order[s].side = "BUY", order[s].price >= target
        PROVE  \/ order[s].leaves = 0
               \/ \A t \in DOMAIN order :
                    order[t].side = "SELL" /\ order[t].price <= order[s].price => order[t].leaves = 0
    <3>1. CASE s \notin todo
      BY <1>1, <1>2, <2>3, <3>1 DEF ServedOK
    <3>2. CASE s \in todo
      <4>1. s = in /\ todo' = todo \ {in}
        BY <2>2, <2>3, <3>2
      <4> QED
        BY <1>9, <2>1, <4>1
    <3> QED
      BY <3>1, <3>2
  <2> QED
    BY <1>2, <2>3 DEF ServedOK
<1> QED
  BY <1>4, <1>5, <1>6, <1>7, <1>8, <1>10 DEF AInv, DemandOK

LEMMA NextBuyKeepsAuction ==
  ASSUME IInv, IInv', AInv, rule = "auction", NextBuy
  PROVE  AInv'
<1>1. SlotsOK /\ RestingOK /\ TradedOK /\ TargetOK /\ ServedOK
  BY DEF AInv
<1>2. /\ pc = "auction" /\ pc' \in {"match", "auction"}
      /\ UNCHANGED <<rule, lines, index, order, levels, mOrders, target, reports>>
  BY DEF NextBuy, book
<1>3. PICK s \in todo : \/ todo' = todo
                        \/ todo' = todo \ {s} /\ ~Meets(order[s])
  <2>1. PICK S : S = {t \in todo : order[t].price = Max({order[u].price : u \in todo})}
    OBVIOUS
  <2>2. PICK s \in Front(S) :
          IF Meets(order[s]) THEN todo' = todo ELSE todo' = todo \ {s}
    BY <2>1 DEF NextBuy
  <2>3. s \in todo
    BY <2>1 DEF Front
  <2>4. CASE Meets(order[s])
    BY <2>2, <2>3, <2>4
  <2>5. CASE ~Meets(order[s])
    <3>1. todo' = todo \ {s}
      BY <2>2, <2>5
    <3> QED
      BY <2>3, <2>5, <3>1
  <2> QED
    BY <2>4, <2>5
<1>4. s \in DOMAIN order /\ order[s].side = "BUY"
  BY <1>2 DEF IInv, KindsOK, PlaceOK
<1>5. SlotsOK' /\ RestingOK'
  BY <1>1, <1>2 DEF SlotsOK, RestingOK
<1>6. TradedOK'
  BY <1>1, <1>2 DEF TradedOK, Traded, FilledQty, Mentions, Of
<1>7. TargetOK'
  BY <1>1, <1>2, VolumeStays DEF TargetOK
<1>8. ASSUME ~Meets(order[s])
      PROVE  \A t \in DOMAIN order :
               order[t].side = "SELL" /\ order[t].price <= order[s].price => order[t].leaves = 0
  <2>1. PICK p \in Prices : p = order[s].price
    BY <1>4 DEF IInv, KindsOK, Records
  <2>2. levels["SELL"] \subseteq Prices
    BY DEF IInv, KindsOK, Sides
  <2>3. ASSUME NEW q \in levels["SELL"], q <= p PROVE FALSE
    <3>1. PICK b : b = Best("SELL", levels["SELL"])
      OBVIOUS
    <3>2. b \in levels["SELL"] /\ \A r \in levels["SELL"] \ {b} : Better("SELL", b, r)
      BY <2>2, <2>3, <3>1, BestIsBest DEF Sides
    <3>3. OutOfReach(order[s], b)
      BY <1>4, <1>8, <2>3, <3>1 DEF Meets, Other
    <3>4. p < b
      BY <1>4, <2>1, <3>3 DEF OutOfReach, Other, Better
    <3>5. q = b \/ b < q
      BY <2>3, <3>2 DEF Better
    <3>6. p \in Nat /\ q \in Nat /\ b \in Nat
      BY <2>2, <2>3, <3>2, PricesAreNumbers
    <3> QED
      BY <2>3, <3>4, <3>5, <3>6
  <2> QED
    BY <1>1, <2>1, <2>3, NothingInReach
<1>9. ServedOK'
  <2>1. ASSUME NEW u \in DOMAIN order \ todo', order[u].side = "BUY", order[u].price >= target
        PROVE  \/ order[u].leaves = 0
               \/ \A t \in DOMAIN order :
                    order[t].side = "SELL" /\ order[t].price <= order[u].price => order[t].leaves = 0
    <3>1. CASE u \notin todo
      BY <1>1, <1>2, <2>1, <3>1 DEF ServedOK
    <3>2. CASE u \in todo
      BY <1>3, <1>8, <2>1, <3>2
    <3> QED
      BY <3>1, <3>2
  <2> QED
    BY <1>2, <2>1 DEF ServedOK
<1> QED
  BY <1>2, <1>5, <1>6, <1>7, <1>9 DEF AInv, DemandOK

(***************************************************************************)
(* The price of the auction                                                *)
(***************************************************************************)

LEMMA VolumeIsMin ==
  ASSUME KindsOK, NEW p \in Nat
  PROVE  /\ Volume(p) \in Nat
         /\ Volume(p) <= Wanted("BUY", p) /\ Volume(p) <= Wanted("SELL", p)
         /\ Volume(p) \in {Wanted("BUY", p), Wanted("SELL", p)}
<1>1. Wanted("BUY", p) \in Nat /\ Wanted("SELL", p) \in Nat
  BY WantedSums DEF WantsKnown, Sides
<1>2. Volume(p) = IF Wanted("BUY", p) <= Wanted("SELL", p)
                  THEN Wanted("BUY", p) ELSE Wanted("SELL", p)
  BY <1>1, MinOfTwo DEF Volume
<1> QED
  BY <1>1, <1>2

\* A part of the levels that leaves out none in reach adds up to the demand.
LEMMA DemandIsSum ==
  ASSUME IInv, DemandOK, pc = "read", NEW side \in Sides, NEW p \in Prices,
         NEW R, R \subseteq UpTo(side, p), \A q \in UpTo(side, p) \ R : q \notin levels[side]
  PROVE  Total(mTotalQty[side], R) = Wanted(side, p)
<1>1. PICK g, S : g = mTotalQty[side] /\ S = UpTo(side, p)
  OBVIOUS
<1>2. IsFiniteSet(S) /\ S \subseteq Prices
  BY <1>1, PricesAreNumbers DEF UpTo
<1>3. \A q \in S : g[q] \in Nat
  BY <1>1, <1>2, QuantitiesAreNat DEF IInv
<1>4. \A q \in S \ R : g[q] = 0
  BY <1>1, <1>2 DEF DemandOK
<1>5. Total(g, R) = Total(g, S)
  BY <1>1, <1>2, <1>3, <1>4, TotalOfPart
<1> QED
  BY <1>1, <1>5 DEF DemandOK

\* Consolidating a level counts what the lines want at its price.
LEMMA SumIsDemand ==
  ASSUME IInv, DemandOK, pc = "read", NEW side \in Sides, NEW p \in Prices
  PROVE  SumSofar(side, p) = Wanted(side, p)
<1>1. PICK R : R = {q \in levels[side] : ~Better(side, p, q)}
  OBVIOUS
<1>2. levels[side] \subseteq Prices
  BY DEF IInv, KindsOK
<1>3. R \subseteq UpTo(side, p) /\ \A q \in UpTo(side, p) \ R : q \notin levels[side]
  BY <1>1, <1>2 DEF UpTo
<1>4. Total(mTotalQty[side], R) = Wanted(side, p)
  BY <1>3, DemandIsSum
<1> QED
  BY <1>1, <1>4 DEF SumSofar

\* A higher price finds no more demand and no less supply.
LEMMA DemandFalls ==
  ASSUME KindsOK, NEW p \in Nat, NEW q \in Nat, p <= q
  PROVE  Wanted("BUY", q) <= Wanted("BUY", p) /\ Wanted("SELL", p) <= Wanted("SELL", q)
<1>1. WantsKnown
  BY WantedSums
<1>2. \A n \in DOMAIN lines : lines[n].price \in Nat
  <2>1. \A n \in DOMAIN lines : lines[n] \in Records
    BY DEF KindsOK
  <2> QED
    BY <2>1, PricesAreNumbers DEF Records
<1>3. Wanting("BUY", q) \subseteq Wanting("BUY", p) /\ Wanting("SELL", p) \subseteq Wanting("SELL", q)
  BY <1>2 DEF Wanting, Better
<1>4. ASSUME NEW R, NEW S, IsFiniteSet(S), R \subseteq S, S \subseteq DOMAIN lines
      PROVE  Total(Sizes, R) <= Total(Sizes, S)
  <2>1. \A n \in S : Sizes[n] \in Nat
    BY <1>1, <1>4 DEF WantsKnown
  <2> QED
    BY <1>4, <2>1, TotalOfPart
<1>5. \A side \in Sides, r \in Nat :
        /\ Wanted(side, r) = Total(Sizes, Wanting(side, r))
        /\ IsFiniteSet(Wanting(side, r)) /\ Wanting(side, r) \subseteq DOMAIN lines
  BY <1>1 DEF WantsKnown
<1> QED
  BY <1>3, <1>4, <1>5 DEF Sides

\* Book::match(Qty, p) computes the volume of a buy level.
LEMMA CrossIsVolume ==
  ASSUME IInv, DemandOK, pc = "read", NEW p \in levels["BUY"]
  PROVE  CrossQty(p) = Volume(p)
<1>1. p \in Prices /\ p \in Nat /\ levels["SELL"] \subseteq Prices
  BY PricesAreNumbers DEF IInv, KindsOK, Sides
<1>2. Consolidated("BUY")[p] = Wanted("BUY", p)
  BY <1>1, SumIsDemand DEF Consolidated, Sides
<1>3. UpTo("SELL", p) = {q \in Prices : q <= p}
  BY <1>1, PricesAreNumbers DEF UpTo, Better
<1>4. /\ Reached(p) \subseteq UpTo("SELL", p)
      /\ \A q \in UpTo("SELL", p) \ Reached(p) : q \notin levels["SELL"]
  BY <1>1, <1>3 DEF Reached
<1>5. Total(mTotalQty["SELL"], Reached(p)) = Wanted("SELL", p)
  BY <1>1, <1>4, DemandIsSum DEF Sides
<1>6. CASE Reached(p) = {}
  <2>1. Wanted("SELL", p) = 0
    BY <1>5, <1>6, TotalEmpty
  <2>2. Volume(p) = 0
    BY <1>1, <2>1, VolumeIsMin DEF IInv
  <2> QED
    BY <1>6, <2>2 DEF CrossQty
<1>7. CASE Reached(p) # {}
  <2>1. Reached(p) \subseteq Nat /\ IsFiniteSet(Reached(p)) /\ Reached(p) \subseteq Prices
    BY <1>1, PricesAreNumbers DEF Reached
  <2>2. PICK m : m = Max(Reached(p))
    OBVIOUS
  <2>3. m \in Reached(p) /\ \A q \in Reached(p) : q <= m
    BY <1>7, <2>1, <2>2, MaxIsIn
  <2>4. m \in levels["SELL"] /\ m <= p /\ m \in Nat /\ m \in Prices
    BY <1>1, <2>1, <2>3 DEF Reached
  <2>5. {q \in levels["SELL"] : ~Better("SELL", m, q)} = Reached(p)
    <3>1. \A q \in levels["SELL"] : q \in Nat
      BY <1>1, PricesAreNumbers
    <3>2. \A q \in levels["SELL"] : q <= p => q <= m
      BY <2>3 DEF Reached
    <3>3. \A q \in levels["SELL"] : ~Better("SELL", m, q) <=> q <= p
      BY <1>1, <2>4, <3>1, <3>2 DEF Better
    <3> QED
      BY <3>3 DEF Reached
  <2>6. Consolidated("SELL")[m] = Wanted("SELL", p)
    BY <1>5, <2>4, <2>5 DEF Consolidated, SumSofar
  <2> QED
    BY <1>2, <1>7, <2>2, <2>6 DEF CrossQty, Volume
<1> QED
  BY <1>6, <1>7

\* No price has a greater volume than the buy level next above it.
LEMMA LevelsAreEnough ==
  ASSUME IInv, DemandOK, pc = "read", NEW p \in Prices
  PROVE  \/ Volume(p) = 0
         \/ \E q \in levels["BUY"] : p * Volume(p) <= q * Volume(q)
<1>1. p \in Nat /\ levels["BUY"] \subseteq Prices /\ levels["BUY"] \subseteq Nat
  BY PricesAreNumbers DEF IInv, KindsOK, Sides
<1>2. PICK Q : Q = {q \in levels["BUY"] : p <= q}
  OBVIOUS
<1>3. Q \subseteq Nat /\ Q \subseteq Prices /\ IsFiniteSet(Q)
  BY <1>1, <1>2, PricesAreNumbers
<1>4. UpTo("BUY", p) = {q \in Prices : p <= q}
  BY <1>1, PricesAreNumbers DEF UpTo, Better
<1>5. Q \subseteq UpTo("BUY", p) /\ \A q \in UpTo("BUY", p) \ Q : q \notin levels["BUY"]
  BY <1>1, <1>2, <1>4
<1>6. Total(mTotalQty["BUY"], Q) = Wanted("BUY", p)
  BY <1>5, DemandIsSum DEF Sides
<1>7. CASE Q = {}
  <2>1. Wanted("BUY", p) = 0
    BY <1>6, <1>7, TotalEmpty
  <2> QED
    BY <1>1, <2>1, VolumeIsMin DEF IInv
<1>8. CASE Q # {}
  <2>1. PICK q \in Q : \A r \in Q : q <= r
    BY <1>3, <1>8, Extrema
  <2>2. q \in levels["BUY"] /\ p <= q /\ q \in Nat /\ q \in Prices
    BY <1>1, <1>2, <2>1
  <2>3. UpTo("BUY", q) = {r \in Prices : q <= r}
    BY <2>2, PricesAreNumbers DEF UpTo, Better
  <2>4. Q \subseteq UpTo("BUY", q)
    BY <1>3, <2>1, <2>3
  <2>5. \A r \in UpTo("BUY", q) \ Q : r \notin levels["BUY"]
    BY <1>1, <1>2, <2>2, <2>3, PricesAreNumbers
  <2>6. Wanted("BUY", p) = Wanted("BUY", q)
    BY <1>6, <2>2, <2>4, <2>5, DemandIsSum DEF Sides
  <2>7. Wanted("SELL", p) <= Wanted("SELL", q)
    BY <1>1, <2>2, DemandFalls DEF IInv
  <2>8. PICK v \in Nat, w \in Nat : v = Volume(p) /\ w = Volume(q)
    BY <1>1, <2>2, VolumeIsMin DEF IInv
  <2>9. v <= w
    <3>1. /\ Wanted("BUY", q) \in Nat /\ Wanted("SELL", q) \in Nat /\ Wanted("SELL", p) \in Nat
      BY <1>1, <2>2, WantedSums DEF IInv, WantsKnown, Sides
    <3>2. v <= Wanted("BUY", p) /\ v <= Wanted("SELL", p) /\ w \in {Wanted("BUY", q), Wanted("SELL", q)}
      BY <1>1, <2>2, <2>8, VolumeIsMin DEF IInv
    <3> QED
      BY <2>6, <2>7, <3>1, <3>2
  <2>10. \A a, b, x, y \in Nat : a <= b /\ x <= y => a * x <= b * y
    OBVIOUS
  <2>11. p * v <= q * w
    BY <1>1, <2>2, <2>9, <2>10
  <2> QED
    BY <2>2, <2>8, <2>11
<1> QED
  BY <1>7, <1>8

\* The greatest worth among the buy levels is the greatest of all prices.
LEMMA PriceIsBest ==
  ASSUME IInv, DemandOK, pc = "read", NEW t, t = TargetPrice
  PROVE  \A p \in Prices : p * Volume(p) <= t * Volume(t)
<1> DEFINE worth(p) == p * CrossQty(p)
           best == {p \in levels["BUY"] : /\ worth(p) > 0
                                          /\ \A q \in levels["BUY"] : worth(q) <= worth(p)}
<1>1. t = IF best = {} THEN None ELSE Max(best)
  BY DEF TargetPrice
<1>2. levels["BUY"] \subseteq Prices /\ levels["BUY"] \subseteq Nat /\ IsFiniteSet(levels["BUY"])
  BY PricesAreNumbers DEF IInv, KindsOK, Sides
<1>3. \A p \in Nat : Volume(p) \in Nat
  BY VolumeIsMin DEF IInv
<1>4. \A p \in levels["BUY"] : worth(p) = p * Volume(p)
  BY CrossIsVolume
<1>5. \A x, y \in Nat : x * y \in Nat
  OBVIOUS
<1>6. \A p \in levels["BUY"] : worth(p) \in Nat
  BY <1>2, <1>3, <1>4, <1>5
<1>7. t \in Nat /\ \A q \in levels["BUY"] : worth(q) <= t * Volume(t)
  <2>1. CASE best = {}
    <3>1. t = 0
      BY <1>1, <2>1 DEF None
    <3>2. t * Volume(t) = 0
      BY <1>3, <3>1
    <3>3. ASSUME NEW q \in levels["BUY"] PROVE worth(q) = 0
      <4>1. PICK W : W = {worth(p) : p \in levels["BUY"]}
        OBVIOUS
      <4>2. IsFiniteSet(W) /\ W \subseteq Nat /\ W # {}
        <5>1. W \subseteq Nat /\ W # {}
          BY <1>6, <3>3, <4>1
        <5>2. PICK f : f = [p \in levels["BUY"] |-> worth(p)]
          OBVIOUS
        <5>3. f \in Surjection(levels["BUY"], W)
          <6> HIDE DEF worth
          <6> QED
            BY <4>1, <5>2 DEF Surjection
        <5>4. IsFiniteSet(W)
          BY <1>2, <5>3, FS_Surjection
        <5> QED
          BY <5>1, <5>4
      <4>3. PICK w \in W : \A x \in W : x <= w
        BY <4>2, Extrema
      <4>4. PICK p \in levels["BUY"] : w = worth(p)
        BY <4>1, <4>3
      <4>5. \A r \in levels["BUY"] : worth(r) <= worth(p)
        BY <4>1, <4>3, <4>4
      <4>6. ~(worth(p) > 0)
        BY <2>1, <4>4, <4>5
      <4>7. worth(q) <= worth(p) /\ worth(q) \in Nat /\ worth(p) \in Nat
        BY <1>6, <3>3, <4>4, <4>5
      <4> HIDE DEF worth
      <4> QED
        BY <4>6, <4>7
    <3> QED
      BY <3>1, <3>2, <3>3
  <2>2. CASE best # {}
    <3>1. best \subseteq levels["BUY"]
      OBVIOUS
    <3>2. best \subseteq Nat /\ IsFiniteSet(best)
      <4> HIDE DEF best
      <4> QED
        BY <1>2, <3>1, FS_Subset
    <3>3. t \in best
      <4> HIDE DEF best
      <4> QED
        BY <1>1, <2>2, <3>2, MaxIsIn
    <3>4. t \in levels["BUY"] /\ \A q \in levels["BUY"] : worth(q) <= worth(t)
      BY <3>3
    <3> QED
      BY <1>2, <1>4, <3>4
  <2> QED
    BY <2>1, <2>2
<1>8. ASSUME NEW p \in Prices PROVE p * Volume(p) <= t * Volume(t)
  <2>1. p \in Nat
    BY PricesAreNumbers
  <2>2. PICK x \in Nat, y \in Nat : x = p * Volume(p) /\ y = t * Volume(t)
    BY <1>3, <1>5, <1>7, <2>1
  <2>3. CASE Volume(p) = 0
    <3>1. x = 0
      BY <2>1, <2>2, <2>3
    <3> QED
      BY <2>2, <3>1
  <2>4. ASSUME NEW q \in levels["BUY"], p * Volume(p) <= q * Volume(q) PROVE x <= y
    <3>1. PICK z \in Nat : z = worth(q)
      BY <1>6, <2>4
    <3>2. x <= z /\ z <= y
      BY <1>4, <1>7, <2>2, <2>4, <3>1
    <3> QED
      BY <3>2
  <2>5. Volume(p) = 0 \/ \E q \in levels["BUY"] : p * Volume(p) <= q * Volume(q)
    BY LevelsAreEnough
  <2> QED
    BY <2>2, <2>3, <2>4, <2>5
<1> QED
  BY <1>8

\* Once the price is called, all buys that reach it are to be matched.
LEMMA UncrossKeepsAuction ==
  ASSUME IInv, IInv', AInv, rule = "auction", Uncross
  PROVE  AInv'
<1>1. SlotsOK /\ RestingOK /\ DemandOK /\ TradedOK
  BY DEF AInv
<1>2. /\ pc = "read" /\ pc' = "auction" /\ target' = TargetPrice
      /\ UNCHANGED <<rule, lines, index, order, levels, mOrders, reports>>
  BY DEF Uncross
<1>3. SlotsOK' /\ RestingOK'
  BY <1>1, <1>2 DEF SlotsOK, RestingOK
<1>4. TradedOK'
  BY <1>1, <1>2 DEF TradedOK, Traded, FilledQty, Mentions, Of
<1>5. TargetOK'
  <2>1. PICK t : t = TargetPrice
    OBVIOUS
  <2>2. \A p \in Prices : p * Volume(p) <= t * Volume(t)
    BY <1>1, <1>2, <2>1, PriceIsBest
  <2>3. target' = t /\ \A p : Volume(p)' = Volume(p)
    BY <1>2, <2>1, VolumeStays
  <2> QED
    BY <2>2, <2>3 DEF TargetOK
<1>6. ASSUME NEW s \in DOMAIN order \ todo', order[s].side = "BUY", order[s].price >= target'
      PROVE  FALSE
  <2>1. PICK p \in Prices : p = order[s].price
    BY <1>6 DEF IInv, KindsOK, Records
  <2>2. s \in mOrders["BUY"][p]
    BY <1>1, <1>2, <1>6, <2>1 DEF RestingOK
  <2>3. p \in levels["BUY"]
    BY <2>2 DEF IInv, GroupsOK, Sides
  <2>4. Called(p)
    BY <1>6, <2>1 DEF Called
  <2>5. todo' = UNION {mOrders["BUY"][q] : q \in {r \in levels["BUY"] : Called(r)}}
    BY DEF Uncross
  <2> QED
    BY <1>6, <2>2, <2>3, <2>4, <2>5
<1>7. ServedOK'
  BY <1>2, <1>6 DEF ServedOK
<1> QED
  BY <1>2, <1>3, <1>4, <1>5, <1>7 DEF AInv, DemandOK

LEMMA AuctionInductive == Spec => []AInv
<1>1. IInv /\ IInv' /\ AInv /\ [Next]_vars => AInv'
  <2> SUFFICES ASSUME IInv, IInv', AInv, [Next]_vars, rule' = "auction" PROVE AInv'
    BY DEF AInv
  <2>1. rule = "auction"
    BY DEF Next, Read, Rest, MatchOrder, NextGroup, Uncross, NextBuy, vars
  <2>2. ~Rest
    BY <2>1 DEF Rest, IInv, PlaceOK
  <2>3. CASE Next
    BY <2>1, <2>2, <2>3, ReadKeepsAuction, MatchOrderKeepsAuction, NextGroupKeepsAuction,
       UncrossKeepsAuction, NextBuyKeepsAuction DEF Next
  <2>4. CASE UNCHANGED vars
    <3>1. UNCHANGED <<rule, pc, lines, index, order, levels, mOrders, mTotalQty, todo, target,
                      reports>>
      BY <2>4 DEF vars, book
    <3>2. SlotsOK' /\ RestingOK'
      BY <2>1, <3>1 DEF AInv, SlotsOK, RestingOK
    <3>3. DemandOK'
      BY <2>1, <3>1 DEF AInv, DemandOK, Wanted
    <3>4. TradedOK'
      BY <2>1, <3>1 DEF AInv, TradedOK, Traded, FilledQty, Mentions, Of
    <3>5. TargetOK' /\ ServedOK'
      BY <2>1, <3>1, VolumeStays DEF AInv, TargetOK, ServedOK
    <3> QED
      BY <3>2, <3>3, <3>4, <3>5 DEF AInv
  <2> QED
    BY <2>3, <2>4
<1> QED
  BY <1>1, Inductive, AuctionInitially, PTL DEF Spec

\* When a side's orders in reach are filled, what it wanted has been traded.
LEMMA FilledIsTraded ==
  ASSUME IInv, SlotsOK, TradedOK, NEW side \in Sides, NEW p \in Nat,
         \A s \in DOMAIN order :
           order[s].side = side /\ ~Better(side, p, order[s].price) => order[s].leaves = 0
  PROVE  Wanted(side, p) <= Total(Traded, DOMAIN reports)
<1>1. PICK R, S : R = Wanting(side, p) /\ S = Of(side)
  OBVIOUS
<1>2. R \subseteq S /\ S \subseteq DOMAIN lines /\ IsFiniteSet(R) /\ IsFiniteSet(S)
  <2>1. R \subseteq S /\ S \subseteq DOMAIN lines
    BY <1>1 DEF Wanting, Of
  <2> QED
    BY <2>1, Finite DEF IInv
<1>3. \A n \in S : FilledQty[n] \in Nat
  BY <1>2, FilledIsNat DEF IInv
<1>4. ASSUME NEW n \in R PROVE Sizes[n] = FilledQty[n]
  <2>1. n \in DOMAIN lines /\ lines[n].side = side /\ ~Better(side, p, lines[n].price)
    BY <1>1, <1>4 DEF Wanting
  <2>2. PICK s \in DOMAIN order : order[s].id = n
    BY <2>1 DEF SlotsOK
  <2>3. order[s].side = side /\ order[s].price = lines[n].price /\ order[s].qty = lines[n].qty
    BY <2>1, <2>2 DEF IInv, EntriesOK
  <2>4. order[s].leaves = 0
    BY <2>1, <2>3
  <2>5. order[s].qty - order[s].leaves = FilledQty[n]
    BY <2>2 DEF IInv, ReportsComplete
  <2>6. Sizes[n] = lines[n].qty /\ Sizes[n] \in Nat
    BY <2>1, WantedSums DEF IInv, WantsKnown
  <2> QED
    BY <2>3, <2>4, <2>5, <2>6
<1>5. Total(Sizes, R) = Total(FilledQty, R)
  BY <1>2, <1>4, TotalAgrees
<1>6. Total(FilledQty, R) <= Total(FilledQty, S)
  BY <1>2, <1>3, TotalOfPart
<1>7. Total(Traded, DOMAIN reports) = Total(FilledQty, S)
  BY <1>1 DEF TradedOK
<1>8. Wanted(side, p) = Total(Sizes, R)
  BY <1>1, WantedSums DEF IInv, WantsKnown
<1> QED
  BY <1>5, <1>6, <1>7, <1>8

LEMMA AuctionFollows == IInv /\ AInv => AuctionBest
<1> SUFFICES ASSUME IInv, AInv, pc = "auction" PROVE TargetIsBest /\ TradesTheVolume
  BY DEF AuctionBest, TargetIsBest, TradesTheVolume
<1>1. SlotsOK /\ TradedOK /\ TargetOK /\ ServedOK
  BY DEF IInv, KindsOK, PlaceOK, AInv
<1>2. TargetIsBest
  BY <1>1 DEF TargetOK, TargetIsBest
<1>3. ASSUME todo = {} PROVE Volume(target) <= Total(Traded, DOMAIN reports)
  <2>1. target \in Nat
    BY PricesAreNumbers DEF IInv, KindsOK, None
  <2>2. PICK v \in Nat, w \in Nat, x \in Nat :
          v = Volume(target) /\ w = Wanted("BUY", target) /\ x = Wanted("SELL", target)
    <3>1. Wanted("BUY", target) \in Nat /\ Wanted("SELL", target) \in Nat
      BY <2>1, WantedSums DEF IInv, WantsKnown, Sides
    <3> QED
      BY <2>1, <3>1, VolumeIsMin DEF IInv
  <2>3. v <= w /\ v <= x
    BY <2>1, <2>2, VolumeIsMin DEF IInv
  <2>4. PICK y : y = Total(Traded, DOMAIN reports)
    OBVIOUS
  <2>5. y \in Nat
    <3>1. IsFiniteSet(DOMAIN reports) /\ \A i \in DOMAIN reports : Traded[i] \in Nat
      BY Finite, FilledIsNat DEF IInv
    <3> QED
      BY <2>4, <3>1, TotalNat
  <2>6. \A s \in DOMAIN order : order[s].price \in Nat
    <3>1. \A s \in DOMAIN order : order[s].price \in Prices
      BY DEF IInv, KindsOK, Records
    <3> QED
      BY <3>1, PricesAreNumbers
  <2>7. CASE \A s \in DOMAIN order :
               order[s].side = "BUY" /\ order[s].price >= target => order[s].leaves = 0
    <3>1. \A s \in DOMAIN order :
            order[s].side = "BUY" /\ ~Better("BUY", target, order[s].price) => order[s].leaves = 0
      BY <2>1, <2>6, <2>7 DEF Better
    <3>2. w <= y
      BY <1>1, <2>1, <2>2, <2>4, <3>1, FilledIsTraded DEF Sides
    <3> QED
      BY <2>2, <2>3, <2>4, <2>5, <3>2
  <2>8. ASSUME NEW s \in DOMAIN order, order[s].side = "BUY", order[s].price >= target,
               order[s].leaves # 0
        PROVE  Volume(target) <= Total(Traded, DOMAIN reports)
    <3>1. \A t \in DOMAIN order :
            order[t].side = "SELL" /\ order[t].price <= order[s].price => order[t].leaves = 0
      BY <1>1, <1>3, <2>8 DEF ServedOK
    <3>2. \A t \in DOMAIN order :
            order[t].side = "SELL" /\ ~Better("SELL", target, order[t].price) => order[t].leaves = 0
      BY <2>1, <2>6, <2>8, <3>1 DEF Better
    <3>3. x <= y
      BY <1>1, <2>1, <2>2, <2>4, <3>2, FilledIsTraded DEF Sides
    <3> QED
      BY <2>2, <2>3, <2>4, <2>5, <3>3
  <2> QED
    BY <2>7, <2>8
<1>4. TradesTheVolume
  <2>1. \A x, y : x <= y => y >= x
    OBVIOUS
  <2> QED
    BY <1>3, <2>1 DEF TradesTheVolume
<1> QED
  BY <1>2, <1>4

\* Under the auction rule, for any file: the price called is one of greatest
\* worth, counted from the lines, and when the last buy has been matched no
\* less than its volume has traded (Book::consolidateQty, Book::match).
THEOREM AuctionCorrect == Spec => []AuctionBest
  BY Inductive, AuctionInductive, AuctionFollows, PTL
=============================================================================
