---------------------------- MODULE MemoryProofs ----------------------------
(***************************************************************************)
(* What TLAPS proves about the memory devices.  For any files, geometries, *)
(* byte counts and bound, a scull device whose trims take the semaphore    *)
(* keeps its list, its quanta and its size together, and loses no byte but *)
(* by a trim, until a write goes into the list with a geometry that it had *)
(* loaded before a trim changed it.  And for any processes, calls and      *)
(* listings, scullp and its kind trim nothing that is mapped unless two    *)
(* processes count at once, and a list is shown after it is freed only     *)
(* where a trim comes between scullmem's load and its semaphore.           *)
(***************************************************************************)
EXTENDS MCScullMemory, SequenceTheorems, FiniteSetTheorems, TLAPS

-----------------------------------------------------------------------------
(* Lists of quantum sets, whatever device they are of: q is the size of a  *)
(* quantum, s that of an array, and z the size of the device.              *)

Lists == Seq(Seq(Seq(Int)))

\* The file position of byte k of quantum j of item i
PosOf(q, s, i, j, k) == ((i - 1) * s + j - 1) * q + k - 1

\* Arrays and quanta have their sizes, and bytes are where they belong.
Fits(d, q, s, z) ==
  /\ d \in Lists
  /\ \A i \in 1 .. Len(d) :
       /\ Len(d[i]) \in {0, s}
       /\ \A j \in 1 .. Len(d[i]) :
            /\ Len(d[i][j]) \in {0, q}
            /\ \A k \in 1 .. Len(d[i][j]) :
                 \/ d[i][j][k] = Junk
                 \/ d[i][j][k] = PosOf(q, s, i, j, k) /\ d[i][j][k] < z

HasByte(d, b) ==
  \E i \in 1 .. Len(d) : \E j \in 1 .. Len(d[i]) : \E k \in 1 .. Len(d[i][j]) :
    d[i][j][k] = b

\* e has all that has been stored in d, at the same places.
Extends(e, d) ==
  \A i \in 1 .. Len(d) : \A j \in 1 .. Len(d[i]) : \A k \in 1 .. Len(d[i][j]) :
    d[i][j][k] # Junk =>
      /\ i \in 1 .. Len(e) /\ j \in 1 .. Len(e[i]) /\ k \in 1 .. Len(e[i][j])
      /\ e[i][j][k] = d[i][j][k]

\* Nothing is lost on the way through two lists.
LEMMA ExtendsTwice ==
  ASSUME NEW d, NEW e, NEW g, Extends(e, d), Extends(g, e)
  PROVE  Extends(g, d)
<1> SUFFICES ASSUME NEW i \in 1 .. Len(d), NEW j \in 1 .. Len(d[i]),
                    NEW k \in 1 .. Len(d[i][j]), d[i][j][k] # Junk
             PROVE  /\ i \in 1 .. Len(g) /\ j \in 1 .. Len(g[i])
                    /\ k \in 1 .. Len(g[i][j]) /\ g[i][j][k] = d[i][j][k]
  BY DEF Extends
<1>1. /\ i \in 1 .. Len(e) /\ j \in 1 .. Len(e[i]) /\ k \in 1 .. Len(e[i][j])
      /\ e[i][j][k] = d[i][j][k]
  BY DEF Extends
<1> QED
  BY <1>1, SMTT(20) DEF Extends

LEMMA ExtendsItself ==
  ASSUME NEW d
  PROVE  Extends(d, d)
BY DEF Extends

\* A byte stays where it is when the list is extended.
LEMMA ByteStays ==
  ASSUME NEW d, NEW e, Extends(e, d), NEW b, b # Junk, HasByte(d, b)
  PROVE  HasByte(e, b)
<1>1. PICK i \in 1 .. Len(d) : \E j \in 1 .. Len(d[i]) : \E k \in 1 .. Len(d[i][j]) :
        d[i][j][k] = b
  BY DEF HasByte
<1>2. PICK j \in 1 .. Len(d[i]) : \E k \in 1 .. Len(d[i][j]) : d[i][j][k] = b
  BY <1>1
<1>3. PICK k \in 1 .. Len(d[i][j]) : d[i][j][k] = b
  BY <1>2
<1>4. /\ i \in 1 .. Len(e) /\ j \in 1 .. Len(e[i]) /\ k \in 1 .. Len(e[i][j])
      /\ e[i][j][k] = b
  BY <1>3 DEF Extends
<1> QED
  BY <1>4 DEF HasByte

\* A sequence with one element replaced, and one that is made of one element.
LEMMA Replaced ==
  ASSUME NEW S, NEW d \in Seq(S), NEW i \in 1 .. Len(d), NEW x \in S
  PROVE  LET e == [d EXCEPT ![i] = x] IN
         /\ e \in Seq(S) /\ Len(e) = Len(d) /\ e[i] = x
         /\ \A h \in 1 .. Len(d) : h # i => e[h] = d[h]
<1> DEFINE e == [d EXCEPT ![i] = x]
<1>1. e \in Seq(S) /\ Len(e) = Len(d)
  BY ExceptSeq
<1> QED
  BY <1>1

LEMMA Made ==
  ASSUME NEW S, NEW n \in Nat, NEW x \in S
  PROVE  LET e == [k \in 1 .. n |-> x] IN
         /\ e \in Seq(S) /\ Len(e) = n
         /\ \A k \in 1 .. n : e[k] = x
OBVIOUS

\* scull_follow only adds empty items, and so many as it is asked for.
LEMMA FollowedFits ==
  ASSUME NEW q, NEW s, NEW z, Fits(data, q, s, z), NEW n \in Nat
  PROVE  /\ Fits(Followed(n), q, s, z)
         /\ Extends(Followed(n), data)
         /\ Len(Followed(n)) = IF n > Len(data) THEN n ELSE Len(data)
<1> DEFINE m == IF n > Len(data) THEN n - Len(data) ELSE 0
           new == [k \in 1 .. m |-> <<>>]
<1>1. data \in Lists /\ Len(data) \in Nat
  BY DEF Fits, Lists
<1>2. m \in Nat /\ Len(data) + m = IF n > Len(data) THEN n ELSE Len(data)
  BY <1>1
<1>3. <<>> \in Seq(Seq(Int)) /\ Len(<<>>) = 0
  OBVIOUS
<1>4. new \in Lists /\ Len(new) = m /\ \A k \in 1 .. m : new[k] = <<>>
  BY <1>2, <1>3, Made DEF Lists
<1>5. Followed(n) = data \o new
  BY DEF Followed
<1> HIDE DEF m, new
<1>6. /\ data \o new \in Lists /\ Len(data \o new) = Len(data) + Len(new)
      /\ \A i \in 1 .. Len(data) + Len(new) :
           (data \o new)[i] = IF i <= Len(data) THEN data[i] ELSE new[i - Len(data)]
  BY <1>1, <1>4, ConcatProperties DEF Lists
<1>7. /\ Followed(n) \in Lists /\ Len(Followed(n)) = Len(data) + m
      /\ \A i \in 1 .. Len(data) + m :
           Followed(n)[i] = IF i <= Len(data) THEN data[i] ELSE new[i - Len(data)]
  BY <1>6, <1>4, <1>5
<1>8. ASSUME NEW i \in 1 .. Len(Followed(n))
      PROVE  \/ i \in 1 .. Len(data) /\ Followed(n)[i] = data[i]
             \/ Followed(n)[i] = <<>>
  BY <1>1, <1>2, <1>4, <1>7
<1>9. Fits(Followed(n), q, s, z)
  BY <1>3, <1>7, <1>8, SMTT(20) DEF Fits
<1>10. \A i \in 1 .. Len(data) : i \in 1 .. Len(Followed(n)) /\ Followed(n)[i] = data[i]
  BY <1>1, <1>2, <1>7
<1>11. Extends(Followed(n), data)
  BY <1>10 DEF Extends
<1> QED
  BY <1>2, <1>7, <1>9, <1>11

\* kmalloc of the array of an item, all of whose quanta are missing
LEMMA WithArrayFits ==
  ASSUME NEW q, NEW s \in Nat \ {0}, NEW z, NEW d, Fits(d, q, s, z),
         NEW i \in 1 .. Len(d)
  PROVE  /\ Fits(WithArray(d, i, s), q, s, z)
         /\ Extends(WithArray(d, i, s), d)
         /\ Len(WithArray(d, i, s)) = Len(d) /\ Len(WithArray(d, i, s)[i]) = s
<1>1. d \in Lists /\ Len(d[i]) \in {0, s} /\ d[i] \in Seq(Seq(Int))
  <2>1. d \in Lists /\ Len(d[i]) \in {0, s}
    BY Zenon DEF Fits
  <2>2. d[i] \in Seq(Seq(Int))
    BY <2>1 DEF Lists
  <2> QED
    BY <2>1, <2>2
<1>2. CASE d[i] = <<>>
  <2> DEFINE new == [k \in 1 .. s |-> <<>>]
             e == WithArray(d, i, s)
  <2>1. <<>> \in Seq(Int) /\ Len(<<>>) = 0
    OBVIOUS
  <2>2. new \in Seq(Seq(Int)) /\ Len(new) = s /\ \A k \in 1 .. s : new[k] = <<>>
    BY <2>1, Made
  <2>3. e = [d EXCEPT ![i] = new]
    BY <1>2 DEF WithArray
  <2> HIDE DEF new, e
  <2>4. /\ e \in Lists /\ Len(e) = Len(d) /\ e[i] = new
        /\ \A h \in 1 .. Len(d) : h # i => e[h] = d[h]
    BY <1>1, <2>2, <2>3, Replaced DEF Lists
  <2>5. Len(d[i]) = 0
    BY <1>2
  <2>6. Fits(e, q, s, z)
    <3>1. \A h \in 1 .. Len(e) :
            \/ e[h] = d[h] /\ h \in 1 .. Len(d)
            \/ Len(e[h]) = s /\ \A j \in 1 .. s : e[h][j] = <<>>
      BY <2>2, <2>4
    <3>2. ASSUME NEW h \in 1 .. Len(e)
          PROVE  /\ Len(e[h]) \in {0, s}
                 /\ \A j \in 1 .. Len(e[h]) :
                      /\ Len(e[h][j]) \in {0, q}
                      /\ \A k \in 1 .. Len(e[h][j]) :
                           \/ e[h][j][k] = Junk
                           \/ e[h][j][k] = PosOf(q, s, h, j, k) /\ e[h][j][k] < z
      <4>1. CASE e[h] = d[h] /\ h \in 1 .. Len(d)
        <5>1. /\ Len(d[h]) \in {0, s}
              /\ \A j \in 1 .. Len(d[h]) :
                   /\ Len(d[h][j]) \in {0, q}
                   /\ \A k \in 1 .. Len(d[h][j]) :
                        \/ d[h][j][k] = Junk
                        \/ d[h][j][k] = PosOf(q, s, h, j, k) /\ d[h][j][k] < z
          BY <4>1 DEF Fits
        <5> QED
          BY <4>1, <5>1
      <4>2. CASE Len(e[h]) = s /\ \A j \in 1 .. s : e[h][j] = <<>>
        BY <2>1, <4>2
      <4> QED
        BY <3>1, <4>1, <4>2
    <3> QED
      BY <2>4, <3>2 DEF Fits
  <2>7. Extends(e, d)
    BY <2>4, <2>5 DEF Extends
  <2> QED
    BY <2>2, <2>4, <2>6, <2>7 DEF e
<1>3. CASE d[i] # <<>>
  <2>1. WithArray(d, i, s) = d
    BY <1>3 DEF WithArray
  <2>2. Len(d[i]) # 0
    BY <1>1, <1>3, EmptySeq
  <2> QED
    BY <1>1, <2>1, <2>2, ExtendsItself
<1> QED
  BY <1>2, <1>3

\* kmalloc of a quantum, whose bytes are not those of any position
LEMMA WithQuantumFits ==
  ASSUME NEW q \in Nat \ {0}, NEW s, NEW z, NEW d, Fits(d, q, s, z),
         NEW i \in 1 .. Len(d), NEW j \in 1 .. Len(d[i])
  PROVE  /\ Fits(WithQuantum(d, i, j, q), q, s, z)
         /\ Extends(WithQuantum(d, i, j, q), d)
         /\ Len(WithQuantum(d, i, j, q)) = Len(d)
         /\ Len(WithQuantum(d, i, j, q)[i]) = Len(d[i])
         /\ Len(WithQuantum(d, i, j, q)[i][j]) = q
<1>1. /\ d \in Lists /\ d[i] \in Seq(Seq(Int))
      /\ Len(d[i][j]) \in {0, q} /\ d[i][j] \in Seq(Int)
  <2>1. d \in Lists /\ d[i] \in Seq(Seq(Int))
    BY DEF Fits, Lists
  <2>2. d[i][j] \in Seq(Int)
    BY <2>1
  <2> QED
    BY <2>1, <2>2 DEF Fits
<1>2. CASE d[i][j] = <<>>
  <2> DEFINE new == [k \in 1 .. q |-> Junk]
             a == [d[i] EXCEPT ![j] = new]
             e == WithQuantum(d, i, j, q)
  <2>1. new \in Seq(Int) /\ Len(new) = q /\ \A k \in 1 .. q : new[k] = Junk
    BY Made DEF Junk
  <2>2. e = [d EXCEPT ![i] = a]
    BY <1>2 DEF WithQuantum
  <2> HIDE DEF new, e
  <2>3. /\ a \in Seq(Seq(Int)) /\ Len(a) = Len(d[i]) /\ a[j] = new
        /\ \A h \in 1 .. Len(d[i]) : h # j => a[h] = d[i][h]
    BY <1>1, <2>1, Replaced, SMTT(40)
  <2> HIDE DEF a
  <2>4. /\ e \in Lists /\ Len(e) = Len(d) /\ e[i] = a
        /\ \A h \in 1 .. Len(d) : h # i => e[h] = d[h]
    BY <1>1, <2>2, <2>3, Replaced DEF Lists
  <2>5. Len(d[i][j]) = 0
    BY <1>2
  <2>6. ASSUME NEW h \in 1 .. Len(d), NEW m \in 1 .. Len(d[h])
        PROVE  /\ h \in 1 .. Len(e) /\ m \in 1 .. Len(e[h])
               /\ e[h][m] = IF h = i /\ m = j THEN new ELSE d[h][m]
    BY <2>3, <2>4
  <2>7. \A h \in 1 .. Len(d) : Len(e[h]) = Len(d[h])
    BY <2>3, <2>4
  <2>8. Fits(e, q, s, z)
    <3>1. ASSUME NEW h \in 1 .. Len(e), NEW m \in 1 .. Len(e[h])
          PROVE  /\ Len(e[h][m]) \in {0, q}
                 /\ \A k \in 1 .. Len(e[h][m]) :
                      \/ e[h][m][k] = Junk
                      \/ e[h][m][k] = PosOf(q, s, h, m, k) /\ e[h][m][k] < z
      <4>1. h \in 1 .. Len(d) /\ m \in 1 .. Len(d[h])
        BY <2>4, <2>7
      <4>2. CASE h = i /\ m = j
        BY <2>1, <2>6, <4>1, <4>2
      <4>3. CASE ~(h = i /\ m = j)
        <5>1. e[h][m] = d[h][m]
          BY <2>6, <4>1, <4>3
        <5> QED
          BY <4>1, <5>1 DEF Fits
      <4> QED
        BY <4>2, <4>3
    <3>2. \A h \in 1 .. Len(e) : Len(e[h]) \in {0, s}
      BY <2>4, <2>7 DEF Fits
    <3> QED
      BY <2>4, <3>1, <3>2 DEF Fits
  <2>9. Extends(e, d)
    <3> SUFFICES ASSUME NEW h \in 1 .. Len(d), NEW m \in 1 .. Len(d[h]),
                        NEW k \in 1 .. Len(d[h][m])
                 PROVE  /\ h \in 1 .. Len(e) /\ m \in 1 .. Len(e[h])
                        /\ k \in 1 .. Len(e[h][m]) /\ e[h][m][k] = d[h][m][k]
      BY DEF Extends
    <3>1. ~(h = i /\ m = j)
      BY <2>5
    <3> QED
      BY <2>6, <3>1
  <2> QED
    BY <2>1, <2>3, <2>4, <2>8, <2>9 DEF e
<1>3. CASE d[i][j] # <<>>
  <2>1. WithQuantum(d, i, j, q) = d
    BY <1>3 DEF WithQuantum
  <2>2. Len(d[i][j]) # 0
    BY <1>1, <1>3, EmptySeq
  <2> QED
    BY <1>1, <2>1, <2>2, ExtendsItself
<1> QED
  BY <1>2, <1>3

LEMMA ListParts ==
  ASSUME NEW d \in Lists, NEW i \in 1 .. Len(d)
  PROVE  /\ Len(d) \in Nat /\ d[i] \in Seq(Seq(Int)) /\ Len(d[i]) \in Nat
         /\ \A j \in 1 .. Len(d[i]) : d[i][j] \in Seq(Int)
<1>1. Len(d) \in Nat /\ d[i] \in Seq(Seq(Int))
  BY DEF Lists
<1> QED
  BY <1>1

\* Within a quantum, positions go on one by one.
LEMMA PosNext ==
  ASSUME NEW q \in Nat, NEW s \in Nat, NEW i \in Nat, NEW j \in Nat, NEW o \in Nat,
         NEW k \in Nat
  PROVE  PosOf(q, s, i, j, k) = PosOf(q, s, i, j, o + 1) + k - o - 1
<1>1. PICK b : b = ((i - 1) * s + j - 1) * q
  OBVIOUS
<1>2. b \in Int
  BY <1>1
<1>3. PosOf(q, s, i, j, k) = b + k - 1 /\ PosOf(q, s, i, j, o + 1) = b + (o + 1) - 1
  BY <1>1 DEF PosOf
<1>4. b + k - 1 = b + (o + 1) - 1 + k - o - 1
  BY <1>2
<1> QED
  BY <1>3, <1>4

LEMMA Division ==
  ASSUME NEW p \in Nat, NEW q \in Nat \ {0}, NEW a, NEW r, a = p \div q, r = p % q
  PROVE  a \in Nat /\ r \in 0 .. q - 1 /\ p = a * q + r
<1>1. a \in Nat
  OBVIOUS
<1>2. r \in 0 .. q - 1
  OBVIOUS
<1>3. p = a * q + r
  OBVIOUS
<1> QED
  BY <1>1, <1>2, <1>3

LEMMA Quotient ==
  ASSUME NEW p \in Nat, NEW q \in Nat \ {0}, NEW s \in Nat \ {0}, p < q * s
  PROVE  p \div q < s
<1>1. PICK a, r : a = p \div q /\ r = p % q
  OBVIOUS
<1>2. a \in Nat /\ r \in Nat /\ p = a * q + r
  BY <1>1, Division
<1>3. ASSUME a >= s PROVE FALSE
  <2>1. PICK c \in Nat : a = s + c
    BY <1>2, <1>3
  <2>2. a * q = s * q + c * q
    BY <1>2, <2>1
  <2>3. c * q \in Nat /\ s * q = q * s
    BY <2>1
  <2> QED
    BY <1>2, <2>2, <2>3
<1> QED
  BY <1>1, <1>2, <1>3

\* read() and write() split a position the way it was put together.
LEMMA Split ==
  ASSUME NEW p \in Nat, NEW q \in Nat \ {0}, NEW s \in Nat \ {0}, NEW op, NEW m
  PROVE  \E i \in Nat \ {0}, j \in 1 .. s, o \in 0 .. q - 1 :
           /\ Request(op, p, q, s, m) =
                [op |-> op, item |-> i, slot |-> j, off |-> o,
                 n |-> WithinQuantum(m, q, o)]
           /\ p = PosOf(q, s, i, j, o + 1)
<1>1. PICK w : w = q * s
  OBVIOUS
<1>2. w \in Nat \ {0}
  BY <1>1
<1>3. PICK a \in Nat, r \in Nat : a = p \div w /\ r = p % w
  <2>1. p \div w \in Nat /\ p % w \in Nat
    BY <1>2
  <2> QED
    BY ONLY <2>1, Zenon
<1>4. r < w /\ p = a * w + r
  BY <1>2, <1>3, Division
<1>5. PICK b \in Nat, o \in Nat : b = r \div q /\ o = r % q
  <2>1. r \div q \in Nat /\ r % q \in Nat
    OBVIOUS
  <2> QED
    BY ONLY <2>1, Zenon
<1>6. o \in 0 .. q - 1 /\ r = b * q + o
  BY <1>5, Division
<1>7. b < s
  BY <1>1, <1>4, <1>5, Quotient
<1>8. PosOf(q, s, a + 1, b + 1, o + 1) = (a * s + b) * q + o
  BY <1>4, <1>6 DEF PosOf
<1>9. (a * s + b) * q = a * w + b * q
  BY <1>1, <1>4, <1>6
<1>10. p = PosOf(q, s, a + 1, b + 1, o + 1)
  BY <1>2, <1>4, <1>6, <1>8, <1>9
<1>11. b + 1 \in 1 .. s /\ a + 1 \in Nat \ {0}
  BY <1>4, <1>6, <1>7
<1>12. Request(op, p, q, s, m) =
         [op |-> op, item |-> a + 1, slot |-> b + 1, off |-> o,
          n |-> WithinQuantum(m, q, o)]
  <2>1. Request(op, p, q, s, m) =
          [op |-> op, item |-> p \div w + 1, slot |-> (p % w) \div q + 1,
           off |-> (p % w) % q, n |-> WithinQuantum(m, q, (p % w) % q)]
    BY <1>1, Zenon DEF Request
  <2> QED
    BY ONLY <1>3, <1>5, <2>1, Zenon
<1> QED
  BY ONLY <1>6, <1>10, <1>11, <1>12, Zenon

\* The bytes of a write, as they go to the quantum
Written(d, i, j, o, n, p) ==
  [d EXCEPT ![i][j] =
     [k \in DOMAIN @ |-> IF k \in o + 1 .. o + n THEN p + k - o - 1 ELSE @[k]]]

\* copy_from_user to the place of the position, and the new size
LEMMA WrittenFits ==
  ASSUME NEW q \in Nat \ {0}, NEW s \in Nat \ {0}, NEW z \in Nat, NEW d, Fits(d, q, s, z),
         NEW i \in 1 .. Len(d), NEW j \in 1 .. Len(d[i]), Len(d[i][j]) = q,
         NEW o \in Nat, NEW n \in Nat \ {0}, o + n <= q,
         NEW p \in Nat, p = PosOf(q, s, i, j, o + 1),
         NEW y \in Nat, z <= y, p + n <= y
  PROVE  LET e == Written(d, i, j, o, n, p) IN
         Fits(e, q, s, y) /\ Extends(e, d) /\ HasByte(e, p + n - 1)
<1> DEFINE new == [k \in 1 .. q |-> IF k \in o + 1 .. o + n THEN p + k - o - 1
                                                          ELSE d[i][j][k]]
           a == [d[i] EXCEPT ![j] = new]
           e == Written(d, i, j, o, n, p)
<1>1. /\ d \in Lists /\ d[i] \in Seq(Seq(Int)) /\ Len(d) \in Nat /\ Len(d[i]) \in Nat
      /\ d[i][j] \in Seq(Int)
  BY ListParts DEF Fits
<1>2. /\ DOMAIN d[i][j] = 1 .. q
      /\ \A k \in 1 .. q : d[i][j][k] \in Int
  BY <1>1, LenProperties, ElementOfSeq
<1>3. new \in Seq(Int) /\ Len(new) = q
  <2>1. \A k \in 1 .. q : new[k] \in Int
    BY <1>2, SMTT(40)
  <2> HIDE DEF new
  <2>2. new = [k \in 1 .. q |-> new[k]]
    BY DEF new
  <2>3. new \in [1 .. q -> Int]
    BY <2>1, <2>2
  <2> QED
    BY <2>3
<1>4. \A k \in 1 .. q : new[k] = IF k \in o + 1 .. o + n THEN p + k - o - 1
                                                         ELSE d[i][j][k]
  OBVIOUS
<1>5. e = [d EXCEPT ![i] = a]
  BY <1>2 DEF Written
<1> HIDE DEF new, e
<1>6. /\ a \in Seq(Seq(Int)) /\ Len(a) = Len(d[i]) /\ a[j] = new
      /\ \A h \in 1 .. Len(d[i]) : h # j => a[h] = d[i][h]
  <2>1. d[i] \in Seq(Seq(Int)) /\ new \in Seq(Int) /\ j \in 1 .. Len(d[i])
    BY <1>1, <1>3
  <2> QED
    BY ONLY <2>1, Replaced DEF a
<1> HIDE DEF a
<1>7. /\ e \in Lists /\ Len(e) = Len(d) /\ e[i] = a
      /\ \A h \in 1 .. Len(d) : h # i => e[h] = d[h]
  BY <1>1, <1>5, <1>6, Replaced DEF Lists
<1>8. \A h \in 1 .. Len(d) : Len(e[h]) = Len(d[h])
  BY <1>6, <1>7
<1>9. ASSUME NEW h \in 1 .. Len(d), NEW m \in 1 .. Len(d[h])
      PROVE  e[h][m] = IF h = i /\ m = j THEN new ELSE d[h][m]
  BY <1>6, <1>7
<1>10. \A k \in 1 .. q : PosOf(q, s, i, j, k) = p + k - o - 1
  <2>1. i \in Nat /\ j \in Nat
    <3>1. Len(d) \in Nat /\ Len(d[i]) \in Nat
      BY <1>1
    <3> QED
      BY <3>1
  <2>2. ASSUME NEW k \in Nat
        PROVE  PosOf(q, s, i, j, k) = PosOf(q, s, i, j, o + 1) + k - o - 1
    BY ONLY <2>1, PosNext
  <2>3. \A k \in 1 .. q : k \in Nat
    OBVIOUS
  <2> QED
    BY <2>2, <2>3
<1>11. \A k \in 1 .. q : d[i][j][k] = Junk \/ (d[i][j][k] = p + k - o - 1 /\ d[i][j][k] < z)
  BY <1>10 DEF Fits
<1>12. \A k \in 1 .. q : new[k] = Junk \/ (new[k] = p + k - o - 1 /\ new[k] < y)
  <2>1. ASSUME NEW k \in 1 .. q, k \in o + 1 .. o + n
        PROVE  new[k] = p + k - o - 1 /\ new[k] < y
    <3>1. new[k] = p + k - o - 1
      BY <1>4, <2>1
    <3>2. p + k - o - 1 < y
      BY <2>1
    <3> QED
      BY <3>1, <3>2
  <2>2. ASSUME NEW k \in 1 .. q, k \notin o + 1 .. o + n
        PROVE  new[k] = Junk \/ (new[k] = p + k - o - 1 /\ new[k] < y)
    <3>1. new[k] = d[i][j][k]
      BY <1>4, <2>2
    <3>2. \/ new[k] = Junk
          \/ new[k] = p + k - o - 1 /\ new[k] < z
      BY <1>11, <3>1
    <3> QED
      BY <3>2, SMTT(20)
  <2> QED
    BY <2>1, <2>2
<1>13. Fits(e, q, s, y)
  <2>1. ASSUME NEW h \in 1 .. Len(e), NEW m \in 1 .. Len(e[h])
        PROVE  /\ Len(e[h][m]) \in {0, q}
               /\ \A k \in 1 .. Len(e[h][m]) :
                    \/ e[h][m][k] = Junk
                    \/ e[h][m][k] = PosOf(q, s, h, m, k) /\ e[h][m][k] < y
    <3>1. h \in 1 .. Len(d) /\ m \in 1 .. Len(d[h])
      BY <1>7, <1>8
    <3>2. CASE h = i /\ m = j
      <4>1. e[h][m] = new
        BY <1>9, <3>1, <3>2
      <4> QED
        BY <1>3, <1>10, <1>12, <3>2, <4>1
    <3>3. CASE ~(h = i /\ m = j)
      <4>1. e[h][m] = d[h][m]
        BY <1>9, <3>1, <3>3
      <4>2. /\ Len(d[h][m]) \in {0, q}
            /\ \A k \in 1 .. Len(d[h][m]) :
                 \/ d[h][m][k] = Junk
                 \/ d[h][m][k] = PosOf(q, s, h, m, k) /\ d[h][m][k] < z
        BY <3>1 DEF Fits
      <4>3. \A k \in 1 .. Len(d[h][m]) : d[h][m][k] \in Int
        <5>1. d[h][m] \in Seq(Int)
          BY <1>1, <3>1, ListParts
        <5> QED
          BY <5>1, ElementOfSeq
      <4>4. \A k \in 1 .. Len(d[h][m]) : d[h][m][k] < z => d[h][m][k] < y
        <5>1. \A b \in Int : b < z => b < y
          OBVIOUS
        <5> QED
          BY <4>3, <5>1
      <4> QED
        BY <4>1, <4>2, <4>4
    <3> QED
      BY <3>2, <3>3
  <2>2. \A h \in 1 .. Len(e) : Len(e[h]) \in {0, s}
    BY <1>7, <1>8 DEF Fits
  <2> QED
    BY <1>7, <2>1, <2>2 DEF Fits
<1>14. Extends(e, d)
  <2> SUFFICES ASSUME NEW h \in 1 .. Len(d), NEW m \in 1 .. Len(d[h]),
                      NEW k \in 1 .. Len(d[h][m]), d[h][m][k] # Junk
               PROVE  /\ h \in 1 .. Len(e) /\ m \in 1 .. Len(e[h])
                      /\ k \in 1 .. Len(e[h][m]) /\ e[h][m][k] = d[h][m][k]
    BY ZenonT(40) DEF Extends
  <2>1. h \in 1 .. Len(e) /\ m \in 1 .. Len(e[h])
    BY <1>7, <1>8
  <2>2. CASE h = i /\ m = j
    <3>1. e[h][m] = new
      BY <1>9, <2>2
    <3>2. k \in 1 .. q /\ d[i][j][k] = p + k - o - 1
      BY <1>11, <2>2
    <3>3. new[k] = d[i][j][k]
      BY <1>4, <3>2
    <3> QED
      BY <1>3, <2>1, <2>2, <3>1, <3>2, <3>3
  <2>3. CASE ~(h = i /\ m = j)
    <3>1. e[h][m] = d[h][m]
      BY <1>9, <2>3
    <3> QED
      BY <2>1, <3>1
  <2> QED
    BY <2>2, <2>3
<1>15. HasByte(e, p + n - 1)
  <2>1. e[i][j] = new /\ i \in 1 .. Len(e) /\ j \in 1 .. Len(e[i])
    BY <1>7, <1>8, <1>9
  <2>2. o + n \in 1 .. q /\ o + n \in o + 1 .. o + n
    OBVIOUS
  <2>3. new[o + n] = p + n - 1
    BY <1>4, <2>2
  <2>4. o + n \in 1 .. Len(e[i][j]) /\ e[i][j][o + n] = p + n - 1
    BY <1>3, <2>1, <2>2, <2>3
  <2> QED
    BY <2>1, <2>4 DEF HasByte
<1> QED
  BY <1>13, <1>14, <1>15 DEF e

-----------------------------------------------------------------------------
(* The same steps on any list, whatever it holds.                          *)

LEMMA FollowedIs ==
  ASSUME data \in Lists, NEW n \in Nat
  PROVE  /\ Followed(n) \in Lists
         /\ Len(Followed(n)) = IF n > Len(data) THEN n ELSE Len(data)
         /\ \A i \in 1 .. Len(Followed(n)) :
              \/ i \in 1 .. Len(data) /\ Followed(n)[i] = data[i]
              \/ i \notin 1 .. Len(data) /\ Followed(n)[i] = <<>>
<1> DEFINE m == IF n > Len(data) THEN n - Len(data) ELSE 0
           new == [k \in 1 .. m |-> <<>>]
<1>1. Len(data) \in Nat
  BY DEF Lists
<1>2. m \in Nat /\ Len(data) + m = IF n > Len(data) THEN n ELSE Len(data)
  BY <1>1
<1>3. <<>> \in Seq(Seq(Int))
  OBVIOUS
<1>4. new \in Lists /\ Len(new) = m /\ \A k \in 1 .. m : new[k] = <<>>
  BY <1>2, <1>3, Made DEF Lists
<1>5. Followed(n) = data \o new
  BY DEF Followed
<1> HIDE DEF m, new
<1>6. /\ data \o new \in Lists /\ Len(data \o new) = Len(data) + Len(new)
      /\ \A i \in 1 .. Len(data) + Len(new) :
           (data \o new)[i] = IF i <= Len(data) THEN data[i] ELSE new[i - Len(data)]
  BY <1>1, <1>4, ConcatProperties DEF Lists
<1> QED
  BY <1>1, <1>2, <1>4, <1>5, <1>6

LEMMA WithArrayIs ==
  ASSUME NEW s \in Nat \ {0}, NEW d \in Lists, NEW i \in 1 .. Len(d)
  PROVE  /\ WithArray(d, i, s) \in Lists /\ Len(WithArray(d, i, s)) = Len(d)
         /\ Len(WithArray(d, i, s)[i]) = IF d[i] = <<>> THEN s ELSE Len(d[i])
<1>1. CASE d[i] = <<>>
  <2> DEFINE new == [k \in 1 .. s |-> <<>>]
  <2>1. <<>> \in Seq(Int)
    OBVIOUS
  <2>2. new \in Seq(Seq(Int)) /\ Len(new) = s
    BY <2>1, Made
  <2>3. WithArray(d, i, s) = [d EXCEPT ![i] = new]
    BY <1>1 DEF WithArray
  <2> HIDE DEF new
  <2>4. LET e == [d EXCEPT ![i] = new] IN
        e \in Lists /\ Len(e) = Len(d) /\ e[i] = new
    BY <2>2, Replaced DEF Lists
  <2> QED
    BY <1>1, <2>2, <2>3, <2>4
<1>2. CASE d[i] # <<>>
  BY <1>2 DEF WithArray
<1> QED
  BY <1>1, <1>2

\* A quantum put in its place
Put(d, i, j, x) == [d EXCEPT ![i] = [d[i] EXCEPT ![j] = x]]

LEMMA QuantumPut ==
  ASSUME NEW d \in Lists, NEW i \in 1 .. Len(d), NEW j \in 1 .. Len(d[i]),
         NEW x \in Seq(Int)
  PROVE  /\ Put(d, i, j, x) \in Lists /\ Len(Put(d, i, j, x)) = Len(d)
         /\ Len(Put(d, i, j, x)[i]) = Len(d[i])
<1>1. d[i] \in Seq(Seq(Int))
  BY ListParts
<1>2. PICK a : a = [d[i] EXCEPT ![j] = x]
  OBVIOUS
<1>3. a \in Seq(Seq(Int)) /\ Len(a) = Len(d[i]) /\ a[j] = x
  BY <1>1, <1>2, Replaced
<1>4. LET e == [d EXCEPT ![i] = a] IN e \in Lists /\ Len(e) = Len(d) /\ e[i] = a
  BY <1>3, Replaced DEF Lists
<1>5. Put(d, i, j, x) = [d EXCEPT ![i] = a]
  BY <1>2 DEF Put
<1> QED
  BY <1>3, <1>4, <1>5

LEMMA WithQuantumIs ==
  ASSUME NEW q \in Nat \ {0}, NEW d \in Lists, NEW i \in 1 .. Len(d),
         NEW j \in 1 .. Len(d[i])
  PROVE  /\ WithQuantum(d, i, j, q) \in Lists
         /\ Len(WithQuantum(d, i, j, q)) = Len(d)
         /\ Len(WithQuantum(d, i, j, q)[i]) = Len(d[i])
<1>1. CASE d[i][j] = <<>>
  <2> DEFINE new == [k \in 1 .. q |-> Junk]
  <2>1. new \in Seq(Int)
    BY Made DEF Junk
  <2>2. WithQuantum(d, i, j, q) = Put(d, i, j, new)
    BY <1>1 DEF WithQuantum, Put
  <2> HIDE DEF new
  <2> QED
    BY <2>1, <2>2, QuantumPut
<1>2. CASE d[i][j] # <<>>
  BY <1>2 DEF WithQuantum
<1> QED
  BY <1>1, <1>2

LEMMA WrittenIs ==
  ASSUME NEW d \in Lists, NEW i \in 1 .. Len(d), NEW j \in 1 .. Len(d[i]),
         NEW o \in Nat, NEW n \in Nat, NEW p \in Nat
  PROVE  Written(d, i, j, o, n, p) \in Lists
<1> DEFINE new == [k \in DOMAIN d[i][j] |-> IF k \in o + 1 .. o + n THEN p + k - o - 1
                                                                 ELSE d[i][j][k]]
<1>1. d[i][j] \in Seq(Int)
  BY ListParts
<1>2. PICK l \in Nat : DOMAIN d[i][j] = 1 .. l /\ \A k \in 1 .. l : d[i][j][k] \in Int
  BY <1>1, LenProperties, ElementOfSeq
<1>3. new \in Seq(Int)
  <2>1. \A k \in 1 .. l : new[k] \in Int
    BY <1>2, SMTT(40)
  <2>2. new = [k \in 1 .. l |-> new[k]]
    BY <1>2
  <2> HIDE DEF new
  <2>3. new \in [1 .. l -> Int]
    BY <2>1, <2>2
  <2> QED
    BY <2>3
<1>4. Written(d, i, j, o, n, p) = Put(d, i, j, new)
  BY DEF Written, Put
<1> HIDE DEF new
<1> QED
  BY <1>3, <1>4, QuantumPut

-----------------------------------------------------------------------------
(* The invariant *)

Requests ==
  [op : {"none", "read", "write"}, item : Nat, slot : Nat, off : Nat, n : Nat]

KindsOK ==
  /\ scull_quantum \in Quanta /\ scull_qset \in Qsets
  /\ quantum \in Quanta /\ qset \in Qsets
  /\ size \in 0 .. MaxSize /\ data \in Lists
  /\ freed \in BOOLEAN /\ stained \in BOOLEAN
  /\ sem \in Files \cup {Free}
  /\ at \in [Files -> Places]
  /\ f_pos \in [Files -> 0 .. MaxSize]
  /\ geo \in [Files -> (Quanta \cup {0}) \X (Qsets \cup {0})]
  /\ req \in [Files -> Requests]

\* Where a file holds the semaphore
Held == {"reset", "follow", "copy", "astray"}

\* The semaphore is held by who is between down and up, the list is freed
\* only in a trim, and nobody has used what was freed.
LockOK ==
  /\ \A f \in Files : at[f] \in Held <=> sem = f
  /\ freed => sem # Free /\ at[sem] = "reset"
  /\ dangling = {}

\* What a call has loaded are values of the parameters, which need not be
\* those of the device any more.
GeoFile(f) ==
  /\ at[f] = "load" => geo[f] \in Quanta \X {0}
  /\ at[f] \in {"down", "follow", "copy"} => geo[f] \in Quanta \X Qsets
  /\ at[f] \in {"follow", "copy"} => req[f].op \in {"read", "write"}

GeoOK == \A f \in Files : GeoFile(f)

\* The list fits the geometry, and its last byte is the size's, unless a write
\* with an old geometry has been at it.
DataOK ==
  ~stained => /\ Fits(data, quantum, qset, size)
              /\ size > 0 => HasByte(data, size - 1)

\* A request is at its file's position, within one quantum, by the geometry of
\* the call.
Located(f) ==
  LET r == req[f] IN
  /\ r.item > 0 /\ r.slot \in 1 .. geo[f][2]
  /\ r.off < geo[f][1] /\ r.off + r.n <= geo[f][1] /\ r.n > 0
  /\ f_pos[f] = PosOf(geo[f][1], geo[f][2], r.item, r.slot, r.off + 1)
  /\ f_pos[f] + r.n <= MaxSize

\* Its quantum is there when the copy begins, whole if the geometry is the
\* device's; a write with another has left its mark by then.
Present(f) ==
  LET r == req[f] IN
  /\ r.item <= Len(data) /\ r.slot <= Len(data[r.item])
  /\ ~stained /\ Current(f) => Len(data[r.item][r.slot]) = quantum
  /\ r.op = "write" => stained \/ Current(f)

\* Who has left the list had an old geometry, or came after one that had.
Lost(f) == stained \/ (req[f].op # "none" /\ ~Current(f))

ReqFile(f) ==
  /\ at[f] \in {"follow", "copy"} => Located(f)
  /\ at[f] = "copy" => Present(f)
  /\ at[f] = "astray" => Lost(f)

ReqOK == \A f \in Files : ReqFile(f)

IInv == KindsOK /\ LockOK /\ GeoOK /\ DataOK /\ ReqOK

\* A trim takes the semaphore.
Usage == TrimLocked

\* What a step leaves of the list: all that is stored, or nothing, or what a
\* write with an old geometry makes of it.
Kept ==
  \/ stained' \/ data' = <<>>
  \/ ~stained /\ Extends(data', data) /\ qset' = qset

LEMMA Geometry ==
  ASSUME IInv
  PROVE  quantum \in Nat \ {0} /\ qset \in Nat \ {0} /\ size \in Nat /\ MaxSize \in Nat
BY DevAssumption DEF IInv, KindsOK

LEMMA LeastOfTwo ==
  ASSUME NEW m \in Nat \ {0}, NEW n \in Nat \ {0}
  PROVE  /\ MinOf({m, n}) \in Nat \ {0}
         /\ MinOf({m, n}) <= m /\ MinOf({m, n}) <= n
<1>1. \E x \in {m, n} : \A y \in {m, n} : x <= y
  OBVIOUS
<1> QED
  BY <1>1 DEF MinOf

LEMMA InitOK ==
  ASSUME Init
  PROVE  IInv
<1>1. SCULL_QUANTUM \in Quanta /\ SCULL_QSET \in Qsets /\ MaxSize \in Nat /\ Free \notin Files
  BY DevAssumption
<1>2. KindsOK
  <2>1. NoGeo \in (Quanta \cup {0}) \X (Qsets \cup {0})
    BY DEF NoGeo
  <2>2. NoReq \in Requests
    BY DEF NoReq, Requests
  <2>3. /\ at \in [Files -> Places] /\ f_pos \in [Files -> 0 .. MaxSize]
        /\ size \in 0 .. MaxSize /\ data \in Lists
    BY <1>1 DEF Init, Places, Lists
  <2> QED
    BY <1>1, <2>1, <2>2, <2>3 DEF Init, KindsOK
<1>3. LockOK
  BY <1>1 DEF Init, LockOK, Held
<1>4. GeoOK /\ ReqOK
  BY DEF Init, GeoOK, GeoFile, ReqOK, ReqFile
<1>5. DataOK
  <2>1. data \in Lists /\ Len(data) = 0 /\ ~(size > 0)
    BY DEF Init, Lists
  <2> QED
    BY <2>1 DEF DataOK, Fits
<1> QED
  BY <1>2, <1>3, <1>4, <1>5 DEF IInv

-----------------------------------------------------------------------------
(* What most steps have in common *)

\* The other files stay where they are, with what they have.
Others(f) ==
  \A g \in Files \ {f} : /\ at'[g] = at[g] /\ f_pos'[g] = f_pos[g]
                         /\ geo'[g] = geo[g] /\ req'[g] = req[g]

LEMMA DataStays ==
  ASSUME IInv, UNCHANGED <<quantum, qset, size, data, stained>>
  PROVE  DataOK' /\ Kept
BY ExtendsItself DEF IInv, KindsOK, DataOK, Kept

\* A step outside the semaphore
LEMMA Outside ==
  ASSUME IInv, NEW f \in Files, Others(f), UNCHANGED <<device, sem, stained, dangling>>,
         at[f] \notin Held, at'[f] \notin Held, KindsOK', GeoFile(f)'
  PROVE  IInv' /\ Kept
<1>1. UNCHANGED <<quantum, qset, size, data, freed>>
  BY DEF device
<1>2. DataOK' /\ Kept
  BY <1>1, DataStays
<1>3. LockOK'
  BY <1>1 DEF IInv, LockOK, KindsOK, Others
<1>4. GeoOK'
  <2>1. ASSUME NEW g \in Files, g # f PROVE GeoFile(g)'
    BY <1>1, <2>1 DEF IInv, GeoOK, GeoFile, Others
  <2> QED
    BY <2>1 DEF GeoOK
<1>5. ReqOK'
  <2>1. ASSUME NEW g \in Files, g # f PROVE ReqFile(g)'
    BY <1>1, <2>1
    DEF IInv, ReqOK, ReqFile, Located, Present, Lost, Current, Others
  <2>2. ReqFile(f)'
    BY DEF ReqFile, Held
  <2> QED
    BY <2>1, <2>2 DEF ReqOK
<1> QED
  BY <1>2, <1>3, <1>4, <1>5 DEF IInv

\* A step under the semaphore
LEMMA Inside ==
  ASSUME IInv, NEW f \in Files, Others(f), sem = f, UNCHANGED <<quantum, qset>>,
         KindsOK', LockOK', GeoFile(f)', ReqFile(f)', DataOK'
  PROVE  IInv'
<1>1. ASSUME NEW g \in Files, g # f PROVE at'[g] = at[g] /\ at[g] \notin Held
  BY <1>1 DEF IInv, LockOK, Others
<1>2. ASSUME NEW g \in Files, g # f PROVE GeoFile(g)'
  BY <1>2 DEF IInv, GeoOK, GeoFile, Others
<1>3. ASSUME NEW g \in Files, g # f PROVE ReqFile(g)'
  BY <1>1, <1>3 DEF ReqFile, Held
<1>4. GeoOK'
  BY <1>2 DEF GeoOK
<1>5. ReqOK'
  BY <1>3 DEF ReqOK
<1> QED
  BY <1>4, <1>5 DEF IInv

\* Back from read() or write()
LEMMA Returns ==
  ASSUME IInv, NEW f \in Files, at[f] \in {"follow", "copy"}, Return(f), sem' = Free,
         f_pos' \in [Files -> 0 .. MaxSize], \A g \in Files \ {f} : f_pos'[g] = f_pos[g],
         UNCHANGED <<globals, quantum, qset, freed, dangling>>,
         size' \in 0 .. MaxSize, data' \in Lists, stained' \in BOOLEAN, DataOK'
  PROVE  IInv'
<1>1. /\ at' = [at EXCEPT ![f] = "user"] /\ geo' = [geo EXCEPT ![f] = NoGeo]
      /\ req' = [req EXCEPT ![f] = NoReq]
  BY DEF Return, Go
<1>2. KindsOK'
  BY <1>1 DEF IInv, KindsOK, globals, Places, NoGeo, NoReq, Requests
<1>3. Others(f) /\ at'[f] = "user"
  BY <1>1 DEF Others, IInv, KindsOK
<1>4. sem = f /\ ~freed
  BY DEF IInv, LockOK, Held
<1>5. LockOK'
  BY <1>3, <1>4, DevAssumption DEF IInv, LockOK, Held, Others
<1>6. GeoFile(f)' /\ ReqFile(f)'
  BY <1>3 DEF GeoFile, ReqFile
<1> QED
  BY <1>2, <1>3, <1>4, <1>5, <1>6, Inside

-----------------------------------------------------------------------------
(* The steps *)

LEMMA OpenOK ==
  ASSUME IInv, NEW f \in Files, NEW wronly, Open(f, wronly)
  PROVE  IInv' /\ Kept
<1>1. /\ at[f] = "closed" /\ at' = [at EXCEPT ![f] = IF wronly THEN "trim" ELSE "user"]
      /\ f_pos' = [f_pos EXCEPT ![f] = 0]
      /\ UNCHANGED <<globals, device, sem, geo, req, stained, dangling>>
  BY DEF Open, Go
<1>2. 0 \in 0 .. MaxSize
  BY Geometry
<1>3. KindsOK'
  BY <1>1, <1>2 DEF IInv, KindsOK, globals, device, Places
<1>4. Others(f) /\ at'[f] \in {"trim", "user"}
  BY <1>1 DEF IInv, KindsOK, Others
<1>5. GeoFile(f)'
  BY <1>4 DEF GeoFile
<1> QED
  BY <1>1, <1>3, <1>4, <1>5, Outside DEF Held

LEMMA CloseOK ==
  ASSUME IInv, NEW f \in Files, Close(f)
  PROVE  IInv' /\ Kept
<1>1. /\ at[f] = "user" /\ at' = [at EXCEPT ![f] = "closed"]
      /\ f_pos' = [f_pos EXCEPT ![f] = 0]
      /\ UNCHANGED <<globals, device, sem, geo, req, stained, dangling>>
  BY DEF Close, Go
<1>2. KindsOK'
  <2>1. 0 \in 0 .. MaxSize
    BY Geometry
  <2> QED
    BY <1>1, <2>1 DEF IInv, KindsOK, globals, device, Places
<1>3. Others(f) /\ at'[f] = "closed"
  BY <1>1 DEF IInv, KindsOK, Others
<1>4. GeoFile(f)'
  BY <1>3 DEF GeoFile
<1> QED
  BY <1>1, <1>2, <1>3, <1>4, Outside DEF Held

LEMMA InterruptedOK ==
  ASSUME IInv, NEW f \in Files, Interrupted(f)
  PROVE  IInv' /\ Kept
<1>1. UNCHANGED <<globals, device, sem, f_pos, stained, dangling>>
  BY DEF Interrupted, locals
<1>2. CASE at[f] = "trim" /\ at' = [at EXCEPT ![f] = "closed"] /\ UNCHANGED <<geo, req>>
  <2>1. KindsOK'
    BY <1>1, <1>2 DEF IInv, KindsOK, globals, device, Places
  <2>2. Others(f) /\ at'[f] = "closed"
    BY <1>1, <1>2 DEF IInv, KindsOK, Others
  <2>3. GeoFile(f)'
    BY <2>2 DEF GeoFile
  <2> QED
    BY <1>1, <1>2, <2>1, <2>2, <2>3, Outside DEF Held
<1>3. CASE at[f] = "down" /\ Return(f)
  <2>1. /\ at' = [at EXCEPT ![f] = "user"] /\ geo' = [geo EXCEPT ![f] = NoGeo]
        /\ req' = [req EXCEPT ![f] = NoReq]
    BY <1>3 DEF Return, Go
  <2>2. KindsOK'
    BY <1>1, <2>1 DEF IInv, KindsOK, globals, device, Places, NoGeo, NoReq, Requests
  <2>3. Others(f) /\ at'[f] = "user"
    BY <1>1, <2>1 DEF IInv, KindsOK, Others
  <2>4. GeoFile(f)'
    BY <2>3 DEF GeoFile
  <2> QED
    BY <1>1, <1>3, <2>2, <2>3, <2>4, Outside DEF Held
<1> QED
  BY <1>2, <1>3 DEF Interrupted, Go, locals

LEMMA SeekOK ==
  ASSUME IInv, NEW f \in Files, Seek(f)
  PROVE  IInv' /\ Kept
<1>1. PICK p \in 0 .. MaxSize : f_pos' = [f_pos EXCEPT ![f] = p]
  BY DEF Seek
<1>2. at[f] = "user" /\ UNCHANGED <<globals, device, sem, at, geo, req, stained, dangling>>
  BY DEF Seek
<1>3. KindsOK'
  BY <1>1, <1>2 DEF IInv, KindsOK, globals, device
<1>4. Others(f) /\ at'[f] = "user"
  BY <1>1, <1>2 DEF IInv, KindsOK, Others
<1>5. GeoFile(f)'
  BY <1>4 DEF GeoFile
<1> QED
  BY <1>2, <1>3, <1>4, <1>5, Outside DEF Held

\* ioctl changes the parameters, which are not those of the device.
LEMMA TellOK ==
  ASSUME IInv, NEW f \in Files, Tell(f)
  PROVE  IInv' /\ Kept
<1>1. at[f] = "user" /\ UNCHANGED <<device, sem, at, f_pos, geo, req, stained, dangling>>
  BY DEF Tell, locals
<1>2. scull_quantum' \in Quanta /\ scull_qset' \in Qsets
  BY DevAssumption DEF Tell, TellQuantum, TellQset, IInv, KindsOK
<1>3. KindsOK'
  BY <1>1, <1>2 DEF IInv, KindsOK, device
<1>4. Others(f) /\ at'[f] = "user"
  BY <1>1 DEF Others
<1>5. GeoFile(f)'
  BY <1>4 DEF GeoFile
<1> QED
  BY <1>1, <1>3, <1>4, <1>5, Outside DEF Held

\* The two halves of the geometry, loaded one after the other
LEMMA LoadQuantumOK ==
  ASSUME IInv, NEW f \in Files, LoadQuantum(f)
  PROVE  IInv' /\ Kept
<1>1. /\ at[f] = "user" /\ at' = [at EXCEPT ![f] = "load"]
      /\ geo' = [geo EXCEPT ![f] = <<quantum, 0>>]
      /\ UNCHANGED <<globals, device, sem, f_pos, req, stained, dangling>>
  BY DEF LoadQuantum, Go
<1>2. <<quantum, 0>> \in Quanta \X {0}
  BY DEF IInv, KindsOK
<1>3. KindsOK'
  <2>1. <<quantum, 0>> \in (Quanta \cup {0}) \X (Qsets \cup {0})
    BY DEF IInv, KindsOK
  <2> QED
    BY <1>1, <2>1 DEF IInv, KindsOK, globals, device, Places
<1>4. Others(f) /\ at'[f] = "load" /\ geo'[f] = <<quantum, 0>>
  BY <1>1 DEF IInv, KindsOK, Others
<1>5. GeoFile(f)'
  BY <1>2, <1>4 DEF GeoFile
<1> QED
  BY <1>1, <1>3, <1>4, <1>5, Outside DEF Held

LEMMA LoadQsetOK ==
  ASSUME IInv, NEW f \in Files, LoadQset(f)
  PROVE  IInv' /\ Kept
<1>1. /\ at[f] = "load" /\ at' = [at EXCEPT ![f] = "down"]
      /\ geo' = [geo EXCEPT ![f] = <<geo[f][1], qset>>]
      /\ UNCHANGED <<globals, device, sem, f_pos, req, stained, dangling>>
  BY DEF LoadQset, Go
<1>2. <<geo[f][1], qset>> \in Quanta \X Qsets
  BY <1>1 DEF IInv, GeoOK, GeoFile, KindsOK
<1>3. KindsOK'
  BY <1>1, <1>2 DEF IInv, KindsOK, globals, device, Places
<1>4. Others(f) /\ at'[f] = "down" /\ geo'[f] = <<geo[f][1], qset>>
  BY <1>1 DEF IInv, KindsOK, Others
<1>5. GeoFile(f)'
  BY <1>2, <1>4 DEF GeoFile
<1> QED
  BY <1>1, <1>3, <1>4, <1>5, Outside DEF Held

\* The trim has the semaphore to itself: no copy goes on, and nothing has been
\* freed before.
LEMMA TrimFreeOK ==
  ASSUME IInv, Usage, NEW f \in Files, TrimFree(f)
  PROVE  IInv' /\ Kept
<1>1. /\ at[f] = "trim" /\ sem = Free /\ sem' = f
      /\ at' = [at EXCEPT ![f] = "reset"] /\ freed' = TRUE
      /\ UNCHANGED <<scull_quantum, scull_qset, quantum, qset, size, data,
                     f_pos, geo, req, stained>>
  BY DEF TrimFree, TrimMayStart, Usage, Go, globals, locals
<1>2. ASSUME NEW g \in Files PROVE at[g] \notin Held
  BY <1>1, DevAssumption DEF IInv, LockOK
<1>3. ~freed
  BY <1>1 DEF IInv, LockOK
<1>4. dangling' = {}
  <2>1. {g \in Files : at[g] = "copy"} = {}
    BY <1>2 DEF Held
  <2>2. dangling = {}
    BY DEF IInv, LockOK
  <2> QED
    BY <1>3, <2>1, <2>2 DEF TrimFree
<1>5. KindsOK'
  BY <1>1 DEF IInv, KindsOK, Places
<1>6. Others(f) /\ at'[f] = "reset"
  BY <1>1 DEF IInv, KindsOK, Others
<1>7. LockOK'
  BY <1>1, <1>2, <1>4, <1>6, DevAssumption DEF LockOK, Held, Others
<1>8. ASSUME NEW g \in Files PROVE GeoFile(g)' /\ ReqFile(g)'
  <2>1. GeoFile(g)'
    BY <1>1, <1>6 DEF IInv, GeoOK, GeoFile, Others
  <2>2. at'[g] \notin {"follow", "copy", "astray"}
    BY <1>2, <1>6 DEF Others, Held
  <2> QED
    BY <2>1, <2>2 DEF ReqFile
<1>9. DataOK' /\ Kept
  BY <1>1, DataStays
<1> QED
  BY <1>5, <1>7, <1>8, <1>9 DEF IInv, GeoOK, ReqOK

\* The reset leaves the calls that have loaded a geometry with that geometry,
\* which may be another than the device gets.
LEMMA TrimResetOK ==
  ASSUME IInv, Usage, NEW f \in Files, TrimReset(f)
  PROVE  IInv' /\ Kept
<1>1. /\ at[f] = "reset"
      /\ size' = 0 /\ quantum' = scull_quantum /\ qset' = scull_qset
      /\ data' = <<>> /\ freed' = FALSE /\ stained' = FALSE
      /\ sem' = IF sem = f THEN Free ELSE sem
      /\ at' = [at EXCEPT ![f] = "user"]
      /\ UNCHANGED <<scull_quantum, scull_qset, f_pos, geo, req, dangling>>
  BY DEF TrimReset, TrimmedData, Usage, Go, globals, locals
<1>2. sem = f /\ sem' = Free
  BY <1>1 DEF IInv, LockOK, Held
<1>3. ASSUME NEW g \in Files, g # f PROVE at[g] \notin Held
  BY <1>2, <1>3 DEF IInv, LockOK
<1>4. KindsOK'
  <2>1. 0 \in 0 .. MaxSize
    BY Geometry
  <2>2. data' \in Lists
    BY <1>1 DEF Lists
  <2> QED
    BY <1>1, <1>2, <2>1, <2>2 DEF IInv, KindsOK, Places
<1>5. Others(f) /\ at'[f] = "user"
  BY <1>1 DEF IInv, KindsOK, Others
<1>6. LockOK'
  BY <1>1, <1>2, <1>3, <1>5, DevAssumption DEF IInv, LockOK, Held, Others
<1>7. ASSUME NEW g \in Files PROVE GeoFile(g)'
  BY <1>1, <1>5 DEF IInv, GeoOK, GeoFile, Others
<1>8. ASSUME NEW g \in Files PROVE ReqFile(g)'
  <2>1. at'[g] \notin {"follow", "copy", "astray"}
    BY <1>3, <1>5 DEF Others, Held
  <2> QED
    BY <2>1 DEF ReqFile
<1>9. DataOK' /\ Kept
  <2>1. data' \in Lists /\ Len(data') = 0 /\ ~(size' > 0)
    BY <1>1 DEF Lists
  <2> QED
    BY <1>1, <2>1 DEF DataOK, Fits, Kept
<1> QED
  BY <1>4, <1>6, <1>7, <1>8, <1>9 DEF IInv, GeoOK, ReqOK

\* The copy ends with the quantum, and a read with the file.
ReadOrWrite == {"read", "write"}

LEMMA LocateOK ==
  ASSUME IInv, NEW f \in Files, NEW op \in ReadOrWrite, Locate(f, op)
  PROVE  IInv' /\ Kept
<1>1. /\ at[f] = "down" /\ sem = Free
      /\ op = "write" => f_pos[f] < MaxSize
      /\ UNCHANGED <<globals, device, f_pos, stained, dangling>>
  BY DEF Locate
<1>2. CASE Return(f) /\ UNCHANGED sem
  <2>1. /\ at' = [at EXCEPT ![f] = "user"] /\ geo' = [geo EXCEPT ![f] = NoGeo]
        /\ req' = [req EXCEPT ![f] = NoReq]
    BY <1>2 DEF Return, Go
  <2>2. KindsOK'
    BY <1>1, <1>2, <2>1
    DEF IInv, KindsOK, globals, device, Places, NoGeo, NoReq, Requests
  <2>3. Others(f) /\ at'[f] = "user"
    BY <1>1, <2>1 DEF IInv, KindsOK, Others
  <2>4. GeoFile(f)'
    BY <2>3 DEF GeoFile
  <2> QED
    BY <1>1, <1>2, <2>2, <2>3, <2>4, Outside DEF Held
<1>3. CASE ~(op = "read" /\ f_pos[f] >= size)
  <2>1. PICK q \in Nat \ {0}, s \in Nat \ {0}, p \in Nat :
          geo[f] = <<q, s>> /\ q \in Quanta /\ s \in Qsets /\ p = f_pos[f]
    <3>1. geo[f] \in Quanta \X Qsets
      BY <1>1 DEF IInv, GeoOK, GeoFile
    <3>2. PICK q \in Quanta, s \in Qsets : geo[f] = <<q, s>>
      BY <3>1
    <3>3. f_pos[f] \in Nat
      BY DEF IInv, KindsOK
    <3>4. q \in Nat \ {0} /\ s \in Nat \ {0}
      BY DevAssumption
    <3> QED
      BY <3>2, <3>3, <3>4
  <2>2. size \in Nat /\ MaxSize \in Nat
    BY Geometry
  <2>3. geo[f][1] = q /\ geo[f][2] = s
    BY <2>1
  <2>4. op = "write" => p < MaxSize
    BY <1>1, <2>1
  <2>5. /\ sem' = f /\ at' = [at EXCEPT ![f] = "follow"] /\ UNCHANGED geo
        /\ \E n \in Counts :
             req' = [req EXCEPT ![f] = Request(op, p, q, s, Asked(f, op, n))]
    BY <1>3, <2>1, <2>3 DEF Locate, Go
  <2>6. PICK n \in Counts :
          req' = [req EXCEPT ![f] = Request(op, p, q, s, Asked(f, op, n))]
    BY <2>5
  <2>7. PICK m : m = Asked(f, op, n)
    OBVIOUS
  <2>8. PICK i \in Nat \ {0}, j \in 1 .. s, o \in 0 .. q - 1 :
          /\ Request(op, p, q, s, m) =
               [op |-> op, item |-> i, slot |-> j, off |-> o,
                n |-> WithinQuantum(m, q, o)]
          /\ p = PosOf(q, s, i, j, o + 1)
    <3>1. q \in Nat \ {0} /\ s \in Nat \ {0} /\ p \in Nat
      BY <2>1
    <3> QED
      BY ONLY <3>1, Split
  <2>9. PICK c : c = WithinQuantum(m, q, o)
    OBVIOUS
  <2>10. n \in Nat \ {0}
    BY DevAssumption
  <2>11. m \in Nat \ {0} /\ p + m <= MaxSize
    <3>1. CASE op = "read"
      <4>1. p < size /\ size <= MaxSize
        BY <1>3, <2>1, <2>2, <3>1 DEF IInv, KindsOK
      <4>2. m = MinOf({n, size - p})
        BY <2>1, <2>7, <3>1 DEF Asked
      <4>3. size - p \in Nat \ {0}
        BY <2>2, <4>1
      <4>4. m \in Nat \ {0} /\ m <= size - p
        BY <2>10, <4>2, <4>3, LeastOfTwo
      <4> QED
        BY <2>2, <4>1, <4>4
    <3>2. CASE op = "write"
      <4>1. MaxSize - p \in Nat \ {0}
        BY <2>2, <2>4, <3>2
      <4>2. m = MinOf({n, MaxSize - p})
        BY <2>1, <2>7, <3>2 DEF Asked
      <4>3. m \in Nat \ {0} /\ m <= MaxSize - p
        BY <2>10, <4>1, <4>2, LeastOfTwo
      <4> QED
        BY <2>2, <4>3
    <3> QED
      BY <3>1, <3>2 DEF ReadOrWrite
  <2>12. c \in Nat \ {0} /\ c <= m /\ o + c <= q
    <3>1. q - o \in Nat \ {0}
      BY <2>2, <2>8, <2>9
    <3>2. c = MinOf({m, q - o})
      BY <2>8, <2>9 DEF WithinQuantum
    <3>3. c \in Nat \ {0} /\ c <= m /\ c <= q - o
      BY <2>11, <3>1, <3>2, LeastOfTwo
    <3> QED
      BY <2>2, <2>8, <2>9, <3>3
  <2>13. req' = [req EXCEPT ![f] =
                   [op |-> op, item |-> i, slot |-> j, off |-> o, n |-> c]]
    BY <2>6, <2>7, <2>8, <2>9
  <2>14. [op |-> op, item |-> i, slot |-> j, off |-> o, n |-> c] \in Requests
    BY <2>8, <2>9, <2>12 DEF Requests, ReadOrWrite
  <2>15. KindsOK'
    BY <1>1, <2>5, <2>13, <2>14 DEF IInv, KindsOK, globals, device, Places
  <2>16. /\ Others(f) /\ at'[f] = "follow"
         /\ req'[f] = [op |-> op, item |-> i, slot |-> j, off |-> o, n |-> c]
    BY <1>1, <2>5, <2>13 DEF IInv, KindsOK, Others
  <2>17. ASSUME NEW g \in Files PROVE at[g] \notin Held
    BY <1>1, DevAssumption DEF IInv, LockOK
  <2>18. LockOK'
    BY <1>1, <2>5, <2>16, <2>17, DevAssumption DEF IInv, LockOK, Held, Others, device
  <2>19. ASSUME NEW g \in Files PROVE GeoFile(g)'
    <3>1. CASE g = f
      <4>1. geo'[f] \in Quanta \X Qsets
        BY <1>1, <2>5 DEF IInv, GeoOK, GeoFile
      <4>2. req'[f].op = op
        BY <2>16
      <4> QED
        BY <2>16, <3>1, <4>1, <4>2 DEF GeoFile, ReadOrWrite
    <3>2. CASE g # f
      BY <2>16, <3>2 DEF IInv, GeoOK, GeoFile, Others
    <3> QED
      BY <3>1, <3>2
  <2>20. ASSUME NEW g \in Files PROVE ReqFile(g)'
    <3>1. CASE g = f
      <4>1. geo'[f][1] = q /\ geo'[f][2] = s /\ f_pos' = f_pos
        BY <1>1, <2>3, <2>5
      <4>2. p + c <= MaxSize
        BY <2>2, <2>11, <2>12
      <4>3. Located(f)'
        <5>1. req'[f].item = i /\ req'[f].slot = j /\ req'[f].off = o /\ req'[f].n = c
          BY <2>16
        <5>2. f_pos'[f] = PosOf(geo'[f][1], geo'[f][2], i, j, o + 1)
          BY <2>1, <2>8, <2>9, <4>1
        <5> QED
          BY <2>1, <2>8, <2>9, <2>12, <4>1, <4>2, <5>1, <5>2 DEF Located
      <4> QED
        BY <2>16, <3>1, <4>3 DEF ReqFile
    <3>2. CASE g # f
      BY <2>16, <2>17, <3>2 DEF ReqFile, Others, Held
    <3> QED
      BY <3>1, <3>2
  <2>21. DataOK' /\ Kept
    BY <1>1, DataStays DEF device
  <2> QED
    BY <2>15, <2>18, <2>19, <2>20, <2>21 DEF IInv, GeoOK, ReqOK
<1> QED
  BY <1>2, <1>3 DEF Locate

\* Of a file that holds the semaphore for a call: what the call is about
LEMMA UnderWay ==
  ASSUME IInv, NEW f \in Files, at[f] \in {"follow", "copy"}
  PROVE  /\ sem = f /\ ~freed /\ dangling = {}
         /\ geo[f] = <<geo[f][1], geo[f][2]>>
         /\ geo[f][1] \in Nat \ {0} /\ geo[f][2] \in Nat \ {0}
         /\ req[f] \in Requests /\ req[f].op \in {"read", "write"}
         /\ f_pos[f] \in 0 .. MaxSize
         /\ Located(f)
<1>1. sem = f /\ ~freed /\ dangling = {}
  BY DEF IInv, LockOK, Held
<1>2. /\ geo[f] = <<geo[f][1], geo[f][2]>>
      /\ geo[f][1] \in Nat \ {0} /\ geo[f][2] \in Nat \ {0}
  <2>1. geo[f] \in Quanta \X Qsets
    BY DEF IInv, GeoOK, GeoFile
  <2>2. PICK q \in Quanta, s \in Qsets : geo[f] = <<q, s>>
    BY <2>1
  <2>3. q \in Nat \ {0} /\ s \in Nat \ {0}
    BY DevAssumption
  <2> QED
    BY <2>2, <2>3
<1>3. req[f] \in Requests /\ f_pos[f] \in 0 .. MaxSize
  BY DEF IInv, KindsOK
<1>4. Located(f)
  BY DEF IInv, ReqOK, ReqFile
<1>5. req[f].op \in {"read", "write"}
  BY DEF IInv, GeoOK, GeoFile
<1> QED
  BY <1>1, <1>2, <1>3, <1>4, <1>5

\* A list that extends the one there was keeps the last byte where it was.
LEMMA DataExtended ==
  ASSUME IInv, UNCHANGED <<quantum, qset, size>>, stained' \in BOOLEAN,
         stained => stained',
         ~stained' => Fits(data', quantum, qset, size) /\ Extends(data', data)
  PROVE  DataOK' /\ Kept
<1>1. CASE stained'
  BY <1>1 DEF DataOK, Kept
<1>2. CASE ~stained'
  <2>1. size \in Nat
    BY Geometry
  <2>2. size > 0 => HasByte(data', size - 1)
    <3>1. size > 0 => size - 1 # Junk
      BY <2>1 DEF Junk
    <3>2. size > 0 => HasByte(data, size - 1)
      BY <1>2 DEF IInv, DataOK
    <3> QED
      BY <1>2, <3>1, <3>2, ByteStays
  <2> QED
    BY <1>2, <2>2 DEF DataOK, Kept
<1> QED
  BY <1>1, <1>2

\* From scull_follow to the copy
LEMMA Advances ==
  ASSUME IInv, NEW f \in Files, at[f] = "follow",
         at' = [at EXCEPT ![f] = "copy"],
         UNCHANGED <<globals, quantum, qset, size, freed, sem, f_pos, geo, req, dangling>>,
         data' \in Lists, stained' \in BOOLEAN, DataOK', Present(f)'
  PROVE  IInv'
<1>1. KindsOK'
  BY DEF IInv, KindsOK, globals, Places
<1>2. Others(f) /\ at'[f] = "copy"
  BY DEF IInv, KindsOK, Others
<1>3. sem = f /\ ~freed
  BY UnderWay
<1>4. LockOK'
  BY <1>2, <1>3 DEF IInv, LockOK, Held, Others
<1>5. GeoFile(f)'
  BY <1>2 DEF IInv, GeoOK, GeoFile
<1>6. ReqFile(f)'
  <2>1. Located(f)'
    BY UnderWay DEF Located
  <2> QED
    BY <1>2, <2>1 DEF ReqFile
<1> QED
  BY <1>1, <1>2, <1>3, <1>4, <1>5, <1>6, Inside

\* A read finds its quantum or gives up.
LEMMA FollowReadOK ==
  ASSUME IInv, NEW f \in Files, FollowRead(f)
  PROVE  IInv' /\ Kept
<1> DEFINE r == req[f]
<1>1. /\ at[f] = "follow" /\ r.op = "read" /\ ~BeyondArray(r)
      /\ UNCHANGED <<globals, quantum, qset, size, freed, f_pos, stained>>
  BY DEF FollowRead, FollowStart
<1>2. sem = f /\ ~freed /\ r.item \in Nat \ {0} /\ r.slot \in Nat \ {0}
  BY <1>1, UnderWay DEF Located, Requests
<1>3. UNCHANGED dangling
  BY <1>2 DEF FollowRead, FollowStart
<1>4. data \in Lists /\ stained \in BOOLEAN /\ Len(data) \in Nat
  BY DEF IInv, KindsOK, Lists
<1>5. ASSUME NEW n \in Nat, data' = Followed(n)
      PROVE  data' \in Lists /\ DataOK' /\ Kept
  <2>1. data' \in Lists
    BY <1>4, <1>5, FollowedIs
  <2>2. ASSUME ~stained'
        PROVE  Fits(data', quantum, qset, size) /\ Extends(data', data)
    <3>1. Fits(data, quantum, qset, size)
      BY <1>1, <2>2 DEF IInv, DataOK
    <3> QED
      BY <1>5, <3>1, FollowedFits
  <2> QED
    BY <1>1, <1>4, <2>1, <2>2, DataExtended
<1>6. f_pos' \in [Files -> 0 .. MaxSize] /\ size' \in 0 .. MaxSize
  BY <1>1 DEF IInv, KindsOK
<1>7. CASE data' = Followed(r.item) /\ Hole(data', r) /\ Return(f) /\ sem' = Free
  BY <1>1, <1>2, <1>3, <1>4, <1>5, <1>6, <1>7, Returns
<1>8. CASE /\ data' = Followed(r.item) /\ ~Hole(data', r)
           /\ Go(f, "copy") /\ UNCHANGED <<geo, req, sem>>
  <2>1. at' = [at EXCEPT ![f] = "copy"] /\ UNCHANGED <<geo, req, sem>>
    BY <1>8 DEF Go
  <2>2. data' \in Lists /\ DataOK' /\ Kept
    BY <1>2, <1>5, <1>8
  <2>3. /\ r.item \in 1 .. Len(data')
        /\ \/ r.item \in 1 .. Len(data) /\ data'[r.item] = data[r.item]
           \/ r.item \notin 1 .. Len(data) /\ data'[r.item] = <<>>
    <3>1. Len(data') = IF r.item > Len(data) THEN r.item ELSE Len(data)
      BY <1>2, <1>4, <1>8, FollowedIs
    <3>2. r.item \in 1 .. Len(data')
      BY <1>2, <1>4, <3>1
    <3> QED
      BY <1>2, <1>4, <1>8, <3>2, FollowedIs
  <2>4. data'[r.item] # <<>> /\ data'[r.item][r.slot] # <<>>
    BY <1>8 DEF Hole
  <2>5. data'[r.item] \in Seq(Seq(Int)) /\ Len(data'[r.item]) \in Nat
    BY <2>2, <2>3, ListParts
  <2>6. r.slot \in 1 .. Len(data'[r.item])
    <3>1. r.item \in 1 .. Len(data) /\ data'[r.item] = data[r.item]
      BY <2>3, <2>4
    <3>2. ~(r.slot > Len(data[r.item]))
      BY <1>1, <2>4, <3>1 DEF BeyondArray
    <3> QED
      BY <1>2, <2>5, <3>1, <3>2
  <2>7. ASSUME ~stained' PROVE Len(data'[r.item][r.slot]) = quantum
    <3>1. Fits(data', quantum, qset, size)
      BY <1>1, <2>2, <2>7 DEF DataOK
    <3>2. /\ data'[r.item][r.slot] \in Seq(Int)
          /\ Len(data'[r.item][r.slot]) \in {0, quantum}
      BY <2>2, <2>3, <2>6, <3>1, ListParts DEF Fits
    <3> QED
      BY <2>4, <3>2, EmptySeq
  <2>8. Present(f)'
    <3>1. r.item <= Len(data') /\ r.slot <= Len(data'[r.item])
      BY <2>3, <2>6
    <3> QED
      BY <1>1, <2>1, <2>7, <3>1 DEF Present
  <2> QED
    BY <1>1, <1>3, <1>4, <2>1, <2>2, <2>8, Advances
<1>9. CASE /\ \E n \in Len(data) .. r.item - 1 : data' = Followed(n)
           /\ Return(f) /\ sem' = Free
  <2>1. PICK n \in Len(data) .. r.item - 1 : data' = Followed(n)
    BY <1>9
  <2>2. n \in Nat
    BY <1>4, <2>1
  <2> QED
    BY <1>1, <1>3, <1>4, <1>5, <1>6, <1>9, <2>1, <2>2, Returns
<1> QED
  BY <1>7, <1>8, <1>9 DEF FollowRead

\* A write makes its quantum, or as much as there is memory for.
LEMMA FollowWriteOK ==
  ASSUME IInv, NEW f \in Files, FollowWrite(f)
  PROVE  IInv' /\ Kept
<1>1. PICK q, s : q = geo[f][1] /\ s = geo[f][2]
  OBVIOUS
<1>2. /\ at[f] = "follow" /\ req[f].op = "write" /\ ~BeyondArray(req[f])
      /\ UNCHANGED <<globals, quantum, qset, size, freed, f_pos>>
      /\ stained' = (stained \/ ~Current(f))
  BY DEF FollowWrite, FollowStart
<1>3. /\ sem = f /\ ~freed /\ req[f] \in Requests
      /\ geo[f] = <<q, s>> /\ q \in Nat \ {0} /\ s \in Nat \ {0}
  BY <1>1, <1>2, UnderWay
<1>4. UNCHANGED dangling
  BY <1>3 DEF FollowWrite, FollowStart
<1>5. PICK i \in Nat \ {0}, j \in 1 .. s : i = req[f].item /\ j = req[f].slot
  <2>1. req[f].item \in Nat \ {0} /\ req[f].slot \in 1 .. s
    BY <1>1, <1>2, UnderWay DEF Located, Requests
  <2> QED
    BY <2>1
<1> DEFINE list == Followed(i)
           array == WithArray(list, i, s)
           whole == WithQuantum(array, i, j, q)
<1>6. \/ data' = whole /\ Go(f, "copy") /\ UNCHANGED <<geo, req, sem>>
      \/ /\ \/ \E n \in Len(data) .. i - 1 : data' = Followed(n)
            \/ data' = list \/ data' = array
         /\ Return(f) /\ sem' = Free
  BY <1>1, <1>5 DEF FollowWrite
<1>7. data \in Lists /\ Len(data) \in Nat /\ stained \in BOOLEAN /\ stained' \in BOOLEAN
  <2>1. data \in Lists /\ stained \in BOOLEAN
    BY DEF IInv, KindsOK
  <2> QED
    BY <1>2, <2>1 DEF Lists
<1>8. /\ list \in Lists /\ Len(list) \in Nat /\ i \in 1 .. Len(list)
      /\ \/ i \in 1 .. Len(data) /\ list[i] = data[i]
         \/ list[i] = <<>>
  <2>1. list \in Lists /\ Len(list) = IF i > Len(data) THEN i ELSE Len(data)
    BY <1>7, FollowedIs
  <2>2. i \in 1 .. Len(list)
    BY <1>5, <1>7, <2>1
  <2> QED
    BY <1>7, <2>1, <2>2, FollowedIs
<1>9. PICK e : e = list
  OBVIOUS
<1> HIDE DEF list
<1>10. array \in Lists /\ Len(array) = Len(e) /\ j \in 1 .. Len(array[i])
  <2>1. s \in Nat \ {0} /\ e \in Lists /\ i \in 1 .. Len(e) /\ array = WithArray(e, i, s)
    BY <1>3, <1>8, <1>9 DEF array
  <2>2. /\ array \in Lists /\ Len(array) = Len(e)
        /\ Len(array[i]) = IF e[i] = <<>> THEN s ELSE Len(e[i])
    BY ONLY <2>1, WithArrayIs
  <2>3. CASE e[i] = <<>>
    BY <1>5, <2>2, <2>3
  <2>4. CASE e[i] # <<>>
    <3>1. i \in 1 .. Len(data) /\ e[i] = data[i]
      BY <1>8, <1>9, <2>4
    <3>2. ~(j > Len(data[i]))
      BY <1>2, <1>5, <2>4, <3>1 DEF BeyondArray
    <3>3. Len(data[i]) \in Nat
      BY <1>7, <3>1, ListParts
    <3> QED
      BY <1>5, <2>2, <2>4, <3>1, <3>2, <3>3
  <2> QED
    BY <2>2, <2>3, <2>4
<1>11. PICK a : a = array
  OBVIOUS
<1> HIDE DEF array
<1>12. a \in Lists /\ i \in 1 .. Len(a) /\ j \in 1 .. Len(a[i])
  BY <1>8, <1>9, <1>10, <1>11
<1>13. whole \in Lists /\ Len(whole) = Len(a) /\ Len(whole[i]) = Len(a[i])
  <2>1. q \in Nat \ {0} /\ whole = WithQuantum(a, i, j, q)
    BY <1>3, <1>11 DEF whole
  <2> QED
    BY ONLY <1>12, <2>1, WithQuantumIs
<1> HIDE DEF whole
<1>14. ASSUME ~stained'
       PROVE  /\ q = quantum /\ s = qset
              /\ Fits(data, q, s, size)
              /\ Fits(list, q, s, size) /\ Extends(list, data)
              /\ Fits(array, q, s, size) /\ Extends(array, data)
              /\ Fits(whole, q, s, size) /\ Extends(whole, data)
              /\ Len(whole[i][j]) = q
  <2>1. ~stained /\ Current(f)
    BY <1>2, <1>14
  <2>2. <<q, s>> = <<quantum, qset>>
    BY <1>3, <2>1 DEF Current
  <2>3. q = quantum /\ s = qset
    BY <2>2
  <2>4. Fits(data, q, s, size)
    BY <2>1, <2>3 DEF IInv, DataOK
  <2>5. /\ Fits(list, q, s, size) /\ Extends(list, data)
        /\ Len(list) = IF i > Len(data) THEN i ELSE Len(data)
    BY <1>3, <2>4, FollowedFits DEF list
  <2>6. Fits(array, q, s, size) /\ Extends(array, e) /\ Len(array[i]) = s
    <3>1. /\ s \in Nat \ {0} /\ Fits(e, q, s, size) /\ i \in 1 .. Len(e)
          /\ array = WithArray(e, i, s)
      BY <1>3, <1>8, <1>9, <2>5 DEF array
    <3> QED
      BY ONLY <3>1, WithArrayFits
  <2>7. Fits(whole, q, s, size) /\ Extends(whole, a) /\ Len(whole[i][j]) = q
    <3>1. q \in Nat \ {0} /\ Fits(a, q, s, size) /\ whole = WithQuantum(a, i, j, q)
      BY <1>3, <1>11, <2>6 DEF whole
    <3> QED
      BY <1>12, <3>1, WithQuantumFits
  <2>8. Extends(array, data) /\ Extends(whole, data)
    <3>1. Extends(a, data)
      BY <1>9, <1>11, <2>5, <2>6, ExtendsTwice
    <3> QED
      BY <1>11, <2>7, <3>1, ExtendsTwice
  <2> QED
    BY <2>3, <2>4, <2>5, <2>6, <2>7, <2>8
<1>15. CASE data' = whole /\ Go(f, "copy") /\ UNCHANGED <<geo, req, sem>>
  <2>1. DataOK' /\ Kept
    BY <1>2, <1>7, <1>14, <1>15, DataExtended
  <2>2. Present(f)'
    <3>1. i <= Len(whole) /\ j <= Len(whole[i])
      BY <1>12, <1>13
    <3>2. stained' \/ Current(f)'
      BY <1>2, <1>7, <1>15 DEF Current
    <3>3. ~stained' => Len(whole[i][j]) = quantum
      BY <1>14
    <3> QED
      BY <1>2, <1>5, <1>15, <3>1, <3>2, <3>3 DEF Present
  <2>3. at' = [at EXCEPT ![f] = "copy"]
    BY <1>15 DEF Go
  <2>4. data' \in Lists
    BY <1>13, <1>15
  <2> QED
    BY <1>2, <1>4, <1>7, <1>15, <2>1, <2>2, <2>3, <2>4, Advances
<1>16. CASE /\ \/ \E n \in Len(data) .. i - 1 : data' = Followed(n)
               \/ data' = list \/ data' = array
            /\ Return(f) /\ sem' = Free
  <2>1. /\ data' \in Lists
        /\ ~stained' => Fits(data', quantum, qset, size) /\ Extends(data', data)
    <3>1. CASE \E n \in Len(data) .. i - 1 : data' = Followed(n)
      <4>1. PICK n \in Len(data) .. i - 1 : data' = Followed(n)
        BY <3>1
      <4>2. n \in Nat
        BY <1>7, <4>1
      <4>3. data' \in Lists
        BY <1>7, <4>1, <4>2, FollowedIs
      <4>4. ASSUME ~stained'
            PROVE  Fits(data', quantum, qset, size) /\ Extends(data', data)
        <5>1. Fits(data, q, s, size) /\ q = quantum /\ s = qset
          BY <1>14, <4>4
        <5> QED
          BY <1>3, <4>1, <4>2, <5>1, FollowedFits
      <4> QED
        BY <4>3, <4>4
    <3>2. CASE data' = list
      BY <1>8, <1>14, <3>2
    <3>3. CASE data' = array
      BY <1>10, <1>14, <3>3
    <3> QED
      BY <1>16, <3>1, <3>2, <3>3
  <2>2. DataOK' /\ Kept
    BY <1>2, <1>7, <2>1, DataExtended
  <2>3. f_pos' \in [Files -> 0 .. MaxSize] /\ size' \in 0 .. MaxSize
    BY <1>2 DEF IInv, KindsOK
  <2> QED
    BY <1>2, <1>4, <1>7, <1>16, <2>1, <2>2, <2>3, Returns
<1> QED
  BY <1>6, <1>15, <1>16

LEMMA CopyFailsOK ==
  ASSUME IInv, NEW f \in Files, CopyFails(f)
  PROVE  IInv' /\ Kept
<1>1. /\ at[f] = "copy" /\ Return(f) /\ sem' = Free
      /\ UNCHANGED <<globals, quantum, qset, size, data, freed, f_pos, stained,
                     dangling>>
  BY DEF CopyFails, device
<1>2. DataOK' /\ Kept
  BY <1>1, DataStays
<1>3. /\ f_pos' \in [Files -> 0 .. MaxSize] /\ size' \in 0 .. MaxSize
      /\ data' \in Lists /\ stained' \in BOOLEAN
  BY <1>1 DEF IInv, KindsOK
<1> QED
  BY <1>1, <1>2, <1>3, Returns

LEMMA CopyReadOK ==
  ASSUME IInv, NEW f \in Files, CopyRead(f)
  PROVE  IInv' /\ Kept
<1>1. /\ at[f] = "copy" /\ Return(f) /\ sem' = Free
      /\ f_pos' = [f_pos EXCEPT ![f] = @ + req[f].n]
      /\ UNCHANGED <<globals, quantum, qset, size, data, freed, stained, dangling>>
  BY DEF CopyRead, device
<1>2. DataOK' /\ Kept
  BY <1>1, DataStays
<1>3. f_pos[f] + req[f].n \in 0 .. MaxSize
  BY <1>1, UnderWay, Geometry DEF Located, Requests
<1>4. /\ f_pos' \in [Files -> 0 .. MaxSize] /\ size' \in 0 .. MaxSize
      /\ data' \in Lists /\ stained' \in BOOLEAN
      /\ \A g \in Files \ {f} : f_pos'[g] = f_pos[g]
  BY <1>1, <1>3 DEF IInv, KindsOK
<1> QED
  BY <1>1, <1>2, <1>4, Returns

\* The bytes written go where nothing else has been, if the geometry is the
\* device's.
LEMMA CopyWriteOK ==
  ASSUME IInv, NEW f \in Files, CopyWrite(f)
  PROVE  IInv' /\ Kept
<1>1. PICK q \in Nat \ {0}, s \in Nat \ {0}, z \in Nat, p \in Nat :
        q = quantum /\ s = qset /\ z = size /\ p = f_pos[f]
  <2>1. f_pos[f] \in Nat
    BY DEF IInv, KindsOK
  <2>2. quantum \in Nat \ {0} /\ qset \in Nat \ {0} /\ size \in Nat
    BY Geometry
  <2> QED
    BY <2>1, <2>2
<1>2. /\ at[f] = "copy" /\ Return(f) /\ sem' = Free /\ req[f].op = "write"
      /\ f_pos' = [f_pos EXCEPT ![f] = p + req[f].n]
      /\ data' = Written(data, req[f].item, req[f].slot, req[f].off, req[f].n, p)
      /\ size' = NewSize(p + req[f].n)
      /\ UNCHANGED <<globals, quantum, qset, freed, stained, dangling>>
  BY <1>1 DEF CopyWrite, Written
<1>3. /\ req[f].item \in Nat \ {0} /\ req[f].slot \in 1 .. geo[f][2]
      /\ req[f].off \in Nat /\ req[f].n \in Nat \ {0}
      /\ geo[f][1] \in Nat \ {0} /\ geo[f][2] \in Nat \ {0}
      /\ req[f].off + req[f].n <= geo[f][1]
      /\ p = PosOf(geo[f][1], geo[f][2], req[f].item, req[f].slot, req[f].off + 1)
      /\ p + req[f].n <= MaxSize
  BY <1>1, <1>2, UnderWay DEF Located, Requests
<1>4. Present(f)
  BY <1>2 DEF IInv, ReqOK, ReqFile
<1>5. PICK i, j, o, n :
        /\ i = req[f].item /\ j = req[f].slot /\ o = req[f].off /\ n = req[f].n
  OBVIOUS
<1>6. data \in Lists /\ stained \in BOOLEAN
  BY DEF IInv, KindsOK
<1>7. i \in 1 .. Len(data) /\ j \in 1 .. Len(data[i])
  <2>1. i <= Len(data) /\ j <= Len(data[i])
    BY <1>4, <1>5 DEF Present
  <2>2. i \in Nat \ {0} /\ j \in Nat \ {0} /\ Len(data) \in Nat
    <3>1. i \in Nat \ {0} /\ j \in Nat \ {0}
      BY <1>3, <1>5
    <3>2. Len(data) \in Nat
      BY <1>6 DEF Lists
    <3> QED
      BY <3>1, <3>2
  <2>3. i \in 1 .. Len(data)
    BY <2>1, <2>2
  <2>4. Len(data[i]) \in Nat
    BY <1>6, <2>3, ListParts
  <2> QED
    BY <2>1, <2>2, <2>3, <2>4
<1>8. PICK y \in Nat : y = NewSize(p + n) /\ z <= y /\ p + n <= y /\ (y = z \/ y = p + n)
                         /\ y <= MaxSize
  <2>1. p + n \in Nat /\ p + n <= MaxSize
    BY <1>3, <1>5
  <2>2. z <= MaxSize
    BY <1>1 DEF IInv, KindsOK
  <2>3. NewSize(p + n) = IF z < p + n THEN p + n ELSE z
    BY <1>1 DEF NewSize
  <2> QED
    BY <2>1, <2>2, <2>3
<1>9. o \in Nat /\ n \in Nat \ {0}
  BY <1>3, <1>5
<1>10. PICK e : e = Written(data, i, j, o, n, p)
  OBVIOUS
<1>11. data' = e /\ size' = y /\ quantum' = q /\ qset' = s
  BY <1>1, <1>2, <1>5, <1>8, <1>10
<1>12. data' \in Lists
  <2>1. n \in Nat
    BY <1>9
  <2> QED
    BY <1>6, <1>7, <1>9, <1>10, <1>11, <2>1, WrittenIs
<1>13. ASSUME ~stained
       PROVE  Fits(e, q, s, y) /\ Extends(e, data) /\ HasByte(e, p + n - 1)
  <2>1. geo[f] = <<quantum, qset>>
    BY <1>2, <1>4, <1>13 DEF Present, Current
  <2>2. geo[f][1] = q /\ geo[f][2] = s /\ Len(data[i][j]) = q
    BY <1>1, <1>4, <1>5, <1>13, <2>1 DEF Present, Current
  <2>3. o + n <= q /\ p = PosOf(q, s, i, j, o + 1)
    BY <1>3, <1>5, <2>2
  <2>4. /\ q \in Nat \ {0} /\ s \in Nat \ {0} /\ z \in Nat /\ p \in Nat /\ y \in Nat
        /\ Fits(data, q, s, z) /\ z <= y /\ p + n <= y
    BY <1>1, <1>8, <1>13 DEF IInv, DataOK
  <2>5. /\ Fits(Written(data, i, j, o, n, p), q, s, y)
        /\ Extends(Written(data, i, j, o, n, p), data)
        /\ HasByte(Written(data, i, j, o, n, p), p + n - 1)
    BY ONLY <1>7, <1>9, <2>2, <2>3, <2>4, WrittenFits, ZenonT(30)
  <2> QED
    BY ONLY <1>10, <2>5
<1>14. DataOK' /\ Kept
  <2>1. CASE stained
    BY <1>2, <2>1 DEF DataOK, Kept
  <2>2. CASE ~stained
    <3>1. y > 0 => HasByte(e, y - 1)
      <4>1. CASE y = p + n
        <5>1. y - 1 = p + n - 1
          BY <1>9, <4>1
        <5> QED
          BY <1>13, <2>2, <5>1
      <4>2. CASE y = z
        <5>1. y > 0 => HasByte(data, y - 1) /\ y - 1 # Junk
          BY <1>1, <1>8, <2>2, <4>2 DEF IInv, DataOK, Junk
        <5> QED
          BY <1>13, <2>2, <5>1, ByteStays
      <4> QED
        BY <1>8, <4>1, <4>2
    <3> QED
      BY <1>1, <1>2, <1>11, <1>13, <2>2, <3>1 DEF DataOK, Kept
  <2> QED
    BY <2>1, <2>2
<1>15. /\ f_pos' \in [Files -> 0 .. MaxSize] /\ size' \in 0 .. MaxSize
       /\ \A g \in Files \ {f} : f_pos'[g] = f_pos[g]
  <2>1. p + n \in 0 .. MaxSize
    BY <1>3, <1>5, Geometry
  <2>2. y \in 0 .. MaxSize
    BY <1>8, Geometry
  <2> QED
    BY <1>2, <1>5, <1>11, <2>1, <2>2 DEF IInv, KindsOK
<1> QED
  BY <1>2, <1>6, <1>12, <1>14, <1>15, Returns

\* Whoever leaves the list has an old geometry, or comes after one that had.
LEMMA StrayOK ==
  ASSUME IInv, Usage, NEW f \in Files, Stray(f)
  PROVE  IInv' /\ Kept
<1>1. /\ at' = [at EXCEPT ![f] = "astray"]
      /\ UNCHANGED <<scull_quantum, scull_qset, quantum, qset, size, data, freed,
                     f_pos, geo, req, stained, dangling>>
  BY DEF Stray, Go, globals, device, locals
<1>2. sem' = f /\ ~freed /\ \A g \in Files \ {f} : at[g] \notin Held
  <2>1. CASE at[f] \in {"follow", "copy"} /\ UNCHANGED sem
    BY <2>1, UnderWay DEF IInv, LockOK
  <2>2. CASE at[f] = "trim" /\ TrimMayStart /\ sem' = f
    <3>1. sem = Free
      BY <2>2 DEF TrimMayStart, Usage
    <3> QED
      BY <2>2, <3>1, DevAssumption DEF IInv, LockOK
  <2> QED
    BY <2>1, <2>2 DEF Stray
<1>3. Lost(f)
  <2> SUFFICES ASSUME ~stained PROVE req[f].op # "none" /\ ~Current(f)
    BY DEF Lost
  <2>1. Fits(data, quantum, qset, size)
    BY DEF IInv, DataOK
  <2>2. \A i \in 1 .. Len(data) : Len(data[i]) \in {0, qset}
    BY <2>1 DEF Fits
  <2>3. qset \in Nat /\ quantum \in Nat
    BY Geometry
  <2>4. CASE at[f] = "follow" /\ BeyondArray(req[f])
    <3>1. /\ req[f].item \in 1 .. Len(data) /\ data[req[f].item] # <<>>
          /\ req[f].slot > Len(data[req[f].item])
      BY <2>4 DEF BeyondArray
    <3>2. data \in Lists /\ Len(data[req[f].item]) \in {0, qset}
      BY <2>1, <2>2, <3>1 DEF Fits
    <3>3. Len(data[req[f].item]) = qset
      <4>1. data[req[f].item] \in Seq(Seq(Int))
        BY <3>1, <3>2 DEF Lists
      <4> QED
        BY <3>1, <3>2, <4>1, EmptySeq
    <3>4. req[f].op \in {"read", "write"} /\ req[f].slot \in 1 .. geo[f][2]
      BY <2>4, UnderWay DEF Located
    <3>5. geo[f][2] # qset
      BY <2>3, <2>4, <3>1, <3>3, <3>4, UnderWay
    <3> QED
      BY <3>4, <3>5 DEF Current
  <2>5. CASE at[f] = "copy" /\ BeyondQuantum(req[f])
    <3>1. /\ req[f].op \in {"read", "write"} /\ req[f] \in Requests
          /\ geo[f][1] \in Nat /\ req[f].off + req[f].n <= geo[f][1]
      BY <2>5, UnderWay DEF Located
    <3>2. Present(f)
      BY <2>5 DEF IInv, ReqOK, ReqFile
    <3>3. ASSUME Current(f) PROVE FALSE
      <4>1. Len(data[req[f].item][req[f].slot]) = quantum
        BY <3>2, <3>3 DEF Present
      <4>2. geo[f][1] = quantum
        BY <3>3 DEF Current
      <4> QED
        BY <2>3, <2>5, <3>1, <4>1, <4>2 DEF BeyondQuantum, Requests
    <3> QED
      BY <3>1, <3>3
  <2>6. CASE at[f] = "trim" /\ ShortArray
    BY <2>2, <2>3, <2>6 DEF ShortArray
  <2> QED
    BY <2>4, <2>5, <2>6 DEF Stray
<1>4. Others(f) /\ at'[f] = "astray"
  BY <1>1 DEF IInv, KindsOK, Others
<1>5. KindsOK'
  BY <1>1, <1>2 DEF IInv, KindsOK, Places
<1>6. LockOK'
  BY <1>1, <1>2, <1>4 DEF IInv, LockOK, Held, Others
<1>7. ASSUME NEW g \in Files PROVE GeoFile(g)'
  BY <1>1, <1>4 DEF IInv, GeoOK, GeoFile, Others
<1>8. ASSUME NEW g \in Files PROVE ReqFile(g)'
  <2>1. CASE g = f
    <3>1. Lost(f)'
      BY <1>1, <1>3 DEF Lost, Current
    <3> QED
      BY <1>4, <2>1, <3>1 DEF ReqFile
  <2>2. CASE g # f
    BY <1>2, <1>4, <2>2 DEF ReqFile, Others, Held
  <2> QED
    BY <2>1, <2>2
<1>9. DataOK' /\ Kept
  BY <1>1, DataStays
<1> QED
  BY <1>5, <1>6, <1>7, <1>8, <1>9 DEF IInv, GeoOK, ReqOK

-----------------------------------------------------------------------------
(* The theorems *)

\* Every step of the device keeps the invariant, and what has been stored or
\* nothing of it.
LEMMA StepOK ==
  ASSUME IInv, [Next]_vars, Usage
  PROVE  IInv' /\ Kept
<1>1. CASE UNCHANGED vars
  <2>1. /\ UNCHANGED <<scull_quantum, scull_qset, quantum, qset, size, data, freed>>
        /\ UNCHANGED <<sem, at, f_pos, geo, req, stained, dangling>>
    BY <1>1 DEF vars, globals, device, locals
  <2>2. DataOK' /\ Kept
    BY <2>1, DataStays
  <2>3. KindsOK' /\ LockOK'
    BY <2>1 DEF IInv, KindsOK, LockOK
  <2>4. GeoOK' /\ ReqOK'
    BY <2>1
    DEF IInv, GeoOK, GeoFile, ReqOK, ReqFile, Located, Present, Lost, Current
  <2> QED
    BY <2>2, <2>3, <2>4 DEF IInv
<1>2. ASSUME NEW f \in Files, Step(f)
      PROVE  IInv' /\ Kept
  <2>1. CASE \E wronly \in BOOLEAN : Open(f, wronly)
    BY <2>1, OpenOK
  <2>2. CASE Close(f) \/ Interrupted(f) \/ Seek(f) \/ Tell(f)
    BY <2>2, CloseOK, InterruptedOK, SeekOK, TellOK
  <2>3. CASE TrimFree(f) \/ TrimReset(f) \/ Stray(f)
    BY <2>3, TrimFreeOK, TrimResetOK, StrayOK
  <2>4. CASE LoadQuantum(f) \/ LoadQset(f)
    BY <2>4, LoadQuantumOK, LoadQsetOK
  <2>5. CASE \E op \in {"read", "write"} : Locate(f, op)
    BY <2>5, LocateOK DEF ReadOrWrite
  <2>6. CASE FollowRead(f) \/ FollowWrite(f)
    BY <2>6, FollowReadOK, FollowWriteOK
  <2>7. CASE CopyRead(f) \/ CopyWrite(f) \/ CopyFails(f)
    BY <2>7, CopyReadOK, CopyWriteOK, CopyFailsOK
  <2> QED
    BY <1>2, <2>1, <2>2, <2>3, <2>4, <2>5, <2>6, <2>7 DEF Step
<1> QED
  BY <1>1, <1>2 DEF Next

\* The invariant that all that follows rests on, whatever the files, the
\* geometries, the byte counts and the bound
LEMMA Invariance ==
  ASSUME Usage
  PROVE  Spec => []IInv
<1>1. Init => IInv
  BY InitOK
<1>2. IInv /\ [Next]_vars => IInv'
  BY StepOK
<1> QED
  BY <1>1, <1>2, PTL DEF Spec

LEMMA IInvType ==
  ASSUME IInv
  PROVE  TypeOK
<1>1. data \in Seq(Seq(Seq(Int)))
  BY DEF IInv, KindsOK, Lists
<1>2. \A f \in Files : req[f].n >= 0 /\ req[f].off >= 0
  BY DEF IInv, KindsOK, Requests
<1> QED
  BY <1>1, <1>2 DEF IInv, KindsOK, LockOK, TypeOK

\* Every variable stays in its type, and the position of a file in the file:
\* no seek, no read and no write leaves it.
THEOREM TypeCorrect ==
  ASSUME Usage
  PROVE  Spec => []TypeOK
<1>1. IInv => TypeOK
  BY IInvType
<1> QED
  BY <1>1, Invariance, PTL

\* Every array and every quantum has the size that the device records, which
\* scull_trim relies on when it frees them, whatever the parameters are set to
\* and whenever trims come, until a write goes into the list with a geometry
\* that it loaded before the last trim.
THEOREM GeometryCorrect ==
  ASSUME Usage
  PROVE  Spec => []GeometryKept
<1>1. IInv => GeometryKept
  BY DEF IInv, KindsOK, DataOK, Fits, GeometryKept, GeometryMatches
<1> QED
  BY <1>1, Invariance, PTL

\* down_interruptible keeps everybody off a list that a trim is freeing.
THEOREM SemaphoreCorrect ==
  ASSUME Usage
  PROVE  Spec => []NoUseAfterFree
<1>1. IInv => NoUseAfterFree
  BY DEF IInv, LockOK, NoUseAfterFree
<1> QED
  BY <1>1, Invariance, PTL

\* What Stored counts is what is in the list.
StoredListed == \A b : b \in Stored <=> b \in 0 .. MaxSize /\ HasByte(data, b)

LEMMA StoredIs ==
  ASSUME IInv, ~stained
  PROVE  StoredListed
<1>1. data \in Lists /\ \A i \in 1 .. Len(data) : Len(data[i]) \in {0, qset}
  BY DEF IInv, DataOK, Fits
<1>2. qset \in Nat \ {0}
  BY Geometry
<1>3. ASSUME NEW b \in Stored
      PROVE  b \in 0 .. MaxSize /\ HasByte(data, b)
  <2>1. b \in 0 .. MaxSize
    BY DEF Stored
  <2>2. PICK t \in Slots : \E k \in DOMAIN data[t[1]][t[2]] : data[t[1]][t[2]][k] = b
    BY DEF Stored
  <2>3. PICK k \in DOMAIN data[t[1]][t[2]] : data[t[1]][t[2]][k] = b
    BY <2>2
  <2>4. PICK i, j : i = t[1] /\ j = t[2]
    OBVIOUS
  <2>5. i \in 1 .. Len(data) /\ j \in 1 .. qset /\ j <= Len(data[i])
    BY <2>4 DEF Slots
  <2>6. /\ Len(data[i]) \in Nat
        /\ \A h \in 1 .. Len(data[i]) : data[i][h] \in Seq(Int)
    BY <1>1, <2>5, ListParts
  <2>7. j \in 1 .. Len(data[i])
    BY <2>5, <2>6
  <2>8. k \in 1 .. Len(data[i][j])
    <3>1. data[i][j] \in Seq(Int)
      BY <2>6, <2>7
    <3>2. k \in DOMAIN data[i][j]
      BY <2>3, <2>4
    <3> QED
      BY <3>1, <3>2
  <2> QED
    BY <2>1, <2>3, <2>4, <2>5, <2>7, <2>8 DEF HasByte
<1>4. ASSUME NEW b \in 0 .. MaxSize, HasByte(data, b)
      PROVE  b \in Stored
  <2>1. PICK i \in 1 .. Len(data) :
          \E j \in 1 .. Len(data[i]) : \E k \in 1 .. Len(data[i][j]) : data[i][j][k] = b
    BY <1>4 DEF HasByte
  <2>2. PICK j \in 1 .. Len(data[i]) : \E k \in 1 .. Len(data[i][j]) : data[i][j][k] = b
    BY <2>1
  <2>3. PICK k \in 1 .. Len(data[i][j]) : data[i][j][k] = b
    BY <2>2
  <2>4. /\ Len(data[i]) \in Nat /\ Len(data[i]) \in {0, qset}
        /\ data[i][j] \in Seq(Int)
    BY <1>1, ListParts
  <2>5. j \in 1 .. qset /\ j <= Len(data[i])
    BY <1>2, <2>4
  <2>6. PICK t : t = <<i, j>>
    OBVIOUS
  <2>7. t \in Slots /\ t[1] = i /\ t[2] = j
    BY <2>5, <2>6 DEF Slots
  <2>8. k \in DOMAIN data[i][j]
    BY <2>4
  <2> QED
    BY <2>3, <2>7, <2>8 DEF Stored
<1> QED
  BY <1>3, <1>4 DEF StoredListed

\* A copy that is under way stays inside its quantum, and moves the bytes of
\* its file's position.
LEMMA CopiesInPlace ==
  ASSUME IInv
  PROVE  CopiesRightBytes
<1> SUFFICES ASSUME NEW f \in Files, at[f] = "copy", Current(f), ~stained,
                    NEW m \in 1 .. req[f].n
             PROVE  LET bytes == data[req[f].item][req[f].slot] IN
                    /\ req[f].off + m \in DOMAIN bytes
                    /\ bytes[req[f].off + m] \in {Junk, f_pos[f] + m - 1}
  BY DEF CopiesRightBytes
<1>1. PICK q \in Nat \ {0}, s \in Nat \ {0}, p \in Nat, i \in Nat, j \in Nat, o \in Nat,
           n \in Nat :
        /\ q = quantum /\ s = qset /\ p = f_pos[f]
        /\ i = req[f].item /\ j = req[f].slot /\ o = req[f].off /\ n = req[f].n
  <2>1. f_pos[f] \in Nat /\ req[f] \in Requests
    BY DEF IInv, KindsOK
  <2>2. quantum \in Nat \ {0} /\ qset \in Nat \ {0}
    BY Geometry
  <2> QED
    BY <2>1, <2>2 DEF Requests
<1>2. /\ i > 0 /\ j \in 1 .. s /\ o + n <= q
      /\ p = PosOf(q, s, i, j, o + 1)
  BY <1>1, UnderWay DEF Located, Current
<1>3. i <= Len(data) /\ j <= Len(data[i]) /\ Len(data[i][j]) = q
  BY <1>1 DEF IInv, ReqOK, ReqFile, Present
<1>4. Fits(data, q, s, size) /\ data \in Lists
  BY <1>1 DEF IInv, DataOK, Fits
<1>5. i \in 1 .. Len(data)
  BY <1>2, <1>3, <1>4 DEF Lists
<1>6. j \in 1 .. Len(data[i]) /\ data[i][j] \in Seq(Int)
  <2>1. Len(data[i]) \in Nat
    BY <1>4, <1>5, ListParts
  <2>2. j \in 1 .. Len(data[i])
    BY <1>2, <1>3, <2>1
  <2> QED
    BY <1>4, <1>5, <2>2, ListParts
<1>7. PICK k \in Nat : k = o + m /\ m \in 1 .. n
  BY <1>1
<1>8. k \in 1 .. Len(data[i][j])
  <2>1. k \in 1 .. q
    BY <1>2, <1>7
  <2> QED
    BY <1>3, <2>1
<1>9. data[i][j][k] = Junk \/ data[i][j][k] = PosOf(q, s, i, j, k)
  BY <1>4, <1>5, <1>6, <1>8 DEF Fits
<1>10. PosOf(q, s, i, j, k) = PosOf(q, s, i, j, o + 1) + k - o - 1
  <2>1. q \in Nat /\ s \in Nat /\ i \in Nat /\ j \in Nat /\ o \in Nat /\ k \in Nat
    OBVIOUS
  <2> QED
    BY ONLY <2>1, PosNext
<1>11. PosOf(q, s, i, j, k) = p + m - 1
  <2>1. PosOf(q, s, i, j, k) = p + k - o - 1
    BY <1>2, <1>10
  <2> QED
    BY <1>1, <1>7, <2>1
<1>12. k \in DOMAIN data[i][j] /\ data[i][j][k] \in {Junk, p + m - 1}
  <2>1. k \in DOMAIN data[i][j]
    BY <1>6, <1>8
  <2> QED
    BY <1>9, <1>11, <2>1
<1> QED
  BY <1>1, <1>7, <1>12

\* Bytes are where their position says and end where the size says: what is
\* read at a position is what was last written there, and it is read up to
\* the end of the file, whatever part of a write has failed.  A call that had
\* loaded its geometry before the last trim is the only one to go elsewhere,
\* and to leave the list, until it has written.
THEOREM BytesCorrect ==
  ASSUME Usage
  PROVE  Spec => []BytesInPlace
<1>1. IInv => SizeIsEnd
  <2> SUFFICES ASSUME IInv, ~stained
               PROVE  /\ \A b \in Stored : b < size
                      /\ size > 0 => size - 1 \in Stored
    BY DEF SizeIsEnd
  <2>1. size \in 0 .. MaxSize /\ MaxSize \in Nat
    BY Geometry DEF IInv, KindsOK
  <2>2. ASSUME NEW b \in Stored PROVE b < size
    <3>1. b \in 0 .. MaxSize /\ HasByte(data, b)
      BY StoredIs DEF StoredListed
    <3>2. PICK i \in 1 .. Len(data) :
            \E j \in 1 .. Len(data[i]) : \E k \in 1 .. Len(data[i][j]) : data[i][j][k] = b
      BY <3>1 DEF HasByte
    <3>3. PICK j \in 1 .. Len(data[i]) : \E k \in 1 .. Len(data[i][j]) : data[i][j][k] = b
      BY <3>2
    <3>4. PICK k \in 1 .. Len(data[i][j]) : data[i][j][k] = b
      BY <3>3
    <3>5. data[i][j][k] = Junk \/ data[i][j][k] < size
      BY DEF IInv, DataOK, Fits
    <3> QED
      BY <3>1, <3>4, <3>5 DEF Junk
  <2>3. size > 0 => size - 1 \in Stored
    <3>1. size > 0 => size - 1 \in 0 .. MaxSize
      BY <2>1
    <3> QED
      BY <3>1, StoredIs DEF StoredListed, IInv, DataOK
  <2> QED
    BY <2>2, <2>3
<1>2. IInv => StraysIfStale
  BY DEF IInv, ReqOK, ReqFile, Lost, StraysIfStale
<1>3. IInv => BytesInPlace
  BY <1>1, <1>2, IInvType, CopiesInPlace DEF BytesInPlace
<1> QED
  BY <1>3, Invariance, PTL

\* A byte once stored is lost by a trim only: no write, failed or partial,
\* and no read overwrites it, drops it or moves it, but a write with an old
\* geometry, and those that come after it.
THEOREM KeepsCorrect ==
  ASSUME Usage
  PROVE  Spec => KeepsBytes
<1>1. IInv /\ ~stained => StoredListed
  BY StoredIs
<1>2. /\ IInv /\ (~stained => StoredListed)
      /\ (~stained => StoredListed)' /\ [Next]_vars
      => [Stored \subseteq Stored' \/ data' = <<>> \/ stained']_vars
  <2> SUFFICES ASSUME IInv, StoredListed, StoredListed', Extends(data', data)
               PROVE  Stored \subseteq Stored'
    BY StepOK DEF Kept
  <2>1. ASSUME NEW b \in Stored PROVE b \in Stored'
    <3>1. b \in 0 .. MaxSize /\ HasByte(data, b)
      BY DEF StoredListed
    <3>2. b # Junk
      BY <3>1 DEF Junk
    <3>3. HasByte(data', b)
      BY <3>1, <3>2, ByteStays
    <3> QED
      BY <3>1, <3>3 DEF StoredListed
  <2> QED
    BY <2>1
<1> QED
  BY <1>1, <1>2, Invariance, PTL DEF Spec, KeepsBytes

-----------------------------------------------------------------------------
(* The mappings of scullp, scullv and sculld                               *)

Changing == {"opening", "closing"}
Counting == {p \in Procs : vma[p] \in {"mapped", "closing"}}
Freed == "freed under a mapping"

\* Unless two of them meet, one process at most is changing the count, and what
\* it is about to store is right; pages are of mappings that are counted.
CountedInv ==
  /\ vma \in [Procs -> {"none", "checked", "opening", "mapped", "closing"}]
  /\ vmas \in Int /\ reg \in [Procs -> Int] /\ pte \in [Procs -> SUBSET Items!Pages]
  /\ \A p \in Procs : pte[p] # {} => vma[p] = "mapped"
  /\ "raced" \notin it_trouble =>
       /\ vmas = Cardinality(Counting)
       /\ \A p \in Procs : vma[p] = "opening" => reg[p] = vmas + 1
       /\ \A p \in Procs : vma[p] = "closing" => reg[p] = vmas - 1
       /\ \A p, q \in Procs : vma[p] \in Changing /\ vma[q] \in Changing => p = q
       /\ Freed \notin it_trouble

\* A call that leaves the mappings alone
Aside ==
  /\ UNCHANGED <<vmas, vma, reg, pte>>
  /\ it_trouble \subseteq it_trouble'
  /\ Freed \in it_trouble' => Freed \in it_trouble

LEMMA AsideOK ==
  ASSUME CountedInv, Aside
  PROVE  CountedInv'
<1>1. Counting' = Counting
  BY DEF Aside, Counting
<1> QED
  BY <1>1 DEF CountedInv, Aside

LEMMA IfIs ==
  ASSUME NEW w, NEW b, NEW x, x \in Items!If(w, b)
  PROVE  x = w
BY DEF Items!If

LEMMA StartAside ==
  ASSUME NEW p, NEW op, NEW n, NEW segs, Items!Start(p, op, n, segs)
  PROVE  Aside
BY DEF Items!Start, Aside

LEMMA DeferAside ==
  ASSUME NEW p, Items!Enter(p) \/ Items!Defer(p)
  PROVE  Aside
<1>1. Freed # "errors added"
  BY DEF Freed
<1> QED
  BY <1>1, IfIs DEF Items!Enter, Items!Defer, Items!Trouble, Aside

LEMMA FollowAside ==
  ASSUME NEW p, Items!FollowFails(p)
  PROVE  Aside
BY DEF Items!FollowFails, Items!Trouble, Aside, Freed

LEMMA CausesAside ==
  ASSUME NEW c, NEW place
  PROVE  Freed \notin Items!Causes(c, place)
BY IfIs DEF Items!Causes, Freed

LEMMA ReadAside ==
  ASSUME NEW p, NEW ends, Items!Read(p, ends)
  PROVE  Aside
<1>1. UNCHANGED <<vmas, vma, reg, pte>>
  BY Zenon DEF Items!Read
<1> DEFINE c == call[p]
           place == Items!Place(c.pos, c.unit, c.qset)
           arrays == Items!Follow(items.arrays, place.item)
           count == Items!InQuantum(Items!Min({c.count, items.size - c.pos}), c.unit, place.page)
           block == items.quanta[<<place.item, place.slot>>]
           range == {n \in place.page .. place.page + count - 1 : n \in DOMAIN block}
           copied == IF Items!Held(place) /\ ends = "done"
                     THEN Items!If("overrun", Items!Cardinality(range) < count)
                            \cup Items!If("uncleared", \E n \in range : block[n] = Items!Junk)
                            \cup Items!If("wrong page", \E n \in range :
                                   block[n] >= 0 /\ block[n] # c.pos + n - place.page)
                     ELSE {}
           found == Items!Causes(c, place)
                      \cup Items!If("overrun", place.slot >= Items!Array(arrays, place)) \cup copied
<1>2. UNCHANGED it_trouble \/ it_trouble' = it_trouble \cup found
  BY ZenonT(60) DEF Items!Read, Items!Trouble
<1>3. Freed \notin copied
  BY IfIs, Zenon DEF Freed
<1>4. Freed \notin found
  BY <1>3, IfIs, CausesAside, Zenon DEF Freed
<1> HIDE DEF found
<1> QED
  BY <1>1, <1>2, <1>4 DEF Aside

LEMMA WriteAside ==
  ASSUME NEW p, NEW ends, Items!Write(p, ends)
  PROVE  Aside
<1>1. UNCHANGED <<vmas, vma, reg, pte>>
  BY Zenon DEF Items!Write
<1>2. PICK c, place, over, none :
        Items!Trouble(Items!Causes(c, place) \cup Items!If("overrun", over)
                        \cup Items!If("no cache", none))
  BY Zenon DEF Items!Write
<1> QED
  BY <1>1, <1>2, IfIs, CausesAside DEF Items!Trouble, Aside, Freed

LEMMA SettingsAside ==
  ASSUME Items!CreateCache \/ \E p \in Procs : \E new \in Items!Params : Items!Ioctl(p, new)
  PROVE  Aside
BY DEF Items!CreateCache, Items!Ioctl, Aside

\* Nothing is trimmed while there is a page of a mapping.
LEMMA TrimOK ==
  ASSUME CountedInv, Items!Trim, UNCHANGED <<vmas, vma, reg, pte>>
  PROVE  CountedInv'
<1>1. CASE ~Items!MayTrim(vmas)
  <2>1. Aside
    BY <1>1 DEF Items!Trim, Aside
  <2> QED
    BY <2>1, AsideOK
<1>2. CASE Items!MayTrim(vmas)
  <2>1. vmas = 0
    BY <1>2 DEF Items!MayTrim
  <2>2. PICK over, lost, mean :
          Items!Trouble(Items!If("overrun", over) \cup Items!If("lost", lost)
                 \cup Items!If("freed under a mapping", \E q \in Procs : pte[q] # {})
                 \cup Items!If("trimmed meanwhile", mean))
    BY <1>2, Zenon DEF Items!Trim
  <2>3. it_trouble \subseteq it_trouble'
    BY <2>2 DEF Items!Trouble
  <2>4. Counting' = Counting
    BY DEF Counting
  <2>5. ASSUME "raced" \notin it_trouble' PROVE Freed \notin it_trouble'
    <3>1. "raced" \notin it_trouble
      BY <2>3, <2>5
    <3>2. Counting = {}
      <4>1. IsFiniteSet(Counting)
        BY MemoryAssumption, FS_Subset DEF Counting
      <4> QED
        BY <2>1, <3>1, <4>1, FS_EmptySet DEF CountedInv
    <3>3. ~ \E q \in Procs : pte[q] # {}
      BY <3>2 DEF CountedInv, Counting
    <3>4. Freed \notin Items!If("freed under a mapping", \E q \in Procs : pte[q] # {})
      BY <3>3 DEF Items!If
    <3> QED
      BY <2>2, <3>1, <3>4, IfIs DEF Items!Trouble, CountedInv, Freed
  <2> QED
    BY <2>3, <2>4, <2>5 DEF CountedInv
<1> QED
  BY <1>1, <1>2

LEMMA MmapOK ==
  ASSUME CountedInv, NEW p \in Procs,
         Items!Mmap(p) \/ \E parent \in Procs : Items!Fork(parent, p)
  PROVE  CountedInv'
<1>1. /\ vma[p] = "none" /\ vma' = [vma EXCEPT ![p] = "checked"]
      /\ UNCHANGED <<vmas, reg, pte, it_trouble>>
  BY DEF Items!Mmap, Items!Fork, Items!Step
<1>2. Counting' = Counting
  BY <1>1 DEF CountedInv, Counting
<1> QED
  BY <1>1, <1>2 DEF CountedInv, Changing

LEMMA LoadOK ==
  ASSUME CountedInv, NEW p \in Procs, NEW from, NEW to, NEW n \in Int,
         Items!Load(p, from, to, n),
         \/ from = "checked" /\ to = "opening" /\ n = 1
         \/ from = "mapped" /\ to = "closing" /\ n = -1 /\ pte[p] = {}
  PROVE  CountedInv'
<1>1. /\ vma[p] = from /\ vma' = [vma EXCEPT ![p] = to]
      /\ reg' = [reg EXCEPT ![p] = vmas + n] /\ UNCHANGED <<vmas, pte>>
      /\ Items!Trouble(Items!If("raced", Items!Others(p) # {}))
  BY DEF Items!Load, Items!Step
<1>2. Counting' = Counting
  BY <1>1 DEF CountedInv, Counting
<1>3. it_trouble \subseteq it_trouble' /\ (Freed \in it_trouble' => Freed \in it_trouble)
  BY <1>1, IfIs DEF Items!Trouble, Freed
<1>4. /\ vma' \in [Procs -> {"none", "checked", "opening", "mapped", "closing"}]
      /\ vmas' \in Int /\ pte' \in [Procs -> SUBSET Items!Pages]
      /\ \A q \in Procs : pte'[q] # {} => vma'[q] = "mapped"
  BY <1>1 DEF CountedInv
<1>5. ASSUME "raced" \notin it_trouble'
      PROVE  /\ "raced" \notin it_trouble
             /\ \A q \in Procs \ {p} : vma[q] \notin Changing
  BY <1>1, <1>3, <1>5 DEF Items!Trouble, Items!If, Items!Others, Changing
<1>6. reg' \in [Procs -> Int]
  BY <1>1 DEF CountedInv
<1>7. ASSUME "raced" \notin it_trouble'
      PROVE  /\ vmas' = Cardinality(Counting')
             /\ \A q \in Procs : vma'[q] = "opening" => reg'[q] = vmas' + 1
             /\ \A q \in Procs : vma'[q] = "closing" => reg'[q] = vmas' - 1
             /\ \A q, o \in Procs : vma'[q] \in Changing /\ vma'[o] \in Changing => q = o
             /\ Freed \notin it_trouble'
  <2>1. "raced" \notin it_trouble
    BY <1>5, <1>7
  <2>2. vmas' = Cardinality(Counting')
    BY <1>1, <1>2, <2>1 DEF CountedInv
  <2>3. \A q \in Procs \ {p} : vma'[q] = vma[q] /\ vma[q] \notin Changing
    BY <1>1, <1>5, <1>7 DEF CountedInv
  <2>4. reg'[p] = vmas + n /\ vma'[p] = to
    BY <1>1 DEF CountedInv
  <2> QED
    BY <1>1, <1>3, <2>1, <2>2, <2>3, <2>4 DEF CountedInv, Changing
<1> QED
  BY <1>4, <1>6, <1>7 DEF CountedInv

LEMMA StoreOK ==
  ASSUME CountedInv, NEW p \in Procs,
         \/ Items!Store(p, "opening", "mapped")
         \/ Items!Store(p, "closing", "none")
  PROVE  CountedInv'
<1>1. /\ \/ vma[p] = "opening" /\ vma' = [vma EXCEPT ![p] = "mapped"]
         \/ vma[p] = "closing" /\ vma' = [vma EXCEPT ![p] = "none"]
      /\ vmas' = reg[p] /\ UNCHANGED <<reg, pte, it_trouble>>
  BY DEF Items!Store, Items!Step
<1>2. IsFiniteSet(Counting)
  BY MemoryAssumption, FS_Subset DEF Counting
<1>3. ASSUME "raced" \notin it_trouble PROVE vmas' = Cardinality(Counting')
  <2>1. CASE vma[p] = "opening"
    <3>1. Counting' = Counting \cup {p} /\ p \notin Counting
      BY <1>1, <2>1 DEF CountedInv, Counting
    <3>2. reg[p] = vmas + 1 /\ vmas = Cardinality(Counting)
      BY <1>3, <2>1 DEF CountedInv
    <3> QED
      BY <1>1, <1>2, <3>1, <3>2, FS_AddElement
  <2>2. CASE vma[p] = "closing"
    <3>1. Counting' = Counting \ {p} /\ p \in Counting
      BY <1>1, <2>2 DEF CountedInv, Counting
    <3>2. reg[p] = vmas - 1 /\ vmas = Cardinality(Counting)
      BY <1>3, <2>2 DEF CountedInv
    <3> QED
      BY <1>1, <1>2, <3>1, <3>2, FS_RemoveElement
  <2> QED
    BY <1>1, <2>1, <2>2
<1>4. /\ vma' \in [Procs -> {"none", "checked", "opening", "mapped", "closing"}]
      /\ vmas' \in Int /\ pte' \in [Procs -> SUBSET Items!Pages]
      /\ \A q \in Procs : pte'[q] # {} => vma'[q] = "mapped"
  BY <1>1 DEF CountedInv
<1>5. ASSUME "raced" \notin it_trouble
      PROVE  \A q \in Procs : vma'[q] \notin Changing
  BY <1>1, <1>5 DEF CountedInv, Changing
<1> QED
  BY <1>1, <1>3, <1>4, <1>5 DEF CountedInv, Changing

LEMMA PagesOK ==
  ASSUME CountedInv, NEW p \in Procs,
         Items!Unmap(p) \/ \E n \in Items!Pages : Items!Nopage(p, n)
  PROVE  CountedInv'
<1>1. /\ vma[p] = "mapped" /\ UNCHANGED <<vmas, vma, reg>>
      /\ \E s \in SUBSET Items!Pages : pte' = [pte EXCEPT ![p] = s]
      /\ it_trouble \subseteq it_trouble' /\ (Freed \in it_trouble' => Freed \in it_trouble)
  <2>1. CASE Items!Unmap(p)
    BY <2>1 DEF Items!Unmap
  <2>2. CASE \E n \in Items!Pages : Items!Nopage(p, n)
    <3>1. PICK n \in Items!Pages : Items!Nopage(p, n)
      BY <2>2
    <3>2. vma[p] = "mapped" /\ UNCHANGED <<vmas, vma, reg>>
      BY <3>1 DEF Items!Nopage, Items!Touches
    <3>3. pte[p] \in SUBSET Items!Pages /\ pte[p] \cup {n} \in SUBSET Items!Pages
      BY DEF CountedInv
    <3>4. PICK b : pte' = [pte EXCEPT ![p] = IF b THEN @ \cup {n} ELSE @]
      BY <3>1, Zenon DEF Items!Nopage
    <3>5. \E s \in SUBSET Items!Pages : pte' = [pte EXCEPT ![p] = s]
      BY <3>3, <3>4
    <3>6. PICK large, wrong :
            Items!Trouble(Items!If("large quanta", large) \cup Items!If("wrong mapping", wrong))
      BY <3>1, Zenon DEF Items!Nopage
    <3> QED
      BY <3>2, <3>5, <3>6, IfIs DEF Items!Trouble, Freed
  <2> QED
    BY <2>1, <2>2
<1>2. Counting' = Counting
  BY <1>1 DEF Counting
<1> QED
  BY <1>1, <1>2 DEF CountedInv
LEMMA CallsOK ==
  ASSUME CountedInv, NEW p \in Procs,
         \/ Items!Seeks(p) \/ Items!Submits(p) \/ Items!FollowFails(p)
         \/ \E ends \in Items!ReadEnds : Items!Read(p, ends)
         \/ \E ends \in Items!Ends : Items!Write(p, ends)
         \/ Items!Enter(p) \/ Items!Defer(p)
         \/ \E new \in Items!Params : Items!Ioctl(p, new)
  PROVE  CountedInv'
<1>1. Aside
  BY StartAside, DeferAside, FollowAside, ReadAside, WriteAside, SettingsAside
     DEF Items!Seeks, Items!Submits
<1> QED
  BY <1>1, AsideOK

LEMMA VmaOK ==
  ASSUME CountedInv, NEW p \in Procs, Items!VmaOpen(p) \/ Items!VmaClose(p)
  PROVE  CountedInv'
<1>1. 1 \in Int /\ -1 \in Int
  OBVIOUS
<1> QED
  BY <1>1, LoadOK, StoreOK DEF Items!VmaOpen, Items!VmaClose

LEMMA OpensOK ==
  ASSUME CountedInv, NEW p \in Procs, Items!Open(p), Items!Trim
  PROVE  CountedInv'
BY TrimOK DEF Items!Open

\* The fault of sculld
LEMMA NullPageAside ==
  ASSUME NEW p, NEW n, Items!NopageOfNull(p, n)
  PROVE  Aside
<1>1. Freed # "null page"
  BY DEF Freed
<1> QED
  BY <1>1 DEF Items!NopageOfNull, Items!Trouble, Aside

LEMMA DriverOK ==
  ASSUME CountedInv, NEW p \in Procs, Items!Driver(p)
  PROVE  CountedInv'
<1>1. CASE \/ Items!Seeks(p) \/ Items!Submits(p) \/ Items!FollowFails(p)
           \/ \E ends \in Items!ReadEnds : Items!Read(p, ends)
           \/ \E ends \in Items!Ends : Items!Write(p, ends)
           \/ Items!Enter(p) \/ Items!Defer(p)
           \/ \E new \in Items!Params : Items!Ioctl(p, new)
  BY <1>1, CallsOK
<1>2. CASE Items!Open(p) /\ Items!Trim
  BY <1>2, OpensOK
<1>3. CASE Items!Mmap(p) \/ Items!VmaOpen(p) \/ Items!VmaClose(p)
  BY <1>3, MmapOK, VmaOK
<1>4. CASE \E n \in Items!Pages : Items!Nopage(p, n)
  BY <1>4, PagesOK
<1>5. CASE \E n \in Items!Pages : Items!NopageOfNull(p, n)
  BY <1>5, NullPageAside, AsideOK
<1> QED
  BY <1>1, <1>2, <1>3, <1>4, <1>5, Zenon DEF Items!Driver,
     Items!scullp_llseek, Items!scullp_aio, Items!scullp_follow, Items!scullp_read,
     Items!scullp_write, Items!scullp_defer_op, Items!scullp_open, Items!scullp_trim,
     Items!scullp_ioctl, Items!scullp_mmap, Items!scullp_vma_open,
     Items!scullp_vma_close, Items!scullp_vma_nopage,
     Items!scullv_llseek, Items!scullv_aio, Items!scullv_follow, Items!scullv_read,
     Items!scullv_write, Items!scullv_defer_op, Items!scullv_open, Items!scullv_trim,
     Items!scullv_ioctl, Items!scullv_mmap, Items!scullv_vma_open,
     Items!scullv_vma_close, Items!scullv_vma_nopage,
     Items!sculld_llseek, Items!sculld_aio, Items!sculld_follow, Items!sculld_read,
     Items!sculld_write, Items!sculld_defer_op, Items!sculld_open, Items!sculld_trim,
     Items!sculld_ioctl, Items!sculld_mmap, Items!sculld_vma_open,
     Items!sculld_vma_close, Items!sculld_vma_nopage,
     Items!scullc_llseek, Items!scullc_aio, Items!scullc_follow, Items!scullc_read,
     Items!scullc_write, Items!scullc_defer_op, Items!scullc_open, Items!scullc_trim,
     Items!scullc_ioctl

LEMMA CountedInit ==
  ASSUME MemoryInit
  PROVE  CountedInv
<1>1. /\ vmas = 0 /\ vma = [p \in Procs |-> "none"] /\ reg = [p \in Procs |-> 0]
      /\ pte = [p \in Procs |-> {}] /\ it_trouble = {}
  BY DEF MemoryInit, Items!Init
<1>2. Counting = {}
  BY <1>1 DEF Counting
<1> QED
  BY <1>1, <1>2, FS_EmptySet DEF CountedInv, Changing

LEMMA CountedStep ==
  ASSUME CountedInv, Items!Next \/ UNCHANGED itemVars
  PROVE  CountedInv'
<1>1. CASE Items!CreateCache
  BY <1>1, SettingsAside, AsideOK
<1>2. ASSUME NEW p \in Procs, Items!Driver(p)
      PROVE  CountedInv'
  BY <1>2, DriverOK
<1>3. ASSUME NEW p \in Procs, Items!Unmap(p)
      PROVE  CountedInv'
  BY <1>3, PagesOK
<1>4. ASSUME NEW p \in Procs, NEW child \in Procs, Items!Fork(p, child)
      PROVE  CountedInv'
  BY <1>4, MmapOK
<1>5. CASE UNCHANGED itemVars
  <2>1. Aside
    BY <1>5 DEF itemVars, Aside
  <2> QED
    BY <2>1, AsideOK
<1> QED
  BY <1>1, <1>2, <1>3, <1>4, <1>5 DEF Items!Next

LEMMA CountedShown ==
  ASSUME CountedInv
  PROVE  Items!MappingsCounted
<1>1. \A S : Items!Cardinality(S) = Cardinality(S)
  BY DEF Items!Cardinality, Cardinality
<1> QED
  BY <1>1 DEF CountedInv, Items!MappingsCounted, Counting, Freed

-----------------------------------------------------------------------------
(* The lists that scullmem shows                                           *)

Stale == "freed list"
Late == "trimmed meanwhile"
DevFields == {"items", "slots", "trims"}

\* A reader of scullmem between the load of a list and its use has a list that
\* is there, or the device has been trimmed since the load.
ListsInv ==
  /\ Stale \in pr_trouble => Late \in pr_trouble
  /\ DOMAIN devs = 1 .. Devs /\ \A i \in 1 .. Devs : DOMAIN devs[i] = DevFields
  /\ pr_kind = "scullmem" /\ rd.at = "list" =>
       \/ rd.list = -1 \/ rd.list = devs[rd.dev].trims
       \/ Late \in pr_trouble
  /\ pr_kind = "scullmem" /\ rd.at = "list" => rd.dev \in 1 .. Devs
  /\ pr_kind = "scullmem" /\ rd.at \in {"load", "list", "shown"} =>
       {"at", "dev", "list"} \subseteq DOMAIN rd /\ rd.dev \in Nat \ {0}

LEMMA ListsInit == MemoryInit => ListsInv
<1> SUFFICES ASSUME MemoryInit PROVE ListsInv
  OBVIOUS
<1>1. /\ devs \in [1 .. Devs -> {Listings!Shape(d) : d \in Shapes}]
      /\ rd = [at |-> "idle"] /\ pr_trouble = {}
  BY DEF MemoryInit, Listings!Init, Listings!Idle
<1>2. \A i \in 1 .. Devs : DOMAIN devs[i] = DevFields
  BY <1>1 DEF Listings!Shape, DevFields
<1> QED
  BY <1>1, <1>2 DEF ListsInv

\* A reader that stays where it is, or leaves the list
LEMMA ListsAside ==
  ASSUME ListsInv, UNCHANGED <<pr_kind, devs>>,
         Stale \in pr_trouble' => Stale \in pr_trouble,
         Late \in pr_trouble => Late \in pr_trouble',
         rd' = rd \/ pr_kind # "scullmem" \/ rd'.at \notin {"load", "list", "shown"}
  PROVE  ListsInv'
BY DEF ListsInv

LEMMA ListsStep ==
  ASSUME ListsInv, Listings!Next \/ UNCHANGED procVars
  PROVE  ListsInv'
<1>1. CASE Listings!Call \/ Listings!Interrupted
  <2>1. UNCHANGED <<pr_kind, devs, pr_trouble>>
    BY <1>1 DEF Listings!Call, Listings!Interrupted, Listings!Called
  <2>2. pr_kind # "scullmem" \/ rd'.at \notin {"load", "list", "shown"}
    BY <1>1 DEF Listings!Call, Listings!Interrupted, Listings!Idle
  <2> QED
    BY <2>1, <2>2, ListsAside
<1>2. CASE Listings!Returned
  <2>1. UNCHANGED <<pr_kind, devs>> /\ rd'.at \in {"over", "idle"}
    BY <1>2 DEF Listings!Returned
  <2>2. /\ Stale \in pr_trouble' => Stale \in pr_trouble
        /\ Late \in pr_trouble => Late \in pr_trouble'
    BY <1>2 DEF Listings!Returned, Stale, Late
  <2>3. rd'.at \notin {"load", "list", "shown"}
    BY <2>1
  <2> QED
    BY <2>1, <2>2, <2>3, ListsAside
<1>3. CASE \/ Listings!scullp_read_procmem \/ Listings!scullv_read_procmem
           \/ Listings!sculld_read_procmem \/ Listings!scullc_read_procmem
           \/ Listings!scull_read_p_mem \/ Listings!tiny_read_proc
  <2>1. pr_kind # "scullmem" /\ UNCHANGED <<pr_kind, devs, pr_trouble>>
    BY <1>3 DEF Listings!scullp_read_procmem, Listings!scullv_read_procmem,
         Listings!sculld_read_procmem, Listings!scullc_read_procmem,
         Listings!scull_read_p_mem, Listings!tiny_read_proc, Listings!ShowDevice
  <2> QED
    BY <2>1, ListsAside
<1>4. CASE Listings!SeqRead
  <2>1. UNCHANGED <<pr_kind, devs, pr_trouble>>
    BY <1>4 DEF Listings!SeqRead
  <2>2. /\ rd'.at = "load" /\ {"at", "dev", "list"} \subseteq DOMAIN rd'
        /\ rd'.dev = 1
    BY <1>4 DEF Listings!SeqRead, Listings!Show
  <2> QED
    BY <2>1, <2>2 DEF ListsInv
<1>5. CASE Listings!LoadList
  <2>1. /\ pr_kind = "scullmem" /\ rd.at = "load" /\ {"at", "dev", "list"} \subseteq DOMAIN rd
        /\ rd.dev \in Nat \ {0}
        /\ UNCHANGED <<pr_kind, devs, pr_trouble>>
    BY <1>5 DEF Listings!LoadList, ListsInv
  <2>2. \/ rd' = [rd EXCEPT !.at = "shown"]
        \/ /\ rd' = [rd EXCEPT !.at = "list",
                               !.list = IF devs[rd.dev].items = 0 THEN -1 ELSE devs[rd.dev].trims]
           /\ ~(rd.dev > Devs)
    BY <1>5, Zenon DEF Listings!LoadList
  <2>3. CASE rd' = [rd EXCEPT !.at = "shown"]
    BY <2>1, <2>3 DEF ListsInv
  <2>4. CASE /\ rd' = [rd EXCEPT !.at = "list",
                          !.list = IF devs[rd.dev].items = 0 THEN -1 ELSE devs[rd.dev].trims]
             /\ ~(rd.dev > Devs)
    <3>1. rd.dev \in 1 .. Devs
      BY <2>1, <2>4, MemoryAssumption
    <3>2. /\ {"at", "dev", "list"} \subseteq DOMAIN rd' /\ rd'.dev = rd.dev
          /\ rd'.list = -1 \/ rd'.list = devs[rd.dev].trims
      BY <2>1, <2>4
    <3> QED
      BY <2>1, <3>1, <3>2 DEF ListsInv
  <2> QED
    BY <2>2, <2>3, <2>4
<1>6. CASE Listings!scull_read_procmem
  <2>1. /\ pr_kind = "scullmem" /\ rd.at = "list" /\ {"at", "dev", "list"} \subseteq DOMAIN rd
        /\ rd.dev \in Nat \ {0}
        /\ UNCHANGED <<pr_kind, devs>>
        /\ \/ rd.list = -1 \/ rd.list = devs[rd.dev].trims
           \/ Late \in pr_trouble
    BY <1>6 DEF Listings!scull_read_procmem, ListsInv
  <2>2. PICK text : rd' = [rd EXCEPT !.at = "load", !.dev = @ + 1, !.text = text]
    BY <1>6, Zenon DEF Listings!scull_read_procmem
  <2>3. /\ rd'.at = "load" /\ {"at", "dev", "list"} \subseteq DOMAIN rd'
        /\ rd'.dev \in Nat \ {0}
    BY <2>1, <2>2
  <2>4. pr_trouble' = pr_trouble
          \cup (IF rd.list \notin {-1, devs[rd.dev].trims} THEN {Stale} ELSE {})
    BY <1>6 DEF Listings!scull_read_procmem, Stale
  <2>5. Stale \in pr_trouble' => Late \in pr_trouble'
    BY <2>1, <2>4 DEF ListsInv
  <2> QED
    BY <2>1, <2>3, <2>5 DEF ListsInv
<1>7. CASE Listings!SeqShown
  <2>1. /\ UNCHANGED <<pr_kind, devs>>
        /\ \/ rd' = Listings!Show(2 * rd.size) /\ UNCHANGED pr_trouble
           \/ /\ rd' = [at |-> "over", count |-> 0]
              /\ pr_trouble \subseteq pr_trouble'
              /\ pr_trouble' \subseteq pr_trouble \cup {"buffer nearly full"}
    BY <1>7 DEF Listings!SeqShown
  <2>2. CASE rd' = Listings!Show(2 * rd.size) /\ UNCHANGED pr_trouble
    BY <2>1, <2>2 DEF Listings!Show, ListsInv
  <2>3. CASE /\ rd' = [at |-> "over", count |-> 0]
             /\ pr_trouble \subseteq pr_trouble'
             /\ pr_trouble' \subseteq pr_trouble \cup {"buffer nearly full"}
    <3>1. rd'.at \notin {"load", "list", "shown"}
      BY <2>3
    <3>2. /\ Stale \in pr_trouble' => Stale \in pr_trouble
          /\ Late \in pr_trouble => Late \in pr_trouble'
      BY <2>3 DEF Stale
    <3> QED
      BY <2>1, <3>1, <3>2, ListsAside
  <2> QED
    BY <2>1, <2>2, <2>3
<1>8. CASE \/ Listings!scull_seq_start \/ Listings!scull_seq_show \/ Listings!scull_seq_next
           \/ Listings!ct_seq_start \/ Listings!ct_seq_show \/ Listings!ct_seq_next
           \/ Listings!ct_seq_stop
  <2>1. pr_kind # "scullmem" /\ UNCHANGED <<pr_kind, devs, pr_trouble>>
    BY <1>8 DEF Listings!scull_seq_start, Listings!scull_seq_show, Listings!scull_seq_next,
         Listings!ct_seq_start, Listings!ct_seq_show, Listings!ct_seq_next,
         Listings!ct_seq_stop
  <2> QED
    BY <2>1, ListsAside
<1>9. ASSUME NEW i \in 1 .. Devs, Listings!Write(i)
      PROVE  ListsInv'
  <2>1. PICK d : /\ devs' = [devs EXCEPT ![i] = d] /\ DOMAIN d = DevFields
                 /\ d.trims = devs[i].trims
                 /\ UNCHANGED <<pr_kind, rd, pr_trouble>>
    <3>1. DOMAIN devs[i] = DevFields /\ "trims" \in DOMAIN devs[i]
      BY DEF ListsInv, DevFields
    <3>2. CASE Listings!Changed(i, [devs[i] EXCEPT !.items = @ + 1, !.slots = {1}])
      <4>1. PICK d : d = [devs[i] EXCEPT !.items = devs[i].items + 1, !.slots = {1}]
        OBVIOUS
      <4>2. DOMAIN d = DevFields /\ d.trims = devs[i].trims
        BY <3>1, <4>1
      <4>3. devs' = [devs EXCEPT ![i] = d] /\ UNCHANGED <<pr_kind, rd>>
        BY <3>2, <4>1 DEF Listings!Changed
      <4> QED
        BY <1>9, <4>2, <4>3 DEF Listings!Write
    <3>3. ASSUME NEW j, Listings!Changed(i, [devs[i] EXCEPT !.slots = @ \cup {j}])
          PROVE  \E d : /\ devs' = [devs EXCEPT ![i] = d] /\ DOMAIN d = DevFields
                        /\ d.trims = devs[i].trims
                        /\ UNCHANGED <<pr_kind, rd, pr_trouble>>
      <4>1. PICK d : d = [devs[i] EXCEPT !.slots = devs[i].slots \cup {j}]
        OBVIOUS
      <4>2. DOMAIN d = DevFields /\ d.trims = devs[i].trims
        BY <3>1, <4>1
      <4>3. devs' = [devs EXCEPT ![i] = d] /\ UNCHANGED <<pr_kind, rd>>
        BY <3>3, <4>1 DEF Listings!Changed
      <4> QED
        BY <1>9, <4>2, <4>3 DEF Listings!Write
    <3> QED
      BY <1>9, <3>2, <3>3 DEF Listings!Write
  <2>2. /\ DOMAIN devs' = 1 .. Devs /\ \A n \in 1 .. Devs : DOMAIN devs'[n] = DevFields
        /\ \A n \in 1 .. Devs : devs'[n].trims = devs[n].trims
    BY <2>1 DEF ListsInv
  <2> QED
    BY <2>1, <2>2 DEF ListsInv
<1>10. ASSUME NEW i \in 1 .. Devs, Listings!Trim(i)
       PROVE  ListsInv'
  <2>1. PICK d : /\ devs' = [devs EXCEPT ![i] = d] /\ DOMAIN d = DevFields
                 /\ UNCHANGED <<pr_kind, rd>>
    <3>1. PICK d : d = [items |-> IF pr_kind \in Listings!Older THEN 1 ELSE 0, slots |-> {},
                        trims |-> devs[i].trims + 1]
      OBVIOUS
    <3>2. DOMAIN d = DevFields
      BY <3>1 DEF DevFields
    <3>3. devs' = [devs EXCEPT ![i] = d] /\ UNCHANGED <<pr_kind, rd>>
      BY <1>10, <3>1, Zenon DEF Listings!Trim, Listings!Changed
    <3> QED
      BY <3>2, <3>3
  <2>2. /\ DOMAIN devs' = 1 .. Devs /\ \A n \in 1 .. Devs : DOMAIN devs'[n] = DevFields
        /\ \A n \in 1 .. Devs \ {i} : devs'[n] = devs[n]
    BY <2>1 DEF ListsInv
  <2>3. /\ Stale \in pr_trouble' => Stale \in pr_trouble
        /\ Late \in pr_trouble => Late \in pr_trouble'
        /\ rd.at = "list" /\ rd.dev = i => Late \in pr_trouble'
    BY <1>10 DEF Listings!Trim, Stale, Late
  <2> QED
    BY <2>1, <2>2, <2>3 DEF ListsInv
<1>11. CASE Listings!Reopen
  BY <1>11 DEF Listings!Reopen, Listings!Idle, ListsInv
<1>12. CASE UNCHANGED procVars
  BY <1>12, ListsAside DEF procVars
<1> QED
  BY <1>1, <1>2, <1>3, <1>4, <1>5, <1>6, <1>7, <1>8, <1>9, <1>10, <1>11, <1>12
  DEF Listings!Next
-----------------------------------------------------------------------------
(* Each device of the host behaves as its module says.                     *)

LEMMA MemoryIsScull == MemorySpec => Spec
<1>1. MemoryInit => Init
  BY DEF MemoryInit
<1>2. [MemoryNext]_<<driver, itemVars, vars, procVars, mapVars>> => [Next]_vars
  BY DEF MemoryNext
<1> QED
  BY <1>1, <1>2, PTL DEF MemorySpec, Spec

LEMMA MemoryCounts == MemorySpec => []CountedInv
<1>1. MemoryInit => CountedInv
  BY CountedInit
<1>2. CountedInv /\ [MemoryNext]_<<driver, itemVars, vars, procVars, mapVars>> => CountedInv'
  BY CountedStep DEF MemoryNext
<1> QED
  BY <1>1, <1>2, PTL DEF MemorySpec

LEMMA MemoryLists == MemorySpec => []ListsInv
<1>1. MemoryInit => ListsInv
  BY ListsInit
<1>2. ListsInv /\ [MemoryNext]_<<driver, itemVars, vars, procVars, mapVars>> => ListsInv'
  BY ListsStep DEF MemoryNext
<1> QED
  BY <1>1, <1>2, PTL DEF MemorySpec

\* Nothing is freed that is being copied, is mapped, or is listed: the trims of
\* scull take the semaphore, those of scullp and its kind see a count of
\* mappings that is exact unless vma_open and vma_close meet, and scullmem
\* follows a freed list only where a trim has come between its load of the list
\* and its semaphore.
THEOREM NothingFreedCorrect ==
  ASSUME Usage
  PROVE  MemorySpec => []NothingFreedInUse
<1>1. NoUseAfterFree /\ CountedInv /\ ListsInv => NothingFreedInUse
  BY CountedShown DEF NothingFreedInUse, ListsInv, Listings!ListsValid, Stale,
  Late
<1> QED
  BY <1>1, SemaphoreCorrect, MemoryIsScull, MemoryCounts, MemoryLists, PTL
=============================================================================
