------------------------------- MODULE Sums -------------------------------
(***************************************************************************)
(* The sum of a function over a finite set, and what the proofs need of    *)
(* it: quantities of orders, rounds of threads, slices of blocks.          *)
(***************************************************************************)
EXTENDS Integers, FiniteSetsExt, FiniteSetTheorems, WellFoundedInduction, TLAPS

\* The sum of g over S
Total(g, S) == MapThenSumSet(LAMBDA x : g[x], S)

\* A nonempty set of subsets of a finite set has a least one.
LEMMA Smallest ==
  ASSUME NEW S, IsFiniteSet(S), NEW T, T \subseteq SUBSET S, T # {}
  PROVE  \E U \in T : \A V \in T : V \subseteq U => V = U
<1> DEFINE R == StrictSubsetOrdering(S)
<1>1. IsWellFoundedOn(R, FiniteSubsetsOf(S)) /\ FiniteSubsetsOf(S) = SUBSET S
  BY FS_StrictSubsetOrderingWellFounded, FS_FiniteSubsetsOfFinite
<1>2. PICK U \in T : \A V \in T : ~ (<<V, U>> \in R)
  <2> HIDE DEF R
  <2> QED
    BY <1>1, WFMin
<1> QED
  BY <1>2 DEF StrictSubsetOrdering

\* f is the function that Total builds for the subsets of S.
First(s) == CHOOSE x \in s : TRUE
SumFn(g, S, f) ==
  f = [s \in SUBSET S |-> IF s = {} THEN 0 ELSE g[First(s)] + f[s \ {First(s)}]]

LEMMA TotalUnfolds ==
  ASSUME NEW g, NEW S
  PROVE  Total(g, S) = (CHOOSE f : SumFn(g, S, f))[S]
  BY DEF Total, MapThenSumSet, MapThenFoldSet, First, SumFn

LEMMA SumUnique ==
  ASSUME NEW g, NEW S, IsFiniteSet(S), NEW f, NEW h, SumFn(g, S, f), SumFn(g, S, h)
  PROVE  f = h
<1> DEFINE T == {s \in SUBSET S : f[s] # h[s]}
<1>1. CASE T # {}
  <2>1. PICK U \in T : \A V \in T : V \subseteq U => V = U
    <3>1. T \subseteq SUBSET S
      OBVIOUS
    <3> HIDE DEF T
    <3> QED
      BY <1>1, <3>1, Smallest
  <2>2. U # {} /\ First(U) \in U
    BY <2>1 DEF SumFn, First
  <2>3. U \ {First(U)} \in SUBSET S /\ U \ {First(U)} \notin T
    BY <2>1, <2>2
  <2>4. f[U \ {First(U)}] = h[U \ {First(U)}]
    BY <2>3
  <2> QED
    BY <2>1, <2>2, <2>4 DEF SumFn
<1>2. CASE T = {}
  BY <1>2 DEF SumFn
<1> QED
  BY <1>1, <1>2

LEMMA SumRestricts ==
  ASSUME NEW g, NEW S, NEW f, SumFn(g, S, f), NEW R \in SUBSET S
  PROVE  SumFn(g, R, [s \in SUBSET R |-> f[s]])
<1> PICK h : h = [s \in SUBSET R |-> f[s]]
  OBVIOUS
<1>1. \A s \in SUBSET R :
        /\ s \in SUBSET S /\ s \ {First(s)} \in SUBSET R
        /\ f[s] = IF s = {} THEN 0 ELSE g[First(s)] + f[s \ {First(s)}]
  BY DEF SumFn
<1>2. h = [s \in SUBSET R |-> IF s = {} THEN 0 ELSE g[First(s)] + h[s \ {First(s)}]]
  BY <1>1
<1> QED
  BY <1>2 DEF SumFn

\* A step of the sum, once the function is known to exist.
LEMMA StepIfSum ==
  ASSUME NEW g, NEW S, IsFiniteSet(S), \E f : SumFn(g, S, f)
  PROVE  Total(g, S) = IF S = {} THEN 0 ELSE g[First(S)] + Total(g, S \ {First(S)})
<1>1. PICK f : f = (CHOOSE h : SumFn(g, S, h))
  OBVIOUS
<1>2. SumFn(g, S, f) /\ Total(g, S) = f[S]
  BY <1>1, TotalUnfolds
<1>3. f[S] = IF S = {} THEN 0 ELSE g[First(S)] + f[S \ {First(S)}]
  BY <1>2 DEF SumFn
<1>4. ASSUME NEW R \in SUBSET S PROVE Total(g, R) = f[R]
  <2>1. PICK k : k = [s \in SUBSET R |-> f[s]]
    OBVIOUS
  <2>2. SumFn(g, R, k)
    BY <1>2, <2>1, SumRestricts
  <2>3. PICK h : h = (CHOOSE e : SumFn(g, R, e))
    OBVIOUS
  <2>4. SumFn(g, R, h)
    BY <2>2, <2>3
  <2>5. IsFiniteSet(R)
    BY FS_Subset
  <2>6. h = k
    BY <2>2, <2>4, <2>5, SumUnique
  <2>7. Total(g, R) = h[R]
    BY <2>3, TotalUnfolds
  <2> QED
    BY <2>1, <2>6, <2>7
<1> QED
  BY <1>2, <1>3, <1>4

LEMMA SumExists ==
  ASSUME NEW g, NEW S, IsFiniteSet(S)
  PROVE  \E f : SumFn(g, S, f)
<1> DEFINE T == {s \in SUBSET S : ~ \E f : SumFn(g, s, f)}
<1> SUFFICES ASSUME T # {} PROVE FALSE
  OBVIOUS
<1>1. PICK U \in T : \A V \in T : V \subseteq U => V = U
  <2>1. T \subseteq SUBSET S
    OBVIOUS
  <2> HIDE DEF T
  <2> QED
    BY <2>1, Smallest
<1>2. \A s \in SUBSET U : s # U => \E f : SumFn(g, s, f)
  BY <1>1
<1>3. \A s \in SUBSET U : s # U =>
        Total(g, s) = IF s = {} THEN 0 ELSE g[First(s)] + Total(g, s \ {First(s)})
  <2> SUFFICES ASSUME NEW s \in SUBSET U, s # U
               PROVE  Total(g, s) = IF s = {} THEN 0
                                    ELSE g[First(s)] + Total(g, s \ {First(s)})
    OBVIOUS
  <2>1. IsFiniteSet(s)
    BY FS_Subset
  <2> QED
    BY <1>2, <2>1, StepIfSum
<1> DEFINE v(s) == IF s = {} THEN 0 ELSE g[First(s)] + Total(g, s \ {First(s)})
<1>4. PICK h : h = [s \in SUBSET U |-> IF s = U THEN v(s) ELSE Total(g, s)]
  OBVIOUS
<1>5. \A s \in SUBSET U : s # {} => s \ {First(s)} \in SUBSET U /\ s \ {First(s)} # U
  BY DEF First
<1>6. \A s \in SUBSET U : s # {} => h[s \ {First(s)}] = Total(g, s \ {First(s)})
  BY <1>4, <1>5
<1>7. \A s \in SUBSET U : h[s] = IF s = {} THEN 0 ELSE g[First(s)] + h[s \ {First(s)}]
  BY <1>3, <1>4, <1>6
<1>8. SumFn(g, U, h)
  BY <1>4, <1>7 DEF SumFn
<1> QED
  BY <1>1, <1>8

LEMMA TotalStep ==
  ASSUME NEW g, NEW S, IsFiniteSet(S)
  PROVE  Total(g, S) = IF S = {} THEN 0 ELSE g[First(S)] + Total(g, S \ {First(S)})
  BY SumExists, StepIfSum

LEMMA TotalEmpty == ASSUME NEW g PROVE Total(g, {}) = 0
  BY TotalStep, FS_EmptySet

\* Sums of numbers are numbers.
LEMMA TotalNat ==
  ASSUME NEW g, NEW S, IsFiniteSet(S), \A x \in S : g[x] \in Nat
  PROVE  Total(g, S) \in Nat
<1> DEFINE T == {s \in SUBSET S : Total(g, s) \notin Nat}
<1> SUFFICES ASSUME T # {} PROVE FALSE
  OBVIOUS
<1>1. PICK U \in T : \A V \in T : V \subseteq U => V = U
  <2>1. T \subseteq SUBSET S
    OBVIOUS
  <2> HIDE DEF T
  <2> QED
    BY <2>1, Smallest
<1>2. IsFiniteSet(U)
  BY FS_Subset
<1>3. Total(g, U) = IF U = {} THEN 0 ELSE g[First(U)] + Total(g, U \ {First(U)})
  BY <1>2, TotalStep
<1>4. U # {} => First(U) \in U
  BY DEF First
<1>5. U # {} => Total(g, U \ {First(U)}) \in Nat
  BY <1>1, <1>4
<1> QED
  BY <1>1, <1>3, <1>4, <1>5

\* Functions that agree on a set have one sum over it.
LEMMA TotalAgrees ==
  ASSUME NEW g, NEW h, NEW S, IsFiniteSet(S), \A x \in S : g[x] = h[x]
  PROVE  Total(g, S) = Total(h, S)
<1> DEFINE T == {s \in SUBSET S : Total(g, s) # Total(h, s)}
<1> SUFFICES ASSUME T # {} PROVE FALSE
  OBVIOUS
<1>1. PICK U \in T : \A V \in T : V \subseteq U => V = U
  <2>1. T \subseteq SUBSET S
    OBVIOUS
  <2> HIDE DEF T
  <2> QED
    BY <2>1, Smallest
<1>2. IsFiniteSet(U)
  BY FS_Subset
<1>3. /\ Total(g, U) = IF U = {} THEN 0 ELSE g[First(U)] + Total(g, U \ {First(U)})
      /\ Total(h, U) = IF U = {} THEN 0 ELSE h[First(U)] + Total(h, U \ {First(U)})
  BY <1>2, TotalStep
<1>4. U # {} => First(U) \in U
  BY DEF First
<1>5. U # {} => Total(g, U \ {First(U)}) = Total(h, U \ {First(U)})
  BY <1>1, <1>4
<1> QED
  BY <1>1, <1>3, <1>4, <1>5

\* Any element may be taken out first.
LEMMA TotalWith ==
  ASSUME NEW g, NEW S, IsFiniteSet(S), \A x \in S : g[x] \in Nat, NEW a \in S
  PROVE  Total(g, S) = g[a] + Total(g, S \ {a})
<1> DEFINE T == {s \in SUBSET S : \E x \in s : Total(g, s) # g[x] + Total(g, s \ {x})}
<1> SUFFICES ASSUME T # {} PROVE FALSE
  OBVIOUS
<1>1. PICK U \in T : \A V \in T : V \subseteq U => V = U
  <2>1. T \subseteq SUBSET S
    OBVIOUS
  <2> HIDE DEF T
  <2> QED
    BY <2>1, Smallest
<1>2. PICK x \in U : Total(g, U) # g[x] + Total(g, U \ {x})
  BY <1>1
<1>3. PICK c : c = First(U)
  OBVIOUS
<1>4. c \in U
  BY <1>2, <1>3 DEF First
<1>5. IsFiniteSet(U) /\ IsFiniteSet(U \ {x}) /\ IsFiniteSet((U \ {x}) \ {c}) /\ U \in SUBSET S
  BY <1>1, FS_Subset, FS_RemoveElement
<1>6. Total(g, U) = g[c] + Total(g, U \ {c})
  BY <1>2, <1>3, <1>5, TotalStep
<1>7. x # c
  BY <1>2, <1>6
<1>8. U \ {c} \notin T /\ U \ {x} \notin T
  BY <1>1, <1>2, <1>4
<1>9. Total(g, U \ {c}) = g[x] + Total(g, (U \ {c}) \ {x})
  BY <1>1, <1>2, <1>7, <1>8
<1>10. Total(g, U \ {x}) = g[c] + Total(g, (U \ {x}) \ {c})
  BY <1>1, <1>4, <1>7, <1>8
<1>11. (U \ {x}) \ {c} = (U \ {c}) \ {x}
  OBVIOUS
<1>12. Total(g, (U \ {x}) \ {c}) \in Nat
  BY <1>5, TotalNat
<1>13. g[x] \in Nat /\ g[c] \in Nat
  BY <1>2, <1>4, <1>5
<1>14. Total(g, U) = g[c] + (g[x] + Total(g, (U \ {x}) \ {c}))
  BY <1>6, <1>9, <1>11
<1>15. \A i, j, k \in Nat : i + (j + k) = j + (i + k)
  OBVIOUS
<1>16. Total(g, U) = g[x] + (g[c] + Total(g, (U \ {x}) \ {c}))
  BY <1>12, <1>13, <1>14, <1>15
<1> QED
  BY <1>2, <1>10, <1>16

LEMMA TotalAdds ==
  ASSUME NEW g, NEW S, IsFiniteSet(S), NEW a, a \notin S,
         \A x \in S \cup {a} : g[x] \in Nat
  PROVE  Total(g, S \cup {a}) = g[a] + Total(g, S)
<1>1. IsFiniteSet(S \cup {a}) /\ (S \cup {a}) \ {a} = S
  BY FS_AddElement
<1> QED
  BY <1>1, TotalWith

LEMMA TotalCovers ==
  ASSUME NEW g, NEW S, IsFiniteSet(S), \A x \in S : g[x] \in Nat, NEW a \in S
  PROVE  g[a] <= Total(g, S)
<1>1. Total(g, S) = g[a] + Total(g, S \ {a})
  BY TotalWith
<1>2. IsFiniteSet(S \ {a})
  BY FS_RemoveElement
<1>3. Total(g, S \ {a}) \in Nat
  BY <1>2, TotalNat
<1> QED
  BY <1>1, <1>3

\* A function that differs in one place has a sum that differs as much.
LEMMA TotalMoves ==
  ASSUME NEW g, NEW h, NEW S, IsFiniteSet(S), NEW a \in S,
         \A x \in S : g[x] \in Nat /\ h[x] \in Nat,
         \A x \in S \ {a} : g[x] = h[x]
  PROVE  Total(h, S) + g[a] = Total(g, S) + h[a]
<1>1. IsFiniteSet(S \ {a})
  BY FS_RemoveElement
<1>2. PICK n : n = Total(g, S \ {a})
  OBVIOUS
<1>3. n \in Nat /\ Total(h, S \ {a}) = n
  <2>1. Total(g, S \ {a}) = Total(h, S \ {a})
    BY <1>1, TotalAgrees
  <2>2. Total(g, S \ {a}) \in Nat
    BY <1>1, TotalNat
  <2> QED
    BY <1>2, <2>1, <2>2
<1>4. Total(g, S) = g[a] + n /\ Total(h, S) = h[a] + n
  BY <1>2, <1>3, TotalWith
<1>5. g[a] \in Nat /\ h[a] \in Nat
  OBVIOUS
<1> QED
  BY <1>3, <1>4, <1>5

(***************************************************************************)
(* Extrema                                                                 *)
(***************************************************************************)

\* A sum of nothings is nothing.
LEMMA TotalZero ==
  ASSUME NEW g, NEW S, IsFiniteSet(S), \A x \in S : g[x] = 0
  PROVE  Total(g, S) = 0
<1> DEFINE T == {s \in SUBSET S : Total(g, s) # 0}
<1> SUFFICES ASSUME T # {} PROVE FALSE
  OBVIOUS
<1>1. PICK U \in T : \A V \in T : V \subseteq U => V = U
  <2>1. T \subseteq SUBSET S
    OBVIOUS
  <2> HIDE DEF T
  <2> QED
    BY <2>1, Smallest
<1>2. IsFiniteSet(U)
  BY FS_Subset
<1>3. Total(g, U) = IF U = {} THEN 0 ELSE g[First(U)] + Total(g, U \ {First(U)})
  BY <1>2, TotalStep
<1>4. U # {} => First(U) \in U
  BY DEF First
<1>5. U # {} => Total(g, U \ {First(U)}) = 0 /\ g[First(U)] = 0
  BY <1>1, <1>4
<1> QED
  BY <1>1, <1>3, <1>4, <1>5

\* A set is summed up in two parts.
LEMMA TotalParts ==
  ASSUME NEW g, NEW S, IsFiniteSet(S), NEW R, \A x \in S : g[x] \in Nat
  PROVE  Total(g, S) = Total(g, S \cap R) + Total(g, S \ R)
<1> DEFINE T == {s \in SUBSET S : Total(g, s) # Total(g, s \cap R) + Total(g, s \ R)}
<1> SUFFICES ASSUME T # {} PROVE FALSE
  OBVIOUS
<1>1. PICK U \in T : \A V \in T : V \subseteq U => V = U
  <2>1. T \subseteq SUBSET S
    OBVIOUS
  <2> HIDE DEF T
  <2> QED
    BY <2>1, Smallest
<1>2. /\ U \in SUBSET S /\ IsFiniteSet(U) /\ IsFiniteSet(U \cap R) /\ IsFiniteSet(U \ R)
      /\ Total(g, U) # Total(g, U \cap R) + Total(g, U \ R)
  BY <1>1, FS_Subset
<1>3. U # {}
  <2>1. {} \cap R = {} /\ {} \ R = {} /\ Total(g, {}) = 0 /\ 0 + 0 = 0
    BY TotalEmpty
  <2> QED
    BY <1>2, <2>1
<1>4. PICK c : c \in U
  BY <1>3
<1>5. PICK V : V = U \ {c}
  OBVIOUS
<1>6. IsFiniteSet(V) /\ V \in SUBSET S /\ c \notin V /\ IsFiniteSet(V \cap R) /\ IsFiniteSet(V \ R)
  BY <1>2, <1>5, FS_Subset
<1>7. Total(g, V) = Total(g, V \cap R) + Total(g, V \ R)
  BY <1>1, <1>4, <1>5, <1>6
<1>8. g[c] \in Nat /\ Total(g, V \cap R) \in Nat /\ Total(g, V \ R) \in Nat
  BY <1>2, <1>4, <1>6, TotalNat
<1>9. Total(g, U) = g[c] + Total(g, V)
  BY <1>2, <1>4, <1>5, TotalWith
<1>10. PICK i \in Nat, j \in Nat, k \in Nat :
        i = Total(g, V \cap R) /\ j = Total(g, V \ R) /\ k = g[c]
  BY <1>8
<1>11. Total(g, U) = k + (i + j)
  BY <1>7, <1>9, <1>10
<1>12. CASE c \in R
  <2>1. U \ R = V \ R /\ (U \cap R) \ {c} = V \cap R /\ c \in U \cap R
    BY <1>4, <1>5, <1>12
  <2>2. Total(g, U \cap R) = k + i
    BY <1>2, <1>10, <2>1, TotalWith
  <2>3. (k + i) + j = k + (i + j)
    OBVIOUS
  <2> QED
    BY <1>2, <1>10, <1>11, <2>1, <2>2, <2>3
<1>13. CASE c \notin R
  <2>1. U \cap R = V \cap R /\ (U \ R) \ {c} = V \ R /\ c \in U \ R
    BY <1>4, <1>5, <1>13
  <2>2. Total(g, U \ R) = k + j
    BY <1>2, <1>10, <2>1, TotalWith
  <2>3. i + (k + j) = k + (i + j)
    OBVIOUS
  <2> QED
    BY <1>2, <1>10, <1>11, <2>1, <2>2, <2>3
<1> QED
  BY <1>12, <1>13

\* The sum over a part is no more than the whole, and is the whole when there
\* is nothing outside of the part.
LEMMA TotalOfPart ==
  ASSUME NEW g, NEW S, IsFiniteSet(S), NEW R, R \subseteq S, \A x \in S : g[x] \in Nat
  PROVE  /\ Total(g, R) <= Total(g, S)
         /\ (\A x \in S \ R : g[x] = 0) => Total(g, R) = Total(g, S)
<1>1. S \cap R = R /\ IsFiniteSet(R) /\ IsFiniteSet(S \ R)
  BY FS_Subset
<1>2. PICK a, b : a = Total(g, R) /\ b = Total(g, S \ R)
  OBVIOUS
<1>3. Total(g, S) = a + b
  BY <1>1, <1>2, TotalParts
<1>4. a \in Nat
  BY <1>1, <1>2, TotalNat
<1>5. b \in Nat
  BY <1>1, <1>2, TotalNat
<1>6. (\A x \in S \ R : g[x] = 0) => b = 0
  BY <1>1, <1>2, TotalZero
<1> QED
  BY <1>2, <1>3, <1>4, <1>5, <1>6

\* A finite set of numbers has a largest and a smallest element.
LEMMA Extrema ==
  ASSUME NEW S, S \subseteq Nat, IsFiniteSet(S), S # {}
  PROVE  /\ \E x \in S : \A y \in S : y <= x
         /\ \E x \in S : \A y \in S : x <= y
<1>1. ASSUME NEW R,
             \A x \in S : <<x, x>> \in R,
             \A x, y, z \in S : <<x, y>> \in R /\ <<y, z>> \in R => <<x, z>> \in R,
             \A x, y \in S : <<x, y>> \in R \/ <<y, x>> \in R
      PROVE  \E x \in S : \A y \in S : <<y, x>> \in R
  <2> DEFINE from(x) == {y \in S : <<x, y>> \in R}
  <2>0. PICK T : T = {from(x) : x \in S}
    OBVIOUS
  <2>1. T \subseteq SUBSET S /\ T # {}
    BY <2>0
  <2>2. PICK U \in T : \A V \in T : V \subseteq U => V = U
    <3>1. IsFiniteSet(S)
      OBVIOUS
    <3>2. T \subseteq SUBSET S
      BY <2>1
    <3>3. T # {}
      BY <2>1
    <3> QED
      BY ONLY <3>1, <3>2, <3>3, Smallest
  <2>3. PICK x \in S : U = from(x)
    BY <2>0
  <2>4. ASSUME NEW y \in S, <<y, x>> \notin R PROVE FALSE
    <3>1. from(y) \subseteq from(x) /\ x \in from(x) /\ x \notin from(y)
      BY <1>1, <2>4
    <3> QED
      BY <2>0, <2>2, <2>3, <3>1
  <2> QED
    BY <2>4
<1>2. PICK le : le = {xy \in S \X S : xy[1] <= xy[2]}
  OBVIOUS
<1>3. PICK ge : ge = {xy \in S \X S : xy[1] >= xy[2]}
  OBVIOUS
<1>4. /\ \A x, y \in S : <<x, y>> \in le <=> x <= y
      /\ \A x, y \in S : <<x, y>> \in ge <=> x >= y
      /\ \A x \in S : x \in Nat
  BY <1>2, <1>3
<1>5. \E x \in S : \A y \in S : <<y, x>> \in le
  BY <1>1, <1>4
<1>6. \E x \in S : \A y \in S : <<y, x>> \in ge
  BY SMTT(20), <1>1, <1>4
<1> QED
  BY <1>4, <1>5, <1>6
===========================================================================
