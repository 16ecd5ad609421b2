---------------------------- MODULE SumTheorems ----------------------------
(***************************************************************************)
(* What MapThenSumSet computes over a finite set, for the sums of calls    *)
(* that the rate limiter's properties speak of.  The fold chooses the next *)
(* element; the sum does not depend on the choice.  A fact about every     *)
(* finite set is proved of the smallest set that would break it.           *)
(***************************************************************************)
EXTENDS Integers, FiniteSets, FiniteSetsExt, FiniteSetTheorems,
        WellFoundedInduction, TLAPS

SumOf(f, S) == MapThenSumSet(LAMBDA t : f[t], S)

Pick(s) == CHOOSE x \in s : TRUE

\* What the fold computes for a subset, from a table of the smaller ones.
FromSmaller(f, g, s) == IF s = {} THEN 0 ELSE f[Pick(s)] + g[s \ {Pick(s)}]

\* g tabulates the sums over the subsets of S that have n elements at most.
TabulatesTo(f, g, S, n) ==
  \A s \in SUBSET S : Cardinality(s) <= n => g[s] = FromSmaller(f, g, s)

Table(f, S) == CHOOSE g : g = [s \in SUBSET S |-> FromSmaller(f, g, s)]

-----------------------------------------------------------------------------
(* Induction: over the numbers, and over the finite sets by their size.    *)

\* A set of numbers that is not empty has a least element.
LEMMA LeastNumber ==
  ASSUME NEW T, T \subseteq Nat, T # {}
  PROVE  \E m \in T : \A k \in T : m <= k
<1>1. PICK m \in T : \A k \in T : ~ (<<k, m>> \in OpToRel(<, Nat))
  BY NatLessThanWellFounded, WFMin
<1>2. \A k \in T : ~ (k < m)
  BY <1>1 DEF OpToRel
<1> QED
  BY <1>2

\* A set with 0 and the successor of each of its elements holds every number.
LEMMA AllNumbers ==
  ASSUME NEW T, T \subseteq Nat, 0 \in T, \A n \in T : n + 1 \in T
  PROVE  T = Nat
<1> SUFFICES ASSUME T # Nat PROVE FALSE
  OBVIOUS
<1>1. PICK m \in Nat \ T : \A k \in Nat \ T : m <= k
  BY LeastNumber
<1>2. m - 1 \in Nat /\ m - 1 \in T
  BY <1>1
<1> QED
  BY <1>1, <1>2

\* A set of finite sets that is not empty has one of the least size.
LEMMA SmallestSet ==
  ASSUME NEW F, F # {}, \A s \in F : IsFiniteSet(s)
  PROVE  \E s \in F : \A r \in F : Cardinality(s) <= Cardinality(r)
<1> DEFINE sizes == {Cardinality(s) : s \in F}
<1>1. sizes \subseteq Nat /\ sizes # {}
  BY FS_CardinalityType
<1>2. PICK m \in sizes : \A k \in sizes : m <= k
  BY <1>1, LeastNumber
<1> QED
  BY <1>2

LEMMA Picked ==
  ASSUME NEW s, s # {}, IsFiniteSet(s)
  PROVE  /\ Pick(s) \in s /\ IsFiniteSet(s \ {Pick(s)})
         /\ Cardinality(s) \in Nat /\ Cardinality(s \ {Pick(s)}) = Cardinality(s) - 1
<1>1. Pick(s) \in s
  BY DEF Pick
<1>2. /\ IsFiniteSet(s \ {Pick(s)})
      /\ Cardinality(s \ {Pick(s)}) =
           IF Pick(s) \in s THEN Cardinality(s) - 1 ELSE Cardinality(s)
  BY FS_RemoveElement
<1>3. Cardinality(s) \in Nat
  BY FS_CardinalityType
<1> QED
  BY <1>1, <1>2, <1>3

-----------------------------------------------------------------------------
(* The fold's recursion has a solution.                                    *)

LEMMA OneMoreSize ==
  ASSUME NEW f, NEW S, IsFiniteSet(S), NEW n \in Nat, NEW g, TabulatesTo(f, g, S, n)
  PROVE  TabulatesTo(f, [s \in SUBSET S |-> FromSmaller(f, g, s)], S, n + 1)
<1> DEFINE h == [s \in SUBSET S |-> FromSmaller(f, g, s)]
<1> SUFFICES ASSUME NEW s \in SUBSET S, Cardinality(s) <= n + 1
             PROVE  h[s] = FromSmaller(f, h, s)
  BY DEF TabulatesTo
<1>1. CASE s = {}
  BY <1>1 DEF FromSmaller
<1>2. CASE s # {}
  <2> DEFINE r == s \ {Pick(s)}
  <2>1. IsFiniteSet(s)
    BY FS_Subset
  <2>2. Cardinality(s) \in Nat /\ Cardinality(r) = Cardinality(s) - 1
    BY <1>2, <2>1, Picked
  <2>3. r \in SUBSET S /\ Cardinality(r) <= n
    BY <2>2
  <2>4. h[r] = FromSmaller(f, g, r) /\ g[r] = FromSmaller(f, g, r)
    BY <2>3 DEF TabulatesTo
  <2>5. h[s] = f[Pick(s)] + g[r] /\ FromSmaller(f, h, s) = f[Pick(s)] + h[r]
    BY <1>2 DEF FromSmaller
  <2> QED
    BY <2>4, <2>5
<1> QED
  BY <1>1, <1>2

LEMMA EverySize ==
  ASSUME NEW f, NEW S, IsFiniteSet(S), NEW n \in Nat
  PROVE  \E g : TabulatesTo(f, g, S, n)
<1> DEFINE T == {k \in Nat : \E g : TabulatesTo(f, g, S, k)}
<1>1. 0 \in T
  <2> DEFINE g == [s \in SUBSET S |-> 0]
  <2>1. ASSUME NEW s \in SUBSET S, Cardinality(s) <= 0
        PROVE  g[s] = FromSmaller(f, g, s)
    <3>1. IsFiniteSet(s)
      BY FS_Subset
    <3>2. Cardinality(s) \in Nat
      BY <3>1, FS_CardinalityType
    <3>3. s = {}
      BY <2>1, <3>1, <3>2, FS_EmptySet
    <3> QED
      BY <3>3 DEF FromSmaller
  <2>2. TabulatesTo(f, g, S, 0)
    BY <2>1 DEF TabulatesTo
  <2> QED
    BY <2>2
<1>2. ASSUME NEW k \in T
      PROVE  k + 1 \in T
  <2>1. PICK g : TabulatesTo(f, g, S, k)
    OBVIOUS
  <2>2. TabulatesTo(f, [s \in SUBSET S |-> FromSmaller(f, g, s)], S, k + 1)
    BY <2>1, OneMoreSize
  <2> QED
    BY <2>2
<1> HIDE DEF T
<1>3. T = Nat
  BY <1>1, <1>2, AllNumbers DEF T
<1> QED
  BY <1>3 DEF T

LEMMA TableExists ==
  ASSUME NEW f, NEW S, IsFiniteSet(S)
  PROVE  Table(f, S) = [s \in SUBSET S |-> FromSmaller(f, Table(f, S), s)]
<1>1. Cardinality(S) \in Nat
  BY FS_CardinalityType
<1>2. PICK g : TabulatesTo(f, g, S, Cardinality(S))
  BY <1>1, EverySize
<1> DEFINE h == [s \in SUBSET S |-> FromSmaller(f, g, s)]
<1>3. \A s \in SUBSET S : g[s] = h[s]
  <2> TAKE s \in SUBSET S
  <2>1. Cardinality(s) <= Cardinality(S)
    BY FS_Subset
  <2> QED
    BY <1>2, <2>1 DEF TabulatesTo
<1>4. \A s \in SUBSET S : FromSmaller(f, g, s) = FromSmaller(f, h, s)
  BY <1>3 DEF FromSmaller
<1>5. h = [s \in SUBSET S |-> FromSmaller(f, h, s)]
  BY <1>4
<1> QED
  BY <1>5 DEF Table

LEMMA TableEntry ==
  ASSUME NEW f, NEW S, IsFiniteSet(S), NEW s \in SUBSET S
  PROVE  Table(f, S)[s] = FromSmaller(f, Table(f, S), s)
<1> DEFINE g == Table(f, S)
<1>1. g = [r \in SUBSET S |-> FromSmaller(f, g, r)]
  BY TableExists
<1> HIDE DEF g
<1>2. [r \in SUBSET S |-> FromSmaller(f, g, r)][s] = FromSmaller(f, g, s)
  OBVIOUS
<1> QED
  BY <1>1, <1>2 DEF g

\* The library's fold is this table's last entry.
LEMMA FoldIsTable ==
  ASSUME NEW f, NEW S
  PROVE  SumOf(f, S) = Table(f, S)[S]
  BY DEF SumOf, MapThenSumSet, MapThenFoldSet, Table, FromSmaller, Pick

\* A table of a larger set has the same entries.
LEMMA TablesAgree ==
  ASSUME NEW f, NEW S, IsFiniteSet(S), NEW U \in SUBSET S, NEW s \in SUBSET U
  PROVE  Table(f, U)[s] = Table(f, S)[s]
<1> DEFINE F == {r \in SUBSET U : Table(f, U)[r] # Table(f, S)[r]}
<1> SUFFICES ASSUME F # {} PROVE FALSE
  OBVIOUS
<1>0. IsFiniteSet(U)
  BY FS_Subset
<1>1. \A r \in F : IsFiniteSet(r)
  BY <1>0, FS_Subset
<1>2. PICK r \in F : \A q \in F : Cardinality(r) <= Cardinality(q)
  BY <1>1, SmallestSet
<1>3. /\ Table(f, U)[r] = FromSmaller(f, Table(f, U), r)
      /\ Table(f, S)[r] = FromSmaller(f, Table(f, S), r)
  BY <1>0, TableEntry
<1>4. CASE r = {}
  BY <1>3, <1>4 DEF FromSmaller
<1>5. CASE r # {}
  <2>1. /\ Cardinality(r) \in Nat
        /\ Cardinality(r \ {Pick(r)}) = Cardinality(r) - 1
    BY <1>1, <1>5, Picked
  <2>2. r \ {Pick(r)} \notin F
    BY <1>2, <2>1
  <2> QED
    BY <1>3, <1>5, <2>2 DEF FromSmaller
<1> QED
  BY <1>4, <1>5

-----------------------------------------------------------------------------
(* The sum itself.                                                         *)

LEMMA SumOfEmpty ==
  ASSUME NEW f
  PROVE  SumOf(f, {}) = 0
<1>1. Table(f, {})[{}] = FromSmaller(f, Table(f, {}), {})
  BY TableEntry, FS_EmptySet
<1> QED
  BY <1>1, FoldIsTable DEF FromSmaller

\* The fold takes the element it picks.
LEMMA SumPicks ==
  ASSUME NEW f, NEW S, IsFiniteSet(S), S # {}
  PROVE  SumOf(f, S) = f[Pick(S)] + SumOf(f, S \ {Pick(S)})
<1>1. Table(f, S)[S] = FromSmaller(f, Table(f, S), S)
  BY TableEntry
<1>2. S \ {Pick(S)} \in SUBSET S
  OBVIOUS
<1>3. Table(f, S \ {Pick(S)})[S \ {Pick(S)}] = Table(f, S)[S \ {Pick(S)}]
  BY <1>2, TablesAgree
<1> QED
  BY <1>1, <1>3, FoldIsTable DEF FromSmaller

LEMMA SumInNat ==
  ASSUME NEW f, NEW S, IsFiniteSet(S), \A x \in S : f[x] \in Nat
  PROVE  SumOf(f, S) \in Nat
<1> DEFINE F == {r \in SUBSET S : SumOf(f, r) \notin Nat}
<1> SUFFICES ASSUME F # {} PROVE FALSE
  OBVIOUS
<1>1. \A r \in F : IsFiniteSet(r)
  BY FS_Subset
<1>2. PICK r \in F : \A q \in F : Cardinality(r) <= Cardinality(q)
  BY <1>1, SmallestSet
<1>3. CASE r = {}
  BY <1>2, <1>3, SumOfEmpty
<1>4. CASE r # {}
  <2>1. /\ Cardinality(r) \in Nat /\ Pick(r) \in r
        /\ Cardinality(r \ {Pick(r)}) = Cardinality(r) - 1
    BY <1>1, <1>4, Picked
  <2>2. r \ {Pick(r)} \notin F
    BY <1>2, <2>1
  <2>3. SumOf(f, r \ {Pick(r)}) \in Nat /\ f[Pick(r)] \in Nat
    BY <2>1, <2>2
  <2>4. SumOf(f, r) = f[Pick(r)] + SumOf(f, r \ {Pick(r)})
    BY <1>1, <1>4, SumPicks
  <2> QED
    BY <2>3, <2>4
<1> QED
  BY <1>3, <1>4

\* Which element is taken first makes no difference.
LEMMA SumTakes ==
  ASSUME NEW f, NEW S, IsFiniteSet(S), \A x \in S : f[x] \in Nat, NEW x \in S
  PROVE  SumOf(f, S) = f[x] + SumOf(f, S \ {x})
<1> DEFINE F == {r \in SUBSET S : \E y \in r : SumOf(f, r) # f[y] + SumOf(f, r \ {y})}
<1> SUFFICES ASSUME F # {} PROVE FALSE
  OBVIOUS
<1>1. \A r \in SUBSET S : IsFiniteSet(r)
  BY FS_Subset
<1>2. PICK r \in F : \A q \in F : Cardinality(r) <= Cardinality(q)
  BY <1>1, SmallestSet
<1>3. PICK y \in r : SumOf(f, r) # f[y] + SumOf(f, r \ {y})
  BY <1>2
<1> DEFINE z == Pick(r)
<1>4. /\ Cardinality(r) \in Nat /\ z \in r
      /\ Cardinality(r \ {z}) = Cardinality(r) - 1
  BY <1>1, <1>3, Picked
<1>5. SumOf(f, r) = f[z] + SumOf(f, r \ {z})
  BY <1>1, <1>3, SumPicks
<1> HIDE DEF z
<1>6. z # y
  BY <1>3, <1>5
<1>7. Cardinality(r \ {y}) = Cardinality(r) - 1
  BY <1>1, FS_RemoveElement
<1>8. r \ {y} \in SUBSET S /\ r \ {z} \in SUBSET S
  OBVIOUS
<1>9. ASSUME NEW q \in F
      PROVE  Cardinality(q) # Cardinality(r) - 1
  <2>1. Cardinality(r) <= Cardinality(q)
    BY <1>2
  <2> QED
    BY <1>4, <2>1
<1>10. r \ {y} \notin F /\ r \ {z} \notin F
  <2> HIDE DEF F
  <2> QED
    BY <1>4, <1>7, <1>9
<1>11. /\ SumOf(f, r \ {y}) = f[z] + SumOf(f, (r \ {y}) \ {z})
      /\ SumOf(f, r \ {z}) = f[y] + SumOf(f, (r \ {z}) \ {y})
  BY <1>3, <1>4, <1>6, <1>8, <1>10
<1>12. (r \ {y}) \ {z} = (r \ {z}) \ {y}
  OBVIOUS
<1>13. /\ f[y] \in Nat /\ f[z] \in Nat
  BY <1>4
<1>14. SumOf(f, (r \ {z}) \ {y}) \in Nat
  <2>1. (r \ {z}) \ {y} \in SUBSET S
    OBVIOUS
  <2> QED
    BY <1>1, <2>1, SumInNat
<1> QED
  BY <1>3, <1>5, <1>11, <1>12, <1>13, <1>14

\* Functions that agree on the set have the same sum.
LEMMA SameSum ==
  ASSUME NEW f, NEW g, NEW S, IsFiniteSet(S), \A x \in S : f[x] = g[x]
  PROVE  SumOf(f, S) = SumOf(g, S)
<1> DEFINE F == {r \in SUBSET S : SumOf(f, r) # SumOf(g, r)}
<1> SUFFICES ASSUME F # {} PROVE FALSE
  OBVIOUS
<1>1. \A r \in F : IsFiniteSet(r)
  BY FS_Subset
<1>2. PICK r \in F : \A q \in F : Cardinality(r) <= Cardinality(q)
  BY <1>1, SmallestSet
<1>3. CASE r = {}
  BY <1>2, <1>3, SumOfEmpty
<1>4. CASE r # {}
  <2>1. /\ Cardinality(r) \in Nat /\ Pick(r) \in r
        /\ Cardinality(r \ {Pick(r)}) = Cardinality(r) - 1
    BY <1>1, <1>4, Picked
  <2>2. r \ {Pick(r)} \notin F
    BY <1>2, <2>1
  <2>3. SumOf(f, r \ {Pick(r)}) = SumOf(g, r \ {Pick(r)}) /\ f[Pick(r)] = g[Pick(r)]
    BY <2>1, <2>2
  <2>4. SumOf(f, r) = f[Pick(r)] + SumOf(f, r \ {Pick(r)})
    BY <1>1, <1>4, SumPicks
  <2>5. SumOf(g, r) = g[Pick(r)] + SumOf(g, r \ {Pick(r)})
    BY <1>1, <1>4, SumPicks
  <2> QED
    BY <1>2, <2>3, <2>4, <2>5
<1> QED
  BY <1>3, <1>4

\* Two parts that share nothing add up to the whole.
LEMMA SumOfParts ==
  ASSUME NEW f, NEW S, NEW U, IsFiniteSet(S), IsFiniteSet(U), S \cap U = {},
         \A x \in S \cup U : f[x] \in Nat
  PROVE  SumOf(f, S \cup U) = SumOf(f, S) + SumOf(f, U)
<1> DEFINE F == {r \in SUBSET S : SumOf(f, r \cup U) # SumOf(f, r) + SumOf(f, U)}
<1> SUFFICES ASSUME F # {} PROVE FALSE
  OBVIOUS
<1>1. \A r \in SUBSET S : IsFiniteSet(r)
  BY FS_Subset
<1>2. PICK r \in F : \A q \in F : Cardinality(r) <= Cardinality(q)
  BY <1>1, SmallestSet
<1>3. SumOf(f, U) \in Nat
  BY SumInNat
<1>4. CASE r = {}
  <2>1. r \cup U = U
    BY <1>4
  <2> QED
    BY <1>2, <1>3, <1>4, <2>1, SumOfEmpty
<1>5. CASE r # {}
  <2>1. PICK x \in r : TRUE
    BY <1>5
  <2>2. Cardinality(r) \in Nat
    BY <1>1, FS_CardinalityType
  <2>3. Cardinality(r \ {x}) = Cardinality(r) - 1
    BY <1>1, FS_RemoveElement
  <2>4. r \ {x} \notin F
    BY <1>2, <2>2, <2>3
  <2>5. SumOf(f, (r \ {x}) \cup U) = SumOf(f, r \ {x}) + SumOf(f, U)
    BY <2>4
  <2>6. SumOf(f, r) = f[x] + SumOf(f, r \ {x})
    BY <1>1, SumTakes
  <2>7. (r \cup U) \ {x} = (r \ {x}) \cup U
    OBVIOUS
  <2>8. IsFiniteSet(r \cup U)
    BY <1>1, FS_Union
  <2>9. SumOf(f, r \cup U) = f[x] + SumOf(f, (r \ {x}) \cup U)
    BY <2>7, <2>8, SumTakes
  <2>10. SumOf(f, r \ {x}) \in Nat
    <3>1. r \ {x} \in SUBSET S
      OBVIOUS
    <3> QED
      BY <1>1, <3>1, SumInNat
  <2> QED
    BY <1>2, <1>3, <2>5, <2>6, <2>9, <2>10
<1> QED
  BY <1>4, <1>5

\* A part is no more than the whole.
LEMMA SumOfSome ==
  ASSUME NEW f, NEW S, IsFiniteSet(S), NEW U \in SUBSET S, \A x \in S : f[x] \in Nat
  PROVE  SumOf(f, U) <= SumOf(f, S)
<1>1. IsFiniteSet(U)
  BY FS_Subset
<1>2. IsFiniteSet(S \ U)
  BY FS_Difference
<1>3. S = U \cup (S \ U) /\ U \cap (S \ U) = {}
  OBVIOUS
<1>4. SumOf(f, S) = SumOf(f, U) + SumOf(f, S \ U)
  BY <1>1, <1>2, <1>3, SumOfParts
<1>5. SumOf(f, U) \in Nat /\ SumOf(f, S \ U) \in Nat
  BY <1>1, <1>2, SumInNat
<1> QED
  BY <1>4, <1>5

\* One more at one point is one more in the sum.
LEMMA SumOfOneMore ==
  ASSUME NEW f, NEW g, NEW S, IsFiniteSet(S), NEW x \in S,
         \A y \in S : f[y] \in Nat, \A y \in S \ {x} : g[y] = f[y], g[x] = f[x] + 1
  PROVE  SumOf(g, S) = SumOf(f, S) + 1
<1>1. \A y \in S : g[y] \in Nat
  OBVIOUS
<1>2. IsFiniteSet(S \ {x})
  BY FS_RemoveElement
<1>3. SumOf(g, S \ {x}) = SumOf(f, S \ {x})
  BY <1>2, SameSum
<1>4. SumOf(f, S) = f[x] + SumOf(f, S \ {x})
  BY SumTakes
<1>5. SumOf(g, S) = g[x] + SumOf(g, S \ {x})
  BY <1>1, SumTakes
<1>6. SumOf(f, S \ {x}) \in Nat
  BY <1>2, SumInNat
<1> QED
  BY <1>3, <1>4, <1>5, <1>6

\* Nothing adds up to nothing.
LEMMA SumOfNothing ==
  ASSUME NEW f, NEW S, IsFiniteSet(S), \A x \in S : f[x] = 0
  PROVE  SumOf(f, S) = 0
<1> DEFINE F == {r \in SUBSET S : SumOf(f, r) # 0}
<1> SUFFICES ASSUME F # {} PROVE FALSE
  OBVIOUS
<1>1. \A r \in F : IsFiniteSet(r)
  BY FS_Subset
<1>2. PICK r \in F : \A q \in F : Cardinality(r) <= Cardinality(q)
  BY <1>1, SmallestSet
<1>3. CASE r = {}
  BY <1>2, <1>3, SumOfEmpty
<1>4. CASE r # {}
  <2>1. /\ Cardinality(r) \in Nat /\ Pick(r) \in r
        /\ Cardinality(r \ {Pick(r)}) = Cardinality(r) - 1
    BY <1>1, <1>4, Picked
  <2>2. r \ {Pick(r)} \notin F
    BY <1>2, <2>1
  <2>3. SumOf(f, r) = f[Pick(r)] + SumOf(f, r \ {Pick(r)})
    BY <1>1, <1>4, SumPicks
  <2> QED
    BY <1>2, <2>1, <2>2, <2>3
<1> QED
  BY <1>3, <1>4
=============================================================================
