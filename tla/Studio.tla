--------------------------------- MODULE Studio ---------------------------------
(***************************************************************************)
(* What surrounds a live run, one part at a time: the feedback and the     *)
(* evaluation of creative tasks, the spectator that records them, the      *)
(* choice of tasks, the start of servers and workers, the authoring of     *)
(* skills and their catalogue, and the evidence that the model is told.    *)
(*                                                                         *)
(* The parts come first, each with its constants, its invariant and its    *)
(* theorem; then their composition, and what the composition keeps.        *)
(***************************************************************************)
EXTENDS Integers, Sequences, FiniteSets, FiniteSetTheorems, SequenceTheorems,
        WellFoundedInduction, Subsequences, TLAPS

(* What is used of numbers, sets and sequences in more than one part.      *)

(* A set of naturals has a least element.                                  *)
LEMMA NaturalsHaveMinimum ==
  ASSUME NEW S \in SUBSET Nat, S # {}
  PROVE  \E m \in S : \A n \in S : m <= n
<1> DEFINE R == OpToRel(<, Nat)
<1>1. \A x, y \in Nat : <<x, y>> \in R <=> x < y
  BY DEF OpToRel
<1>2. IsWellFoundedOn(R, Nat)
  BY NatLessThanWellFounded
<1> HIDE DEF R
<1>3. PICK m \in S : \A n \in S : <<n, m>> \notin R
  BY <1>2, WFMin
<1>4. \A n \in S : ~(n < m) /\ n \in Nat /\ m \in Nat
  BY <1>1, <1>3
<1>5. QED
  BY <1>4

(* A finite set of naturals has a maximum: a smallest counterexample would *)
(* have one without one of its elements.                                   *)
LEMMA NaturalsHaveMaximum ==
  ASSUME NEW S \in SUBSET Nat, IsFiniteSet(S), S # {}
  PROVE  \E m \in S : \A n \in S : n <= m
<1> DEFINE Bad(T) == T \subseteq Nat /\ IsFiniteSet(T) /\ T # {}
                     /\ ~\E m \in T : \A n \in T : n <= m
           Sizes0 == {k \in Nat : \E T \in SUBSET Nat : Bad(T) /\ Cardinality(T) = k}
<1>1. SUFFICES ASSUME Bad(S) PROVE FALSE
  OBVIOUS
<1>2. Cardinality(S) \in Sizes0
  BY <1>1, FS_CardinalityType
<1>3. PICK k \in Sizes0 : \A j \in Sizes0 : ~(j < k)
  <2> HIDE DEF Sizes0
  <2>1. Sizes0 \subseteq Nat
    BY DEF Sizes0
  <2>2. \E k \in Sizes0 : \A j \in Sizes0 : ~(<<j, k>> \in OpToRel(<, Nat))
    BY <1>2, <2>1, NatLessThanWellFounded, WFMin
  <2>3. QED
    BY <2>1, <2>2 DEF OpToRel
<1>4. PICK T \in SUBSET Nat : Bad(T) /\ Cardinality(T) = k
  OBVIOUS
<1>5. PICK x \in T : TRUE
  BY <1>4
<1>6. IsFiniteSet(T \ {x}) /\ Cardinality(T \ {x}) = k - 1 /\ k \in Nat /\ k - 1 \in Nat
  <2>1. IsFiniteSet(T) /\ Cardinality(T) = k /\ k \in Nat
    BY <1>4
  <2>2. IsFiniteSet(T \ {x}) /\ Cardinality(T \ {x}) = k - 1
    BY <1>5, <2>1, FS_RemoveElement
  <2>3. QED
    BY <2>1, <2>2, FS_CardinalityType
<1>7. ~Bad(T \ {x})
  BY <1>3, <1>6
<1>8. CASE T \ {x} = {}
  BY <1>4, <1>5, <1>8
<1>9. CASE T \ {x} # {}
  <2>1. PICK m \in T \ {x} : \A n \in T \ {x} : n <= m
    BY <1>4, <1>6, <1>7, <1>9
  <2>2. CASE x <= m
    BY <1>4, <2>1, <2>2
  <2>3. CASE ~(x <= m)
    <3>1. \A n \in T : n <= x
      BY <1>4, <1>5, <2>1, <2>3
    <3>2. QED
      BY <1>4, <1>5, <3>1
  <2>4. QED
    BY <2>2, <2>3
<1>10. QED
  BY <1>8, <1>9

(* Division with a remainder.                                              *)
LEMMA Divided ==
  ASSUME NEW a \in Nat, NEW b \in Nat \ {0}
  PROVE  a \div b \in Nat /\ a % b \in 0 .. b - 1 /\ a = b * (a \div b) + (a % b)
  BY Z3

Rising(s) == \A i, j \in 1 .. Len(s) : i < j => s[i] < s[j]

(* The places of a finite set: each place has its number of places before  *)
(* it, a later one has more, and there are as many as there are numbers.   *)
LEMMA PlacesInOrder ==
  ASSUME NEW S \in SUBSET Int, IsFiniteSet(S)
  PROVE  /\ Cardinality(S) \in Nat
         /\ \A k \in 1 .. Cardinality(S) : Nth(S, k) \in S
         /\ \A k, l \in 1 .. Cardinality(S) : k < l => Nth(S, k) < Nth(S, l)
         /\ \A x \in S : \E k \in 1 .. Cardinality(S) : Nth(S, k) = x
<1> DEFINE n == Cardinality(S)
<1> DEFINE Below(x) == {y \in S : y < x}
<1> DEFINE r == [x \in S |-> Cardinality(Below(x))]
<1>1. n \in Nat
  BY FS_CardinalityType
<1>2. ASSUME NEW x \in S
      PROVE  IsFiniteSet(Below(x)) /\ r[x] \in 0 .. n - 1
  <2>1. IsFiniteSet(S \ {x}) /\ Cardinality(S \ {x}) = n - 1
    BY <1>2, FS_RemoveElement
  <2>2. Below(x) \in SUBSET (S \ {x})
    BY <1>2
  <2>3. IsFiniteSet(Below(x)) /\ Cardinality(Below(x)) <= n - 1
    BY <2>1, <2>2, FS_Subset
  <2>4. Cardinality(Below(x)) \in Nat
    BY <2>3, FS_CardinalityType
  <2>5. QED
    BY <1>1, <2>3, <2>4
<1>3. ASSUME NEW x \in S, NEW y \in S, x < y
      PROVE  r[x] < r[y]
  <2>1. IsFiniteSet(Below(x)) /\ IsFiniteSet(Below(y)) /\ x \notin Below(x)
    BY <1>2
  <2>2. IsFiniteSet(Below(x) \cup {x}) /\ Cardinality(Below(x) \cup {x}) = Cardinality(Below(x)) + 1
    BY <2>1, FS_AddElement
  <2>3. Below(x) \cup {x} \in SUBSET Below(y)
    <3>1. \A z \in S : z < x => z < y
      BY <1>3
    <3>2. QED
      BY <1>3, <3>1
  <2>4. Cardinality(Below(x) \cup {x}) <= Cardinality(Below(y))
    BY <2>1, <2>3, FS_Subset
  <2>5. r[x] \in Int /\ r[y] \in Int /\ r[x] = Cardinality(Below(x)) /\ r[y] = Cardinality(Below(y))
    BY <1>2
  <2>6. QED
    BY <2>2, <2>4, <2>5
<1>4. r \in Injection(S, 0 .. n - 1)
  <2> HIDE DEF r, n
  <2>1. r \in [S -> 0 .. n - 1]
    BY <1>2 DEF r
  <2>2. ASSUME NEW x \in S, NEW y \in S, r[x] = r[y] PROVE x = y
    <3>1. r[x] \in Int /\ x \in Int /\ y \in Int
      BY <1>1, <2>1
    <3>2. ~(x < y) /\ ~(y < x)
      BY <1>3, <2>2, <3>1
    <3>3. QED
      BY <3>1, <3>2
  <2>3. QED
    BY <2>1, <2>2 DEF Injection, IsInjective
<1>5. \A v \in 0 .. n - 1 : \E x \in S : r[x] = v
  <2>1. IsFiniteSet(0 .. n - 1) /\ Cardinality(0 .. n - 1) = n
    BY <1>1, FS_Interval
  <2> HIDE DEF r
  <2>2. r \in Surjection(S, 0 .. n - 1)
    BY <1>4, <2>1, FS_Injection
  <2>3. QED
    BY <2>2 DEF Surjection
<1>6. ASSUME NEW k \in 1 .. n
      PROVE  Nth(S, k) \in S /\ r[Nth(S, k)] = k - 1
  <2>1. k - 1 \in 0 .. n - 1
    BY <1>1
  <2>2. \E x \in S : Cardinality({y \in S : y < x}) = k - 1
    BY <1>5, <2>1
  <2>3. QED
    BY <2>2 DEF Nth
<1>7. \A x \in S : x \in Int /\ r[x] \in 0 .. n - 1
  BY <1>2
<1> HIDE DEF r, n
<1>8. ASSUME NEW k \in 1 .. n, NEW l \in 1 .. n, k < l
      PROVE  Nth(S, k) < Nth(S, l)
  <2> DEFINE x == Nth(S, k)
  <2> DEFINE y == Nth(S, l)
  <2>1. x \in S /\ y \in S /\ r[x] = k - 1 /\ r[y] = l - 1
    BY <1>6
  <2> HIDE DEF x, y
  <2>2. x # y /\ ~(y < x)
    BY <1>1, <1>3, <1>8, <2>1
  <2>3. x < y
    BY <1>7, <2>1, <2>2
  <2>4. QED
    BY <2>3 DEF x, y
<1>9. ASSUME NEW x \in S PROVE \E k \in 1 .. n : Nth(S, k) = x
  <2> DEFINE k == r[x] + 1
  <2>1. k \in 1 .. n /\ k - 1 = r[x]
    BY <1>1, <1>7
  <2> HIDE DEF k
  <2>2. Nth(S, k) \in S /\ r[Nth(S, k)] = r[x]
    BY <1>6, <2>1
  <2>3. Nth(S, k) = x
    BY <1>4, <2>2 DEF Injection, IsInjective
  <2>4. QED
    BY <2>1, <2>3
<1>10. QED
  BY <1>1, <1>6, <1>8, <1>9 DEF n

-----------------------------------------------------------------------------
CONSTANTS
  \* TaskSelection
  Kinds, Requests, Sizes, Workers, PoolThresholds, MaxTasks
VARIABLES
  catalogue, args, quotas, groups, remaining, batch, selected, wave, waves, phase

K == INSTANCE TaskSelection WITH
  Thresholds <- PoolThresholds

(* What holds of the empty set and, with a set, of the set with one more   *)
(* member holds of a finite set: the largest one it holds of is that set.  *)
LEMMA FiniteSetGrows ==
  ASSUME NEW C, IsFiniteSet(C), NEW Q \in SUBSET SUBSET C, {} \in Q,
         \A S \in Q : \A x \in C : x \notin S => S \cup {x} \in Q
  PROVE  C \in Q
<1> DEFINE Numbers == {Cardinality(S) : S \in Q}
<1>1. \A S \in Q : IsFiniteSet(S) /\ Cardinality(S) \in Nat /\ Cardinality(S) <= Cardinality(C)
  BY FS_Subset, FS_CardinalityType
<1>2. Numbers \in SUBSET Nat /\ Numbers # {} /\ \A k \in Numbers : k <= Cardinality(C)
  BY <1>1
<1>3. IsFiniteSet(Numbers)
  <2>1. Cardinality(C) \in Nat
    BY FS_CardinalityType
  <2> HIDE DEF Numbers
  <2>2. QED
    BY <1>2, <2>1, FS_BoundedSetOfNaturals
<1>4. PICK m \in Numbers : \A k \in Numbers : k <= m
  <2> HIDE DEF Numbers
  <2>1. QED
    BY <1>2, <1>3, NaturalsHaveMaximum
<1>5. PICK S \in Q : Cardinality(S) = m
  OBVIOUS
<1>6. ASSUME NEW x \in C, x \notin S PROVE FALSE
  <2>1. S \cup {x} \in Q
    BY <1>6
  <2>2. Cardinality(S \cup {x}) = Cardinality(S) + 1
    BY <1>1, <1>6, FS_AddElement
  <2>3. Cardinality(S \cup {x}) <= m /\ m \in Nat
    BY <1>2, <1>4, <2>1
  <2>4. QED
    BY <1>5, <2>2, <2>3
<1>7. S = C
  BY <1>6
<1>8. QED
  BY <1>7

(* In a strict order of a finite set, no two members have the same number  *)
(* before them, and each number has its member.                            *)
Before(S, R, x) == {y \in S : <<y, x>> \in R}
OrderOf(S, R) ==
  /\ \A x \in S : <<x, x>> \notin R
  /\ \A x, y, z \in S : <<x, y>> \in R /\ <<y, z>> \in R => <<x, z>> \in R
  /\ \A x, y \in S : x # y => <<x, y>> \in R \/ <<y, x>> \in R

LEMMA MembersAreRanked ==
  ASSUME NEW S, IsFiniteSet(S), NEW R, OrderOf(S, R)
  PROVE  /\ Cardinality(S) \in Nat
         /\ \A x \in S : Cardinality(Before(S, R, x)) \in 0 .. Cardinality(S) - 1
         /\ \A x, y \in S : Cardinality(Before(S, R, x)) = Cardinality(Before(S, R, y)) => x = y
         /\ \A v \in 0 .. Cardinality(S) - 1 : \E x \in S : Cardinality(Before(S, R, x)) = v
<1> DEFINE n == Cardinality(S)
           r == [x \in S |-> Cardinality(Before(S, R, x))]
<1>1. n \in Nat
  BY FS_CardinalityType
<1>2. ASSUME NEW x \in S
      PROVE  IsFiniteSet(Before(S, R, x)) /\ r[x] \in 0 .. n - 1
  <2>1. IsFiniteSet(S \ {x}) /\ Cardinality(S \ {x}) = n - 1
    BY FS_RemoveElement
  <2>2. Before(S, R, x) \in SUBSET (S \ {x})
    BY DEF Before, OrderOf
  <2>3. IsFiniteSet(Before(S, R, x)) /\ Cardinality(Before(S, R, x)) <= n - 1
    BY <2>1, <2>2, FS_Subset
  <2>4. Cardinality(Before(S, R, x)) \in Nat
    BY <2>3, FS_CardinalityType
  <2>5. QED
    BY <1>1, <2>3, <2>4
<1>3. ASSUME NEW x \in S, NEW y \in S, <<x, y>> \in R
      PROVE  r[x] < r[y]
  <2>1. IsFiniteSet(Before(S, R, x)) /\ IsFiniteSet(Before(S, R, y)) /\ x \notin Before(S, R, x)
    BY <1>2 DEF Before, OrderOf
  <2>2. Cardinality(Before(S, R, x) \cup {x}) = Cardinality(Before(S, R, x)) + 1
    BY <2>1, FS_AddElement
  <2>3. Before(S, R, x) \cup {x} \in SUBSET Before(S, R, y)
    BY <1>3 DEF Before, OrderOf
  <2>4. Cardinality(Before(S, R, x) \cup {x}) <= Cardinality(Before(S, R, y))
    BY <2>1, <2>3, FS_Subset
  <2>5. r[x] \in Int /\ r[y] \in Int
    BY <1>2
  <2>6. QED
    BY <2>2, <2>4, <2>5
<1>4. ASSUME NEW x \in S, NEW y \in S, r[x] = r[y] PROVE x = y
  <2>1. r[x] \in Int /\ r[y] \in Int
    BY <1>2
  <2>2. ~(<<x, y>> \in R) /\ ~(<<y, x>> \in R)
    <3> HIDE DEF r
    <3>1. QED
      BY <1>3, <1>4, <2>1
  <2>3. QED
    BY <2>2 DEF OrderOf
<1>5. r \in [S -> 0 .. n - 1]
  BY <1>2
<1>6. r \in Injection(S, 0 .. n - 1)
  <2> HIDE DEF r, n
  <2>1. QED
    BY <1>4, <1>5 DEF Injection, IsInjective
<1>7. \A v \in 0 .. n - 1 : \E x \in S : r[x] = v
  <2>1. IsFiniteSet(0 .. n - 1) /\ Cardinality(0 .. n - 1) = n
    BY <1>1, FS_Interval
  <2> HIDE DEF r
  <2>2. r \in Surjection(S, 0 .. n - 1)
    BY <1>6, <2>1, FS_Injection
  <2>3. QED
    BY <2>2 DEF Surjection
<1>8. QED
  BY <1>1, <1>2, <1>4, <1>7

(* As many members as wanted have fewer than that number before them.      *)
LEMMA FirstAreAsManyAsWanted ==
  ASSUME NEW S, IsFiniteSet(S), NEW R, OrderOf(S, R), NEW m \in 0 .. Cardinality(S)
  PROVE  Cardinality({x \in S : Cardinality(Before(S, R, x)) < m}) = m
<1> DEFINE T == {x \in S : Cardinality(Before(S, R, x)) < m}
           r == [x \in T |-> Cardinality(Before(S, R, x))]
<1>1. m \in Nat /\ m <= Cardinality(S) /\ Cardinality(S) \in Nat
  BY FS_CardinalityType
<1>2. \A x \in T : r[x] \in 0 .. m - 1
  <2>1. \A x \in T : Cardinality(Before(S, R, x)) \in 0 .. Cardinality(S) - 1 /\ Cardinality(Before(S, R, x)) < m
    BY MembersAreRanked
  <2>2. QED
    BY <1>1, <2>1
<1>3. \A x, y \in T : r[x] = r[y] => x = y
  BY MembersAreRanked
<1>4. \A v \in 0 .. m - 1 : \E x \in T : r[x] = v
  <2> SUFFICES ASSUME NEW v \in 0 .. m - 1 PROVE \E x \in T : r[x] = v
    OBVIOUS
  <2>1. v \in 0 .. Cardinality(S) - 1 /\ v < m
    BY <1>1
  <2>2. PICK x \in S : Cardinality(Before(S, R, x)) = v
    BY <2>1, MembersAreRanked
  <2>3. x \in T
    BY <2>1, <2>2
  <2>4. QED
    BY <2>2, <2>3
<1>5. IsFiniteSet(0 .. m - 1) /\ Cardinality(0 .. m - 1) = m
  <2>1. \A k \in Nat : IsFiniteSet(0 .. k - 1) /\ Cardinality(0 .. k - 1) = k
    BY FS_Interval
  <2>2. QED
    BY <1>1, <2>1
<1>6. r \in [T -> 0 .. m - 1]
  BY <1>2
<1> HIDE DEF r, T
<1>7. r \in Injection(T, 0 .. m - 1) /\ r \in Surjection(T, 0 .. m - 1)
  BY <1>3, <1>4, <1>6 DEF Injection, Surjection, IsInjective
<1>8. Cardinality(T) = m
  BY <1>5, <1>7, FS_Injection
<1>9. QED
  BY <1>8 DEF T

(* A sorted sequence holds the members of the sequence, each as often.     *)
LEMMA SortedIsPermutation ==
  ASSUME NEW s \in Seq(Int)
  PROVE  \E p \in [DOMAIN s -> DOMAIN s] :
           /\ \A k, l \in DOMAIN s : p[k] = p[l] => k = l
           /\ Sorted(s) = [k \in DOMAIN s |-> s[p[k]]]
<1> DEFINE Known == DOMAIN s
           R == {q \in Known \X Known : s[q[1]] < s[q[2]] \/ (s[q[1]] = s[q[2]] /\ q[1] < q[2])}
<1>1. Known = 1 .. Len(s) /\ Len(s) \in Nat /\ \A i \in Known : s[i] \in Int /\ i \in Int
  OBVIOUS
<1>2. IsFiniteSet(Known) /\ Cardinality(Known) = Len(s)
  <2>1. \A k \in Nat : IsFiniteSet(1 .. k) /\ Cardinality(1 .. k) = k
    BY FS_Interval
  <2>2. QED
    BY <1>1, <2>1
<1>3. \A i, j \in Known : <<i, j>> \in R <=> s[i] < s[j] \/ (s[i] = s[j] /\ i < j)
  OBVIOUS
<1>4. OrderOf(Known, R)
  <2> HIDE DEF R, Known
  <2>1. \A x \in Known : <<x, x>> \notin R
    BY <1>1, <1>3
  <2>2. ASSUME NEW x \in Known, NEW y \in Known, NEW z \in Known, <<x, y>> \in R, <<y, z>> \in R
        PROVE  <<x, z>> \in R
    <3>1. s[x] < s[y] \/ (s[x] = s[y] /\ x < y)
      BY <1>3, <2>2
    <3>2. s[y] < s[z] \/ (s[y] = s[z] /\ y < z)
      BY <1>3, <2>2
    <3>3. s[x] < s[z] \/ (s[x] = s[z] /\ x < z)
      BY <1>1, <3>1, <3>2
    <3>4. QED
      BY <1>3, <3>3
  <2>3. \A x, y \in Known : x # y => <<x, y>> \in R \/ <<y, x>> \in R
    BY <1>1, <1>3
  <2>4. QED
    BY <2>1, <2>2, <2>3 DEF OrderOf
<1> DEFINE at(k) == CHOOSE i \in Known : Cardinality(Before(Known, R, i)) = k - 1
           p == [k \in Known |-> at(k)]
<1>5. \A i \in Known : Before(Known, R, i) = {j \in DOMAIN s : s[j] < s[i] \/ (s[j] = s[i] /\ j < i)}
  <2> HIDE DEF R
  <2>1. QED
    BY <1>3 DEF Before
<1> HIDE DEF R
<1>6. Sorted(s) = [k \in Known |-> s[at(k)]]
  <2> DEFINE From(i) == {j \in DOMAIN s : s[j] < s[i] \/ (s[j] = s[i] /\ j < i)}
             nth(k) == CHOOSE i \in DOMAIN s : Cardinality(From(i)) = k - 1
  <2>1. Sorted(s) = [k \in DOMAIN s |-> s[nth(k)]]
    BY DEF Sorted
  <2>2. \A i \in Known : Cardinality(Before(Known, R, i)) = Cardinality(From(i))
    BY <1>5
  <2> HIDE DEF From
  <2>3. \A k : at(k) = nth(k)
    BY <2>2
  <2> HIDE DEF at, nth
  <2>4. QED
    BY <2>1, <2>3
<1>7. \A k \in Known : at(k) \in Known /\ Cardinality(Before(Known, R, at(k))) = k - 1
  <2> SUFFICES ASSUME NEW k \in Known PROVE at(k) \in Known /\ Cardinality(Before(Known, R, at(k))) = k - 1
    OBVIOUS
  <2>1. k - 1 \in 0 .. Cardinality(Known) - 1
    BY <1>1, <1>2
  <2> HIDE DEF Known
  <2>2. \E i \in Known : Cardinality(Before(Known, R, i)) = k - 1
    BY <1>2, <1>4, <2>1, MembersAreRanked
  <2>3. QED
    BY <2>2
<1> HIDE DEF at
<1>8. \A k, l \in Known : p[k] = p[l] => k = l
  BY <1>1, <1>7
<1>9. p \in [Known -> Known] /\ Sorted(s) = [k \in Known |-> s[p[k]]]
  BY <1>6, <1>7
<1>10. QED
  BY <1>8, <1>9

(* A sum grows by the value of the member that is added.                   *)
UnitsIn(f, S) == UNION {{c} \X (1 .. f[c]) : c \in S}
SumIn(f, S) == Cardinality(UnitsIn(f, S))

LEMMA UnitsAreAdded ==
  ASSUME NEW f, NEW S, NEW x, x \notin S, f[x] \in Nat, IsFiniteSet(UnitsIn(f, S))
  PROVE  /\ IsFiniteSet(UnitsIn(f, S \cup {x}))
         /\ SumIn(f, S \cup {x}) = SumIn(f, S) + f[x]
<1> DEFINE U == {x} \X (1 .. f[x])
           g == [k \in 1 .. f[x] |-> <<x, k>>]
<1>1. IsFiniteSet(1 .. f[x]) /\ Cardinality(1 .. f[x]) = f[x]
  <2>1. \A k \in Nat : IsFiniteSet(1 .. k) /\ Cardinality(1 .. k) = k
    BY FS_Interval
  <2>2. QED
    BY <2>1
<1>2. g \in Bijection(1 .. f[x], U)
  BY DEF Bijection, Injection, Surjection, IsInjective
<1>3. IsFiniteSet(U) /\ Cardinality(U) = f[x]
  <2> HIDE DEF g, U
  <2>1. ExistsBijection(1 .. f[x], U)
    BY <1>2 DEF ExistsBijection
  <2>2. QED
    BY <1>1, <2>1, FS_Bijection
<1>4. UnitsIn(f, S \cup {x}) = UnitsIn(f, S) \cup U
  BY DEF UnitsIn
<1>5. UnitsIn(f, S) \cap U = {}
  BY DEF UnitsIn
<1> HIDE DEF U
<1>6. /\ IsFiniteSet(UnitsIn(f, S) \cup U)
      /\ Cardinality(UnitsIn(f, S) \cup U) = Cardinality(UnitsIn(f, S)) + Cardinality(U) - Cardinality({})
  BY <1>3, <1>5, FS_Union
<1>7. Cardinality(UnitsIn(f, S)) \in Nat /\ Cardinality({}) = 0
  BY FS_CardinalityType, FS_EmptySet
<1>8. Cardinality(UnitsIn(f, S) \cup U) = Cardinality(UnitsIn(f, S)) + f[x]
  BY <1>3, <1>6, <1>7
<1>9. QED
  BY <1>4, <1>6, <1>8 DEF SumIn

LEMMA SumsAdd ==
  ASSUME NEW C, IsFiniteSet(C), NEW f \in [C -> Nat]
  PROVE  /\ SumIn(f, {}) = 0 /\ SumIn(f, C) = Total(f)
         /\ \A S \in SUBSET C : SumIn(f, S) \in Nat
         /\ \A S \in SUBSET C : \A x \in C : x \notin S => SumIn(f, S \cup {x}) = SumIn(f, S) + f[x]
<1>1. ASSUME NEW S \in SUBSET C PROVE IsFiniteSet(UnitsIn(f, S))
  <2> DEFINE Q == {T \in SUBSET S : IsFiniteSet(UnitsIn(f, T))}
  <2>1. {} \in Q
    <3>1. UnitsIn(f, {}) = {}
      BY DEF UnitsIn
    <3>2. QED
      BY <3>1, FS_EmptySet
  <2>2. \A T \in Q : \A x \in S : x \notin T => T \cup {x} \in Q
    BY UnitsAreAdded
  <2>3. IsFiniteSet(S)
    BY FS_Subset
  <2>4. Q \in SUBSET SUBSET S
    OBVIOUS
  <2> HIDE DEF Q
  <2>5. S \in Q
    BY <2>1, <2>2, <2>3, <2>4, FiniteSetGrows
  <2>6. QED
    BY <2>5 DEF Q
<1>2. SumIn(f, {}) = 0
  <2>1. UnitsIn(f, {}) = {}
    BY DEF UnitsIn
  <2>2. QED
    BY <2>1, FS_EmptySet DEF SumIn
<1>3. \A S \in SUBSET C : SumIn(f, S) \in Nat
  BY <1>1, FS_CardinalityType DEF SumIn
<1>4. \A S \in SUBSET C : \A x \in C : x \notin S => SumIn(f, S \cup {x}) = SumIn(f, S) + f[x]
  BY <1>1, UnitsAreAdded
<1>5. SumIn(f, C) = Total(f)
  BY DEF SumIn, UnitsIn, Total, Units
<1>6. QED
  BY <1>2, <1>3, <1>4, <1>5

(* Sums of multiples and of functions that differ by one at some members.  *)
LEMMA SumIsLinear ==
  ASSUME NEW C, IsFiniteSet(C), NEW f \in [C -> Nat], NEW g \in [C -> Nat], NEW h \in [C -> Nat],
         NEW a \in Nat, \A c \in C : h[c] = a * f[c] + g[c]
  PROVE  Total(h) = a * Total(f) + Total(g)
<1> DEFINE Q == {S \in SUBSET C : SumIn(h, S) = a * SumIn(f, S) + SumIn(g, S)}
<1>1. {} \in Q
  <2>1. SumIn(h, {}) = 0 /\ SumIn(f, {}) = 0 /\ SumIn(g, {}) = 0
    BY SumsAdd
  <2>2. QED
    BY <2>1
<1>2. ASSUME NEW S \in Q, NEW x \in C, x \notin S PROVE S \cup {x} \in Q
  <2>1. /\ SumIn(h, S \cup {x}) = SumIn(h, S) + h[x] /\ SumIn(h, S) \in Nat
        /\ SumIn(f, S \cup {x}) = SumIn(f, S) + f[x] /\ SumIn(f, S) \in Nat
        /\ SumIn(g, S \cup {x}) = SumIn(g, S) + g[x] /\ SumIn(g, S) \in Nat
    BY <1>2, SumsAdd
  <2>2. SumIn(h, S) = a * SumIn(f, S) + SumIn(g, S) /\ h[x] = a * f[x] + g[x]
    BY <1>2
  <2>3. \A i, j \in Nat : a * (i + j) = a * i + a * j /\ a * i \in Nat
    OBVIOUS
  <2>4. SumIn(h, S \cup {x}) = a * SumIn(f, S \cup {x}) + SumIn(g, S \cup {x})
    BY <2>1, <2>2, <2>3
  <2>5. QED
    BY <2>4
<1>3. Q \in SUBSET SUBSET C
  OBVIOUS
<1> HIDE DEF Q
<1>4. C \in Q
  BY <1>1, <1>2, <1>3, FiniteSetGrows
<1>5. QED
  BY <1>4, SumsAdd DEF Q

LEMMA SumCountsOnes ==
  ASSUME NEW C, IsFiniteSet(C), NEW f \in [C -> Nat], NEW h \in [C -> Nat], NEW P \in SUBSET C,
         \A c \in C : h[c] = f[c] + (IF c \in P THEN 1 ELSE 0)
  PROVE  Total(h) = Total(f) + Cardinality(P)
<1> DEFINE Q == {S \in SUBSET C : SumIn(h, S) = SumIn(f, S) + Cardinality(P \cap S)}
<1>1. {} \in Q
  <2>1. SumIn(h, {}) = 0 /\ SumIn(f, {}) = 0 /\ P \cap {} = {} /\ Cardinality({}) = 0
    BY SumsAdd, FS_EmptySet
  <2>2. QED
    BY <2>1
<1>2. ASSUME NEW S \in Q, NEW x \in C, x \notin S PROVE S \cup {x} \in Q
  <2>1. /\ SumIn(h, S \cup {x}) = SumIn(h, S) + h[x] /\ SumIn(h, S) \in Nat
        /\ SumIn(f, S \cup {x}) = SumIn(f, S) + f[x] /\ SumIn(f, S) \in Nat
    BY <1>2, SumsAdd
  <2>2. SumIn(h, S) = SumIn(f, S) + Cardinality(P \cap S) /\ h[x] = f[x] + (IF x \in P THEN 1 ELSE 0)
    BY <1>2
  <2>3. IsFiniteSet(P \cap S)
    BY FS_Subset
  <2>4. Cardinality(P \cap S) \in Nat
    BY <2>3, FS_CardinalityType
  <2>5. Cardinality(P \cap (S \cup {x})) = Cardinality(P \cap S) + (IF x \in P THEN 1 ELSE 0)
    <3>1. CASE x \in P
      <4>1. P \cap (S \cup {x}) = (P \cap S) \cup {x} /\ x \notin P \cap S
        BY <1>2, <3>1
      <4>2. QED
        BY <2>3, <3>1, <4>1, FS_AddElement
    <3>2. CASE x \notin P
      <4>1. P \cap (S \cup {x}) = P \cap S
        BY <3>2
      <4>2. QED
        BY <2>4, <3>2, <4>1
    <3>3. QED
      BY <3>1, <3>2
  <2>6. SumIn(h, S \cup {x}) = SumIn(f, S \cup {x}) + Cardinality(P \cap (S \cup {x}))
    BY <2>1, <2>2, <2>4, <2>5
  <2>7. QED
    BY <2>6
<1>3. Q \in SUBSET SUBSET C
  OBVIOUS
<1> HIDE DEF Q
<1>4. C \in Q
  BY <1>1, <1>2, <1>3, FiniteSetGrows
<1>5. P \cap C = P
  OBVIOUS
<1>6. QED
  BY <1>4, <1>5, SumsAdd DEF Q

(* A sum of values up to b, zero outside P.                                *)
LEMMA SumIsBounded ==
  ASSUME NEW C, IsFiniteSet(C), NEW g \in [C -> Nat], NEW P \in SUBSET C, NEW b \in Nat,
         \A c \in C : g[c] <= b /\ (c \notin P => g[c] = 0)
  PROVE  Total(g) <= b * Cardinality(P)
<1> DEFINE one == [c \in C |-> IF c \in P THEN 1 ELSE 0]
           zero == [c \in C |-> 0]
           rest == [c \in C |-> b * one[c] - g[c]]
           most == [c \in C |-> b * one[c]]
<1>1. one \in [C -> Nat] /\ zero \in [C -> Nat] /\ most \in [C -> Nat]
  <2>1. b * 1 = b /\ b * 0 = 0
    OBVIOUS
  <2>2. \A c \in C : b * one[c] \in Nat
    BY <2>1
  <2>3. QED
    BY <2>2
<1>2. \A c \in C : rest[c] \in Nat /\ most[c] = 1 * g[c] + rest[c] /\ most[c] = b * one[c] + zero[c]
  <2>1. b * 1 = b /\ b * 0 = 0
    OBVIOUS
  <2>2. QED
    BY <2>1
<1>3. rest \in [C -> Nat]
  BY <1>2
<1>4. Total(zero) = 0
  <2>1. Units(zero) = {}
    BY DEF Units
  <2>2. QED
    BY <2>1, FS_EmptySet DEF Total
<1>5. Total(one) = Total(zero) + Cardinality(P)
  BY <1>1, SumCountsOnes
<1> HIDE DEF rest, most, one, zero
<1>6. Total(most) = 1 * Total(g) + Total(rest)
  <2>1. \A a \in Nat : (\A c \in C : most[c] = a * g[c] + rest[c]) => Total(most) = a * Total(g) + Total(rest)
    <3> SUFFICES ASSUME NEW a \in Nat, \A c \in C : most[c] = a * g[c] + rest[c]
                 PROVE  Total(most) = a * Total(g) + Total(rest)
      OBVIOUS
    <3>1. g \in [C -> Nat] /\ rest \in [C -> Nat] /\ most \in [C -> Nat]
      BY <1>1, <1>3
    <3>2. \A f, h \in [C -> Nat] :
             (\A c \in C : h[c] = a * g[c] + f[c]) => Total(h) = a * Total(g) + Total(f)
      BY SumIsLinear
    <3>3. QED
      BY <3>1, <3>2
  <2>2. \A c \in C : most[c] = 1 * g[c] + rest[c]
    BY <1>2
  <2>3. QED
    BY <2>1, <2>2
<1>7. Total(most) = b * Total(one) + Total(zero)
  BY <1>1, <1>2, SumIsLinear
<1>8. Total(g) \in Nat /\ Total(rest) \in Nat /\ Cardinality(P) \in Nat
  <2>1. IsFiniteSet(P)
    BY FS_Subset
  <2>2. \A f \in [C -> Nat] : Total(f) \in Nat
    BY SumsAdd
  <2>3. QED
    BY <1>3, <2>1, <2>2, FS_CardinalityType
<1>9. b * Cardinality(P) \in Nat
  BY <1>8
<1>10. QED
  BY <1>4, <1>5, <1>6, <1>7, <1>8, <1>9

(* The parts of a set have together as many members as the set.            *)
LEMMA PartsAddUp ==
  ASSUME NEW C, IsFiniteSet(C), NEW T, IsFiniteSet(T), NEW cat \in [T -> C],
         NEW g, g = [c \in C |-> Cardinality({t \in T : cat[t] = c})]
  PROVE  g \in [C -> Nat] /\ Total(g) = Cardinality(T)
<1> DEFINE In(S) == {t \in T : cat[t] \in S}
           Q == {S \in SUBSET C : SumIn(g, S) = Cardinality(In(S))}
<1>1. \A c \in C : IsFiniteSet({t \in T : cat[t] = c}) /\ Cardinality({t \in T : cat[t] = c}) \in Nat
  BY FS_Subset, FS_CardinalityType
<1>2. g \in [C -> Nat]
  BY <1>1
<1>3. {} \in Q
  <2>1. In({}) = {}
    OBVIOUS
  <2>2. SumIn(g, {}) = 0
    BY <1>2, SumsAdd
  <2>3. QED
    BY <2>1, <2>2, FS_EmptySet
<1>4. ASSUME NEW S \in Q, NEW x \in C, x \notin S PROVE S \cup {x} \in Q
  <2>a. /\ \A B \in SUBSET C : SumIn(g, B) \in Nat
        /\ \A B \in SUBSET C : \A y \in C : y \notin B => SumIn(g, B \cup {y}) = SumIn(g, B) + g[y]
    BY <1>2, SumsAdd, Zenon
  <2>1. SumIn(g, S \cup {x}) = SumIn(g, S) + g[x] /\ SumIn(g, S) \in Nat
    <3>1. S \in SUBSET C
      BY <1>4
    <3> HIDE DEF Q
    <3>2. QED
      BY <1>4, <2>a, <3>1
  <2> DEFINE U == {t \in T : cat[t] = x}
  <2>2. In(S \cup {x}) = In(S) \cup U /\ In(S) \cap U = {}
    BY <1>4
  <2>3. IsFiniteSet(In(S)) /\ IsFiniteSet(U)
    BY FS_Subset
  <2>4. SumIn(g, S) = Cardinality(In(S)) /\ g[x] = Cardinality(U)
    BY <1>4
  <2> DEFINE Held == In(S)
             W == In(S \cup {x})
  <2>b. W = Held \cup U /\ Held \cap U = {} /\ IsFiniteSet(Held)
    BY <2>2, <2>3
  <2> HIDE DEF In, U, Held, W
  <2>5. Cardinality(Held \cup U) = Cardinality(Held) + Cardinality(U) - Cardinality({})
    BY <2>b, <2>3, FS_Union
  <2>6. Cardinality(Held) \in Nat /\ Cardinality(U) \in Nat /\ Cardinality({}) = 0
    BY <2>b, <2>3, FS_CardinalityType, FS_EmptySet
  <2>7. SumIn(g, S \cup {x}) = Cardinality(In(S \cup {x}))
    <3>1. Cardinality(W) = Cardinality(Held) + Cardinality(U)
      BY <2>b, <2>5, <2>6
    <3> USE DEF Held, W
    <3>2. QED
      BY <2>1, <2>4, <3>1
  <2>8. QED
    BY <2>7
<1>5. In(C) = T
  OBVIOUS
<1>6. Q \in SUBSET SUBSET C
  OBVIOUS
<1> HIDE DEF Q
<1>7. C \in Q
  BY <1>3, <1>4, <1>6, FiniteSetGrows
<1>8. SumIn(g, C) = Cardinality(T)
  BY <1>5, <1>7 DEF Q
<1>9. QED
  BY <1>2, <1>8, SumsAdd

(* Nothing is assumed of thresholds and sizes but that they are numbers; a *)
(* category is a place in the alphabet, features are finite sets.          *)
ASSUME SelectionAssumption ==
  /\ MaxTasks \in Nat /\ Requests \subseteq Seq(Nat)
  /\ Sizes \subseteq Int /\ Workers \subseteq Int /\ PoolThresholds \subseteq Int
  /\ \A k \in Kinds : /\ k.category \in Nat
                      /\ IsFiniteSet(k.goal) /\ IsFiniteSet(k.tags)
                      /\ IsFiniteSet(k.actions) /\ IsFiniteSet(k.targets)

(* ------------------------------------------------------------------------*)
(* The key that sorts first, and the score of two tasks.                   *)
(* ------------------------------------------------------------------------*)

(* One of keys of three or of four numbers sorts first.                    *)
LEMMA LeastIsFirst ==
  ASSUME NEW n \in Nat \ {0}, NEW m \in {3, 4}, NEW keys \in Seq(Seq(Nat)), Len(keys) = n,
         \A i \in 1 .. n : Len(keys[i]) = m
  PROVE  K!Least(keys) \in 1 .. n /\ \A j \in 1 .. n : ~K!Less(keys[j], keys[K!Least(keys)])
<1> DEFINE at(i, k) == keys[i][k]
<1>1. DOMAIN keys = 1 .. n /\ \A i \in 1 .. n : keys[i] \in Seq(Nat) /\ DOMAIN keys[i] = 1 .. m
  OBVIOUS
<1>2. \A i \in 1 .. n : \A k \in 1 .. m : at(i, k) \in Nat
  BY <1>1
<1>3. ASSUME NEW S \in SUBSET (1 .. n), S # {}, NEW k \in 1 .. m
      PROVE  \E i \in S : \A j \in S : at(i, k) <= at(j, k)
  <2> DEFINE Numbers == {at(i, k) : i \in S}
  <2>1. Numbers \in SUBSET Nat /\ Numbers # {}
    BY <1>2, <1>3
  <2> HIDE DEF Numbers
  <2>2. PICK v \in Numbers : \A w \in Numbers : v <= w
    BY <2>1, NaturalsHaveMinimum
  <2>3. QED
    BY <2>2 DEF Numbers
<1> DEFINE First(S, k) == {i \in S : \A j \in S : at(i, k) <= at(j, k)}
           A0 == 1 .. n
           A1 == First(A0, 1)
           A2 == First(A1, 2)
           A3 == First(A2, 3)
           A4 == IF m = 4 THEN First(A3, 4) ELSE A3
<1>4. A0 # {} /\ A0 \in SUBSET (1 .. n)
  <2>1. 1 \in A0
    OBVIOUS
  <2>2. QED
    BY <2>1
<1>5. \A S \in SUBSET (1 .. n) : \A k \in 1 .. m :
         S # {} => First(S, k) # {} /\ First(S, k) \in SUBSET (1 .. n)
  BY <1>3
<1>6. 1 \in 1 .. m /\ 2 \in 1 .. m /\ 3 \in 1 .. m /\ (m = 4 => 4 \in 1 .. m)
  OBVIOUS
<1> HIDE DEF at, A0
<1>7. A1 # {} /\ A1 \in SUBSET (1 .. n)
  <2> HIDE DEF First
  <2>1. QED
    BY <1>4, <1>5, <1>6
<1> HIDE DEF A1
<1>8. A2 # {} /\ A2 \in SUBSET (1 .. n)
  <2> HIDE DEF First
  <2>1. QED
    BY <1>5, <1>6, <1>7
<1> HIDE DEF A2
<1>9. A3 # {} /\ A3 \in SUBSET (1 .. n)
  <2> HIDE DEF First
  <2>1. QED
    BY <1>5, <1>6, <1>8
<1> HIDE DEF A3
<1>10. A4 # {}
  <2> HIDE DEF First
  <2>1. QED
    BY <1>5, <1>6, <1>9
<1>11. PICK x \in A4 : TRUE
  BY <1>10
<1>12. /\ x \in A3 /\ (m = 4 => \A j \in A3 : at(x, 4) <= at(j, 4))
       /\ x \in A2 /\ \A j \in A2 : at(x, 3) <= at(j, 3) 
       /\ x \in A1 /\ \A j \in A1 : at(x, 2) <= at(j, 2)
       /\ x \in 1 .. n /\ \A j \in 1 .. n : at(x, 1) <= at(j, 1)
  BY <1>11 DEF A3, A2, A1, A0
<1>13. ASSUME NEW j \in 1 .. n, K!Less(keys[j], keys[x]) PROVE FALSE
  <2>1. PICK k \in 1 .. m : at(j, k) < at(x, k) /\ \A l \in 1 .. k - 1 : at(j, l) = at(x, l)
    BY <1>1, <1>13 DEF K!Less, at
  <2>2. \A k1 \in 1 .. m : at(j, k1) \in Nat /\ at(x, k1) \in Nat
    BY <1>2, <1>12
  <2>3. k # 1
    BY <1>6, <1>12, <2>1, <2>2
  <2>4. at(j, 1) = at(x, 1)
    BY <2>1, <2>3
  <2>5. j \in A1
    BY <1>12, <2>4 DEF A1, A0
  <2>6. k # 2
    BY <1>6, <1>12, <2>1, <2>2, <2>5
  <2>7. at(j, 2) = at(x, 2)
    BY <2>1, <2>3, <2>6
  <2>8. j \in A2
    BY <1>12, <2>5, <2>7 DEF A2
  <2>9. k # 3
    BY <1>6, <1>12, <2>1, <2>2, <2>8
  <2>10. k = 4 /\ m = 4
    BY <2>1, <2>3, <2>6, <2>9
  <2>11. at(j, 3) = at(x, 3)
    BY <2>1, <2>10
  <2>12. j \in A3
    BY <1>12, <2>8, <2>11 DEF A3
  <2>13. QED
    BY <1>6, <1>12, <2>1, <2>2, <2>10, <2>12
<1>14. \E i \in DOMAIN keys : \A j \in DOMAIN keys : ~K!Less(keys[j], keys[i])
  BY <1>1, <1>12, <1>13
<1>15. QED
  BY <1>1, <1>14 DEF K!Least

LEMMA JaccardIsCounted ==
  ASSUME NEW a, NEW b, IsFiniteSet(a), IsFiniteSet(b)
  PROVE  K!Jaccard(a, b) \in Nat /\ K!Jaccard(a, b) = K!Jaccard(b, a)
<1>1. \A S : K!Cardinality(S) = Cardinality(S)
  BY DEF K!Cardinality, Cardinality
<1>2. IsFiniteSet(a \cup b) /\ IsFiniteSet(a \cap b)
  BY FS_Union, FS_Intersection
<1>3. Cardinality(a \cup b) \in Nat /\ Cardinality(a \cap b) \in Nat
      /\ (Cardinality(a \cup b) = 0 <=> a \cup b = {})
  BY <1>2, FS_CardinalityType, FS_EmptySet
<1>4. a \cup b = b \cup a /\ a \cap b = b \cap a
  OBVIOUS
<1>5. K!Jaccard(a, b) = K!Jaccard(b, a)
  BY <1>4 DEF K!Jaccard
<1>6. CASE a \cup b = {}
  BY <1>5, <1>6 DEF K!Jaccard
<1>7. CASE a \cup b # {}
  <2>1. (12 * Cardinality(a \cap b)) \div Cardinality(a \cup b) \in Nat
    <3> DEFINE x == 12 * Cardinality(a \cap b)
               y == Cardinality(a \cup b)
    <3>1. x \in Nat /\ y \in Nat \ {0}
      BY <1>3, <1>7
    <3> HIDE DEF x, y
    <3>2. x \div y \in Nat
      BY <3>1, Divided
    <3>3. QED
      BY <3>2 DEF x, y
  <2>2. QED
    BY <1>1, <1>5, <1>7, <2>1 DEF K!Jaccard, K!Unit
<1>8. QED
  BY <1>6, <1>7

Described ==
  /\ \E n \in Nat : catalogue \in [1 .. n -> Kinds]
  /\ args \in [requested : Requests, size : Sizes, stratified : BOOLEAN, workers : Workers,
               diverse : BOOLEAN, threshold : PoolThresholds, without : {0, 1}]
  /\ K!Range(args.requested) \subseteq DOMAIN catalogue

LEMMA ScoreIsMutual ==
  ASSUME Described, NEW t \in DOMAIN catalogue, NEW u \in DOMAIN catalogue
  PROVE  K!Score(t, u) \in Nat /\ K!Score(t, u) = K!Score(u, t)
<1> DEFINE a == catalogue[t]
           b == catalogue[u]
<1>1. a \in Kinds /\ b \in Kinds
  BY DEF Described
<1>2. /\ K!Jaccard(a.goal, b.goal) \in Nat /\ K!Jaccard(a.goal, b.goal) = K!Jaccard(b.goal, a.goal)
      /\ K!Jaccard(a.tags, b.tags) \in Nat /\ K!Jaccard(a.tags, b.tags) = K!Jaccard(b.tags, a.tags)
      /\ K!Jaccard(a.actions, b.actions) \in Nat
      /\ K!Jaccard(a.actions, b.actions) = K!Jaccard(b.actions, a.actions)
      /\ K!Jaccard(a.targets, b.targets) \in Nat
      /\ K!Jaccard(a.targets, b.targets) = K!Jaccard(b.targets, a.targets)
  BY <1>1, SelectionAssumption, JaccardIsCounted
<1>3. \A x, y : K!Same(x, y) \in Nat /\ K!Same(x, y) = K!Same(y, x)
  BY DEF K!Same, K!Unit
<1> HIDE DEF a, b
<1>4. K!Score(t, u) = 15 * K!Same(a.category, b.category) + 5 * K!Same(a.family, b.family)
        + 30 * K!Jaccard(a.goal, b.goal) + 20 * K!Jaccard(a.tags, b.tags)
        + 15 * K!Jaccard(a.actions, b.actions) + 15 * K!Jaccard(a.targets, b.targets)
  BY DEF K!Score, a, b
<1>5. K!Score(u, t) = 15 * K!Same(b.category, a.category) + 5 * K!Same(b.family, a.family)
        + 30 * K!Jaccard(b.goal, a.goal) + 20 * K!Jaccard(b.tags, a.tags)
        + 15 * K!Jaccard(b.actions, a.actions) + 15 * K!Jaccard(b.targets, a.targets)
  BY DEF K!Score, a, b
<1>6. K!Same(a.category, b.category) \in Nat /\ K!Same(a.category, b.category) = K!Same(b.category, a.category)
      /\ K!Same(a.family, b.family) \in Nat /\ K!Same(a.family, b.family) = K!Same(b.family, a.family)
  BY <1>3
<1>7. QED
  BY <1>2, <1>4, <1>5, <1>6

(* A task is as close to some as it is to the closest of them.             *)
LEMMA ClosestIsMost ==
  ASSUME Described, NEW t \in DOMAIN catalogue, NEW s \in Seq(DOMAIN catalogue), s # <<>>
  PROVE  /\ K!Closest(t, s) \in Nat
         /\ \E i \in DOMAIN s : K!Closest(t, s) = K!Score(t, s[i])
         /\ \A i \in DOMAIN s : K!Score(t, s[i]) <= K!Closest(t, s)
<1> DEFINE Numbers == {K!Score(t, s[i]) : i \in DOMAIN s}
<1>1. DOMAIN s = 1 .. Len(s) /\ Len(s) \in Nat /\ 1 \in DOMAIN s /\ \A i \in DOMAIN s : s[i] \in DOMAIN catalogue
  OBVIOUS
<1>2. Numbers \in SUBSET Nat /\ Numbers # {}
  BY <1>1, ScoreIsMutual
<1>3. IsFiniteSet(Numbers)
  <2> DEFINE f == [i \in 1 .. Len(s) |-> K!Score(t, s[i])]
  <2>1. f \in Surjection(1 .. Len(s), Numbers)
    BY <1>1 DEF Surjection
  <2>2. IsFiniteSet(1 .. Len(s))
    BY <1>1, FS_Interval
  <2> HIDE DEF f, Numbers
  <2>3. QED
    BY <2>1, <2>2, FS_Surjection
<1>4. K!Closest(t, s) = CHOOSE x \in Numbers : \A y \in Numbers : x >= y
  BY DEF K!Closest, K!Max
<1> HIDE DEF Numbers
<1>5. \E x \in Numbers : \A y \in Numbers : x >= y
  <2>1. PICK x \in Numbers : \A y \in Numbers : y <= x
    BY <1>2, <1>3, NaturalsHaveMaximum
  <2>2. QED
    BY <1>2, <2>1
<1>6. K!Closest(t, s) \in Numbers /\ \A y \in Numbers : K!Closest(t, s) >= y
  BY <1>4, <1>5
<1>7. \A y \in Numbers : y <= K!Closest(t, s) /\ K!Closest(t, s) \in Nat
  BY <1>2, <1>6
<1>8. QED
  BY <1>6, <1>7 DEF Numbers

(* What is left of a sequence without one of its places.                   *)
LEMMA WithoutPlace ==
  ASSUME NEW Known, NEW s \in Seq(Known), NEW i \in 1 .. Len(s)
  PROVE  /\ K!RemoveAt(s, i) \in Seq(Known) /\ Len(K!RemoveAt(s, i)) = Len(s) - 1
         /\ \A k \in 1 .. Len(s) - 1 : K!RemoveAt(s, i)[k] = s[IF k < i THEN k ELSE k + 1]
<1> DEFINE a == SubSeq(s, 1, i - 1)
           b == SubSeq(s, i + 1, Len(s))
<1>1. a \in Seq(Known) /\ Len(a) = i - 1 /\ \A k \in 1 .. i - 1 : a[k] = s[k]
  OBVIOUS
<1>2. b \in Seq(Known) /\ Len(b) = Len(s) - i /\ \A k \in 1 .. Len(s) - i : b[k] = s[k + i]
  OBVIOUS
<1>3. K!RemoveAt(s, i) = a \o b
  BY DEF K!RemoveAt
<1> HIDE DEF a, b
<1>4. a \o b \in Seq(Known) /\ Len(a \o b) = Len(a) + Len(b)
      /\ \A k \in 1 .. Len(a) + Len(b) : (a \o b)[k] = IF k <= Len(a) THEN a[k] ELSE b[k - Len(a)]
  BY <1>1, <1>2, ConcatProperties
<1>5. QED
  BY <1>1, <1>2, <1>3, <1>4

(* ------------------------------------------------------------------------*)
(* The quotas.                                                             *)
(* ------------------------------------------------------------------------*)
LEMMA SelectionCounts ==
  /\ \A S : K!Cardinality(S) = Cardinality(S)
  /\ \A f : K!Total(f) = Total(f)
  /\ \A S, k : K!Nth(S, k) = Nth(S, k)
<1>1. \A S : K!Cardinality(S) = Cardinality(S)
  BY DEF K!Cardinality, Cardinality
<1>2. \A f : K!Total(f) = Total(f)
  BY <1>1 DEF K!Total, K!Units, Total, Units
<1>3. \A S, k : K!Nth(S, k) = Nth(S, k)
  BY DEF K!Nth, Nth, K!Cardinality, Cardinality
<1>4. QED
  BY <1>1, <1>2, <1>3

LEMMA CandidatesKnown ==
  ASSUME Described
  PROVE  /\ K!Candidates \in Seq(DOMAIN catalogue) /\ DOMAIN catalogue \subseteq Nat
         /\ K!Counted \subseteq DOMAIN catalogue /\ IsFiniteSet(K!Counted)
         /\ Cardinality(K!Counted) \in Nat /\ Cardinality(K!Counted) <= Len(K!Candidates)
<1> DEFINE Known == DOMAIN catalogue
<1>1. PICK n \in Nat : Known = 1 .. n
  BY DEF Described
<1>2. ASSUME args.requested # <<>> PROVE K!Candidates \in Seq(Known)
  <2> DEFINE r == args.requested
  <2>1. r \in Seq(Nat) /\ \A i \in 1 .. Len(r) : r[i] \in Known
    BY SelectionAssumption DEF Described, K!Range
  <2> HIDE DEF r
  <2>2. r \in Seq(Known)
    BY <2>1
  <2>3. QED
    BY <1>2, <2>2 DEF K!Candidates, r
<1>3. ASSUME args.requested = <<>> PROVE K!Candidates \in Seq(Known)
  <2> DEFINE S == {t \in Known : catalogue[t].category # args.without}
  <2>1. IsFiniteSet(Known) /\ Known \subseteq Int
    BY <1>1, FS_Interval
  <2>2. IsFiniteSet(S) /\ S \in SUBSET Int
    BY <2>1, FS_Subset
  <2>3. K!Candidates = [k \in 1 .. Cardinality(S) |-> Nth(S, k)]
    BY <1>3, SelectionCounts DEF K!Candidates, K!Ascending
  <2> HIDE DEF S
  <2>4. Cardinality(S) \in Nat /\ \A k \in 1 .. Cardinality(S) : Nth(S, k) \in S
    BY <2>2, PlacesInOrder
  <2>5. \A k \in 1 .. Cardinality(S) : Nth(S, k) \in Known
    BY <2>4 DEF S
  <2>6. QED
    BY <2>3, <2>4, <2>5
<1>4. K!Candidates \in Seq(Known)
  BY <1>2, <1>3
<1>5. Known \subseteq Nat
  BY <1>1
<1> DEFINE s == K!Candidates
<1>6. K!Counted = {s[i] : i \in 1 .. Len(s)} /\ Len(s) \in Nat
  BY <1>4 DEF K!Counted, K!Range
<1> HIDE DEF s, Known
<1>7. K!Counted \subseteq Known
  <2>1. \A i \in 1 .. Len(s) : s[i] \in Known
    BY <1>4 DEF s
  <2>2. QED
    BY <1>6, <2>1
<1>8. IsFiniteSet(K!Counted) /\ Cardinality(K!Counted) <= Len(s)
  <2> DEFINE f == [i \in 1 .. Len(s) |-> s[i]]
  <2>1. f \in Surjection(1 .. Len(s), K!Counted)
    BY <1>6 DEF Surjection
  <2>2. IsFiniteSet(1 .. Len(s)) /\ Cardinality(1 .. Len(s)) = Len(s)
    <3>1. \A k \in Nat : IsFiniteSet(1 .. k) /\ Cardinality(1 .. k) = k
      BY FS_Interval
    <3>2. QED
      BY <1>6, <3>1
  <2> HIDE DEF f
  <2>3. QED
    BY <2>1, <2>2, FS_Surjection
<1>9. Cardinality(K!Counted) \in Nat
  BY <1>8, FS_CardinalityType
<1>10. QED
  BY <1>4, <1>5, <1>7, <1>8, <1>9 DEF s, Known

SizeFits == args.size \in 1 .. Cardinality(K!Counted)

LEMMA CategoriesAreFinite ==
  ASSUME Described
  PROVE  IsFiniteSet(K!Categories) /\ K!Categories \subseteq Nat
<1> DEFINE f == [t \in K!Counted |-> catalogue[t].category]
<1>1. f \in Surjection(K!Counted, K!Categories)
  BY DEF Surjection, K!Categories
<1>2. \A t \in K!Counted : catalogue[t].category \in Nat
  <2>1. \A t \in K!Counted : t \in DOMAIN catalogue
    BY CandidatesKnown
  <2>2. QED
    BY <2>1, SelectionAssumption DEF Described
<1> HIDE DEF f
<1>3. IsFiniteSet(K!Categories)
  BY <1>1, CandidatesKnown, FS_Surjection
<1>4. QED
  BY <1>2, <1>3 DEF K!Categories

(* A share is a floor and a remainder, and within the tasks there are.     *)
LEMMA SharesAreDivided ==
  ASSUME Described, SizeFits, NEW c \in K!Categories
  PROVE  /\ K!Count(c) \in Nat /\ K!Floor(c) \in Nat
         /\ K!Remainder(c) \in 0 .. Cardinality(K!Counted) - 1
         /\ args.size * K!Count(c) = Cardinality(K!Counted) * K!Floor(c) + K!Remainder(c)
         /\ K!Floor(c) <= K!Count(c)
         /\ K!Remainder(c) > 0 => K!Floor(c) < K!Count(c)
<1> DEFINE n == Cardinality(K!Counted)
           k == K!Count(c)
           f == K!Floor(c)
           r == K!Remainder(c)
           s == args.size
<1>1. n \in Nat \ {0} /\ s \in 1 .. n
  BY CandidatesKnown DEF SizeFits
<1>2. k \in Nat
  <2>1. k = Cardinality({t \in K!Counted : catalogue[t].category = c})
    BY SelectionCounts DEF K!Count
  <2>2. IsFiniteSet({t \in K!Counted : catalogue[t].category = c})
    BY CandidatesKnown, FS_Subset
  <2>3. QED
    BY <2>1, <2>2, FS_CardinalityType
<1>3. f = (s * k) \div n /\ r = (s * k) % n
  BY SelectionCounts DEF K!Floor, K!Remainder
<1> HIDE DEF n, k, f, r, s
<1>4. s * k \in Nat /\ s * k <= n * k
  <2>1. s \in Nat /\ n - s \in Nat
    BY <1>1
  <2>2. \A x, y \in Nat : x * y \in Nat
    OBVIOUS
  <2>3. s * k \in Nat /\ (n - s) * k \in Nat
    BY <1>2, <2>1, <2>2
  <2>4. (n - s) * k = n * k - s * k
    BY <1>1, <1>2, <2>1
  <2>5. n * k \in Nat
    BY <1>1, <1>2, <2>2
  <2>6. QED
    BY <2>3, <2>4, <2>5
<1>5. f \in Nat /\ r \in 0 .. n - 1 /\ s * k = n * f + r
  <2> DEFINE x == s * k
  <2>1. x \in Nat
    BY <1>4
  <2>2. f = x \div n /\ r = x % n
    BY <1>3
  <2> HIDE DEF x
  <2>3. f \in Nat /\ r \in 0 .. n - 1 /\ x = n * f + r
    BY <1>1, <2>1, <2>2, Divided
  <2>4. QED
    BY <2>3 DEF x
<1>6. ASSUME f >= k PROVE f = k /\ r = 0
  <2>1. PICK d \in Nat : f = k + d
    <3>1. f - k \in Nat /\ f = k + (f - k)
      BY <1>2, <1>5, <1>6
    <3>2. QED
      BY <3>1
  <2>2. n * f = n * k + n * d
    BY <1>1, <1>2, <2>1
  <2>3. n * k \in Nat /\ n * d \in Nat /\ n * f \in Nat
    BY <1>1, <1>2, <1>5, <2>1
  <2>4. n * d + r <= 0
    BY <1>4, <1>5, <2>2, <2>3
  <2>5. n * d = 0 /\ r = 0
    BY <1>5, <2>3, <2>4
  <2>6. d = 0
    BY <1>1, <2>1, <2>5
  <2>7. QED
    BY <1>2, <2>1, <2>5, <2>6
<1>7. f <= k /\ (r > 0 => f < k)
  BY <1>2, <1>5, <1>6
<1>8. QED
  BY <1>2, <1>5, <1>7 DEF n, k, f, r, s

(* Fewer places are left than there are categories with a remainder.       *)
LEMMA LeftIsGivenOut ==
  ASSUME Described, SizeFits
  PROVE  /\ K!Left \in 0 .. Cardinality({c \in K!Categories : K!Remainder(c) > 0})
         /\ K!Left = args.size - Total([c \in K!Categories |-> K!Floor(c)])
         /\ Total([c \in K!Categories |-> K!Floor(c)]) \in Nat
<1> DEFINE C == K!Categories
           n == Cardinality(K!Counted)
           s == args.size
           count == [c \in C |-> K!Count(c)]
           floor == [c \in C |-> K!Floor(c)]
           rest == [c \in C |-> K!Remainder(c)]
           scaled == [c \in C |-> s * K!Count(c)]
           zero == [c \in C |-> 0]
           P == {c \in C : K!Remainder(c) > 0}
<1>1. n \in Nat \ {0} /\ s \in 1 .. n /\ s \in Nat
  BY CandidatesKnown DEF SizeFits
<1>2. \A c \in C : /\ K!Count(c) \in Nat /\ K!Floor(c) \in Nat /\ K!Remainder(c) \in 0 .. n - 1
                  /\ s * K!Count(c) = n * K!Floor(c) + K!Remainder(c)
  BY SharesAreDivided
<1>3. IsFiniteSet(C)
  BY CategoriesAreFinite
<1>4. \A c \in C : s * K!Count(c) \in Nat /\ K!Remainder(c) \in Nat
  <2>1. \A x, y \in Nat : x * y \in Nat
    OBVIOUS
  <2> HIDE DEF n, s, C
  <2>2. QED
    BY <1>1, <1>2, <2>1
<1>5. count \in [C -> Nat] /\ floor \in [C -> Nat] /\ rest \in [C -> Nat] /\ scaled \in [C -> Nat]
      /\ zero \in [C -> Nat]
  <2> HIDE DEF n, s, C
  <2>1. QED
    BY <1>2, <1>4
<1>6. Total(count) = n
  <2> DEFINE T == K!Counted
             cat == [t \in T |-> catalogue[t].category]
  <2>1. cat \in [T -> C]
    BY DEF K!Categories
  <2>2. \A c \in C : K!Count(c) = Cardinality({t \in T : cat[t] = c})
    <3>1. \A c : {t \in T : cat[t] = c} = {t \in T : catalogue[t].category = c}
      OBVIOUS
    <3>2. QED
      BY <3>1, SelectionCounts DEF K!Count
  <2>3. IsFiniteSet(T)
    BY CandidatesKnown
  <2> HIDE DEF cat, T, C
  <2>4. count = [c \in C |-> Cardinality({t \in T : cat[t] = c})]
    BY <2>2
  <2> HIDE DEF count
  <2>5. Total(count) = Cardinality(T)
    BY <1>3, <2>1, <2>3, <2>4, PartsAddUp
  <2>6. QED
    BY <2>5 DEF T
<1>7. Total(zero) = 0
  <2>1. Units(zero) = {}
    BY DEF Units
  <2>2. QED
    BY <2>1, FS_EmptySet DEF Total
<1>8. \A c \in C : scaled[c] = s * count[c] + zero[c] /\ scaled[c] = n * floor[c] + rest[c]
  <2> HIDE DEF n, s, C
  <2>1. QED
    BY <1>2, <1>4
<1>9. \A c \in C : rest[c] <= n - 1 /\ (c \notin P => rest[c] = 0)
  <2> HIDE DEF n, s, C
  <2>1. QED
    BY <1>1, <1>2
<1>10. K!Left = s - Total(floor)
  BY SelectionCounts DEF K!Left
<1>11. P \in SUBSET C
  OBVIOUS
<1> HIDE DEF C, n, s, count, floor, rest, scaled, zero, P
<1>12. Total(scaled) = s * Total(count) + Total(zero)
  BY <1>1, <1>3, <1>5, <1>8, SumIsLinear
<1>13. Total(scaled) = n * Total(floor) + Total(rest)
  BY <1>1, <1>3, <1>5, <1>8, SumIsLinear
<1>14. Total(rest) <= (n - 1) * Cardinality(P)
  <2>1. n - 1 \in Nat
    BY <1>1
  <2>2. QED
    BY <1>3, <1>5, <1>9, <1>11, <2>1, SumIsBounded
<1>15. Total(floor) \in Nat /\ Total(rest) \in Nat /\ Cardinality(P) \in Nat
  <2>1. IsFiniteSet(P)
    BY <1>3, <1>11, FS_Subset
  <2>2. \A f \in [C -> Nat] : Total(f) \in Nat
    BY <1>3, SumsAdd
  <2>3. QED
    BY <1>5, <2>1, <2>2, FS_CardinalityType
<1> DEFINE f == Total(floor)
           r == Total(rest)
           p == Cardinality(P)
           left == s - f
<1>16. f \in Nat /\ r \in Nat /\ p \in Nat /\ n * s = n * f + r /\ r <= (n - 1) * p
  <2>1. n * s = s * n
    BY <1>1
  <2>2. QED
    BY <1>1, <1>6, <1>7, <1>12, <1>13, <1>14, <1>15, <2>1
<1> HIDE DEF f, r, p
<1>17. left \in Int /\ n * left = r
  BY <1>1, <1>16
<1> HIDE DEF left
<1>18. left >= 0
  <2> SUFFICES ASSUME left < 0 PROVE FALSE
    BY <1>17
  <2>1. PICK d \in Nat : left = -1 - d
    <3>1. -1 - left \in Nat /\ left = -1 - (-1 - left)
      BY <1>17
    <3>2. QED
      BY <3>1
  <2>2. n * left = -n - n * d /\ n * d \in Nat
    BY <1>1, <2>1
  <2>3. QED
    BY <1>1, <1>16, <1>17, <2>2
<1>19. left <= p
  <2> SUFFICES ASSUME left > p PROVE FALSE
    BY <1>16, <1>17
  <2>1. PICK d \in Nat : left = p + 1 + d
    <3>1. left - p - 1 \in Nat /\ left = p + 1 + (left - p - 1)
      BY <1>16, <1>17
    <3>2. QED
      BY <3>1
  <2>2. n * left = n * p + n + n * d /\ (n - 1) * p = n * p - p
    BY <1>1, <1>16, <2>1
  <2>3. n * p \in Nat /\ n * d \in Nat
    BY <1>1, <1>16, <2>1
  <2>4. QED
    BY <1>1, <1>16, <1>17, <2>2, <2>3
<1>20. K!Left \in 0 .. Cardinality(P) /\ K!Left = s - Total(floor)
  BY <1>10, <1>16, <1>17, <1>18, <1>19 DEF left, f, p
<1>21. QED
  BY <1>15, <1>20 DEF P, C, s, floor

Stand(c) == <<-K!Remainder(c), c>>

LEMMA QuotasAddUp ==
  ASSUME Described, SizeFits
  PROVE  /\ Total([c \in K!Categories |-> K!Quota(c)]) = args.size
         /\ \A c \in K!Categories :
              /\ K!Quota(c) \in Nat /\ K!Quota(c) <= K!Count(c)
              /\ K!Quota(c) * Cardinality(K!Counted) - args.size * K!Count(c)
                   \in 1 - Cardinality(K!Counted) .. Cardinality(K!Counted) - 1
<1> DEFINE C == K!Categories
           n == Cardinality(K!Counted)
           s == args.size
           U == K!Unfilled
           P == {c \in C : K!Remainder(c) > 0}
           R == {q \in C \X C : K!Less(Stand(q[1]), Stand(q[2]))}
           Chosen == {c \in U : Cardinality(Before(U, R, c)) < K!Left}
           floor == [c \in C |-> K!Floor(c)]
           quota == [c \in C |-> K!Quota(c)]
<1>1. n \in Nat \ {0} /\ s \in 1 .. n /\ s \in Nat
  BY CandidatesKnown DEF SizeFits
<1>2. \A c \in C : /\ c \in Nat /\ K!Count(c) \in Nat /\ K!Floor(c) \in Nat
                  /\ K!Remainder(c) \in 0 .. n - 1
                  /\ s * K!Count(c) = n * K!Floor(c) + K!Remainder(c)
                  /\ K!Floor(c) <= K!Count(c) /\ (K!Remainder(c) > 0 => K!Floor(c) < K!Count(c))
  BY SharesAreDivided, CategoriesAreFinite
<1>3. IsFiniteSet(C)
  BY CategoriesAreFinite
<1>4. U \in SUBSET C /\ P \in SUBSET U
  BY <1>2 DEF K!Unfilled
<1>5. \A c, d \in C : <<d, c>> \in R <=>
         \/ -K!Remainder(d) < -K!Remainder(c)
         \/ K!Remainder(d) = K!Remainder(c) /\ d < c
  <2> SUFFICES ASSUME NEW c \in C, NEW d \in C
               PROVE  K!Less(Stand(d), Stand(c)) <=>
                        \/ -K!Remainder(d) < -K!Remainder(c)
                        \/ K!Remainder(d) = K!Remainder(c) /\ d < c
    OBVIOUS
  <2>1. /\ DOMAIN Stand(d) = 1 .. 2 /\ Stand(d)[1] = -K!Remainder(d) /\ Stand(d)[2] = d
        /\ Stand(c)[1] = -K!Remainder(c) /\ Stand(c)[2] = c
    BY DEF Stand
  <2>2. K!Remainder(c) \in Int /\ K!Remainder(d) \in Int
    BY <1>1, <1>2
  <2> HIDE DEF C
  <2>3. QED
    BY <2>1, <2>2 DEF K!Less
<1>6. OrderOf(U, R)
  <2>1. \A c \in U : c \in C /\ c \in Int /\ K!Remainder(c) \in Int
    BY <1>1, <1>2, <1>4
  <2> HIDE DEF C, R, U
  <2>2. \A x \in U : <<x, x>> \notin R
    BY <1>5, <2>1
  <2>3. ASSUME NEW x \in U, NEW y \in U, NEW z \in U, <<x, y>> \in R, <<y, z>> \in R
        PROVE  <<x, z>> \in R
    BY <1>5, <2>1, <2>3
  <2>4. \A x, y \in U : x # y => <<x, y>> \in R \/ <<y, x>> \in R
    BY <1>5, <2>1
  <2>5. QED
    BY <2>2, <2>3, <2>4 DEF OrderOf
<1>7. \A c \in C : K!Quota(c) = IF c \in Chosen THEN K!Floor(c) + 1 ELSE K!Floor(c)
  <2> SUFFICES ASSUME NEW c \in C
               PROVE  K!Quota(c) = IF c \in Chosen THEN K!Floor(c) + 1 ELSE K!Floor(c)
    OBVIOUS
  <2>1. Before(U, R, c) = {d \in U : K!Less(Stand(d), Stand(c))}
    BY <1>4 DEF Before
  <2>2. Cardinality(Before(U, R, c)) = K!Cardinality({d \in U : K!Less(Stand(d), Stand(c))})
    BY <2>1, SelectionCounts
  <2> HIDE DEF R
  <2>3. QED
    BY <2>2 DEF K!Quota, Stand
<1>8. IsFiniteSet(U) /\ IsFiniteSet(P) /\ Cardinality(P) <= Cardinality(U)
      /\ Cardinality(P) \in Nat /\ Cardinality(U) \in Nat
  <2> HIDE DEF U, P, C
  <2>1. IsFiniteSet(U)
    BY <1>3, <1>4, FS_Subset
  <2>2. IsFiniteSet(P) /\ Cardinality(P) <= Cardinality(U)
    BY <1>4, <2>1, FS_Subset
  <2>3. QED
    BY <2>1, <2>2, FS_CardinalityType
<1>9. /\ K!Left \in 0 .. Cardinality(P) /\ K!Left = s - Total(floor) /\ Total(floor) \in Nat
  BY LeftIsGivenOut
<1>10. K!Left \in 0 .. Cardinality(U)
  BY <1>8, <1>9
<1>11. Cardinality(Chosen) = K!Left
  <2> DEFINE left == K!Left
  <2>1. left \in 0 .. Cardinality(U)
    BY <1>10
  <2> HIDE DEF U, R, left
  <2>2. Cardinality({c \in U : Cardinality(Before(U, R, c)) < left}) = left
    BY <1>6, <1>8, <2>1, FirstAreAsManyAsWanted
  <2>3. QED
    BY <2>2 DEF left
<1>12. Chosen \in SUBSET C
  BY <1>4
<1>13. \A c \in C : quota[c] = floor[c] + (IF c \in Chosen THEN 1 ELSE 0)
  <2> HIDE DEF C, Chosen
  <2>1. QED
    BY <1>2, <1>7
<1>14. floor \in [C -> Nat] /\ quota \in [C -> Nat]
  <2> HIDE DEF C, Chosen
  <2>1. QED
    BY <1>2, <1>7
<1>15. Total(quota) = Total(floor) + Cardinality(Chosen)
  <2> HIDE DEF C, Chosen, floor, quota
  <2>1. QED
    BY <1>3, <1>12, <1>13, <1>14, SumCountsOnes
<1>16. Total(quota) = s
  <2> HIDE DEF C, Chosen, floor, quota, s
  <2>1. QED
    BY <1>1, <1>9, <1>11, <1>15
<1>17. ASSUME NEW c \in Chosen PROVE K!Remainder(c) > 0
  <2> SUFFICES ASSUME K!Remainder(c) = 0 PROVE FALSE
    BY <1>1, <1>2, <1>12
  <2>1. c \in U /\ c \in C /\ Cardinality(Before(U, R, c)) < K!Left
    BY <1>4
  <2>2. \A d \in P : d \in U /\ <<d, c>> \in R
    <3>1. \A d \in P : d \in C /\ d \in U /\ K!Remainder(d) \in Int /\ -K!Remainder(d) < -K!Remainder(c)
      BY <1>1, <1>2, <1>4
    <3> HIDE DEF C, R, U, P
    <3>2. QED
      BY <1>5, <2>1, <3>1
  <2>3. P \in SUBSET Before(U, R, c)
    BY <2>2 DEF Before
  <2>4. IsFiniteSet(Before(U, R, c)) 
    <3>1. Before(U, R, c) \in SUBSET U
      BY DEF Before
    <3> HIDE DEF U
    <3>2. QED
      BY <1>8, <3>1, FS_Subset
  <2> HIDE DEF P, U, R
  <2>5. Cardinality(P) <= Cardinality(Before(U, R, c)) /\ Cardinality(Before(U, R, c)) \in Nat
    BY <2>3, <2>4, FS_Subset, FS_CardinalityType
  <2>6. QED
    BY <1>8, <1>9, <2>1, <2>5
<1>18. ASSUME NEW c \in C
       PROVE  /\ K!Quota(c) \in Nat /\ K!Quota(c) <= K!Count(c)
              /\ K!Quota(c) * n - s * K!Count(c) \in 1 - n .. n - 1
  <2> DEFINE f == K!Floor(c)
             r == K!Remainder(c)
             q == K!Quota(c)
             k == K!Count(c)
  <2>1. f \in Nat /\ r \in 0 .. n - 1 /\ k \in Nat /\ s * k = n * f + r /\ f <= k /\ (r > 0 => f < k)
    BY <1>2
  <2>2. q = f \/ (q = f + 1 /\ r > 0)
    <3> HIDE DEF C, Chosen
    <3>1. QED
      BY <1>7, <1>17
  <2> HIDE DEF f, r, q, k, n, s, C
  <2>3. CASE q = f
    <3>1. q * n = n * f /\ n * f \in Int
      BY <1>1, <2>1, <2>3
    <3>2. q * n - s * k = -r
      BY <1>1, <2>1, <3>1
    <3>3. QED
      BY <1>1, <2>1, <2>3, <3>2 DEF q, k
  <2>4. CASE q = f + 1 /\ r > 0
    <3>1. q * n = n * f + n /\ n * f \in Int
      BY <1>1, <2>1, <2>4
    <3>2. q * n - s * k = n - r
      BY <1>1, <2>1, <3>1
    <3>3. QED
      BY <1>1, <2>1, <2>4, <3>2 DEF q, k
  <2>5. QED
    BY <2>2, <2>3, <2>4
<1>19. QED
  BY <1>16, <1>18

(* ------------------------------------------------------------------------*)
(* The invariant.                                                          *)
(* ------------------------------------------------------------------------*)
SelectionTyped ==
  /\ Described
  /\ phase \in {"choose", "quotas", "batch", "plan", "wave", "done", "failed"}
  /\ remaining \in Seq(DOMAIN catalogue) /\ batch \in Seq(DOMAIN catalogue)
  /\ selected \in Seq(DOMAIN catalogue) /\ wave \in Seq(DOMAIN catalogue)
  /\ waves \in Seq(Seq(DOMAIN catalogue))
  /\ groups \in Seq([tasks : Seq(DOMAIN catalogue), size : Int])

(* What is not begun yet is empty, and so is what is done.                 *)
StagesFollow ==
  /\ phase \in {"choose", "quotas"} => groups = <<>> /\ quotas = <<>> /\ selected = <<>>
  /\ phase \in {"choose", "quotas", "plan"} => remaining = <<>>
  /\ phase # "batch" => batch = <<>>
  /\ phase # "wave" => wave = <<>>
  /\ phase \in {"choose", "quotas", "batch", "plan", "wave"} => (phase = "wave" \/ waves = <<>>)
  /\ phase = "quotas" => args.stratified
  /\ phase \in {"quotas", "batch"} => args.size # K!NoSize

Shared == SizeFits /\ args.stratified /\ quotas = [c \in K!Categories |-> K!Quota(c)]
QuotasKnown == quotas = <<>> \/ Shared

Enough(s) ==
  /\ K!Range(s) \subseteq K!Counted
  /\ Len(s) = (IF args.size > Len(K!Candidates) THEN Len(K!Candidates) ELSE args.size)
  /\ K!IsInjective(K!Candidates) => K!IsInjective(s)

(* The groups whose batch is still to be selected: the candidates, or one  *)
(* for each category of which no task is selected yet.                     *)
Pending(c) == \E i \in DOMAIN groups : groups[i] = K!Group(c)
GroupsRemain ==
  phase = "batch" =>
    IF args.stratified
    THEN /\ Shared
         /\ \A i \in DOMAIN groups : \E c \in K!Wanted : groups[i] = K!Group(c)
         /\ \A i, j \in DOMAIN groups : groups[i] = groups[j] => i = j
         /\ \A c \in K!Categories :
              Cardinality(K!InCategory(selected, c)) = IF Pending(c) THEN 0 ELSE K!Quota(c)
         /\ K!Range(selected) \subseteq K!Counted
         /\ K!IsInjective(K!Candidates) => K!IsInjective(selected)
    ELSE /\ quotas = <<>>
         /\ \/ groups = <<[tasks |-> K!Candidates, size |-> args.size]>> /\ selected = <<>>
            \/ groups = <<>> /\ Enough(selected)

(* The batch and what remains are the tasks of the first group.            *)
BatchGrows ==
  phase = "batch" /\ (batch # <<>> \/ remaining # <<>>) =>
    /\ groups # <<>> /\ groups[1].size > 0
    /\ Len(batch) + Len(remaining) = Len(groups[1].tasks) /\ Len(batch) <= groups[1].size
    /\ K!Range(batch) \cup K!Range(remaining) \subseteq K!Range(groups[1].tasks)
    /\ K!IsInjective(groups[1].tasks) =>
         /\ K!IsInjective(batch) /\ K!IsInjective(remaining)
         /\ K!Range(batch) \cap K!Range(remaining) = {}

(* The waves hold every task once, what is closed before what is ahead.    *)
Disjoint(s, r) == K!IsInjective(s) /\ K!IsInjective(r) /\ K!Range(s) \cap K!Range(r) = {}
Apart(s) ==
  /\ Len(s) <= K!WaveSize /\ K!IsInjective(s)
  /\ \A t, u \in K!Range(s) : t # u => K!Score(t, u) <= args.threshold
Refused(t, s) ==
  /\ t \notin K!Range(s)
  /\ Len(s) < K!WaveSize => \E u \in K!Range(s) : K!Score(t, u) > args.threshold

AllKept(a, r, ws) ==
  (UNION {K!Range(ws[w]) : w \in DOMAIN ws}) \cup K!Range(a) \cup K!Range(r) = K!Range(selected)
EachApart(a, ws) == Apart(a) /\ \A w \in DOMAIN ws : Apart(ws[w])
NoneFits(a, r, ws) ==
  \A w \in DOMAIN ws :
    /\ \A t \in K!Range(a) \cup K!Range(r) : Refused(t, ws[w])
    /\ \A v \in w + 1 .. Len(ws) : \A t \in K!Range(ws[v]) : Refused(t, ws[w])
Kept(a, r, ws) == Disjoint(a, r) /\ AllKept(a, r, ws) /\ EachApart(a, ws) /\ NoneFits(a, r, ws)

WavesGrow ==
  /\ phase = "wave" => K!WaveSize > 1 /\ args.diverse
  /\ phase \in {"wave", "done"} /\ K!WaveSize > 1 /\ args.diverse =>
       (phase = "done" => remaining = <<>>) /\ Kept(wave, remaining, waves)

SelectionInv ==
  /\ SelectionTyped /\ StagesFollow /\ QuotasKnown /\ GroupsRemain /\ BatchGrows
  /\ K!BatchIsAsAsked /\ WavesGrow

LEMMA InitSelection == K!Init => SelectionInv
<1> SUFFICES ASSUME K!Init PROVE SelectionInv
  OBVIOUS
<1>1. SelectionTyped
  <2>1. PICK n \in 1 .. MaxTasks : catalogue \in [1 .. n -> Kinds]
    BY DEF K!Init
  <2>2. n \in Nat
    BY SelectionAssumption
  <2>3. Described
    BY <2>1, <2>2 DEF K!Init, Described
  <2>4. QED
    BY <2>3 DEF K!Init, SelectionTyped
<1>2. StagesFollow
  BY DEF K!Init, StagesFollow
<1>3. QuotasKnown /\ GroupsRemain /\ BatchGrows /\ K!BatchIsAsAsked
  BY DEF K!Init, QuotasKnown, GroupsRemain, BatchGrows, K!BatchIsAsAsked
<1>4. WavesGrow
  BY DEF K!Init, WavesGrow
<1>5. QED
  BY <1>1, <1>2, <1>3, <1>4 DEF SelectionInv

(* What depends on the catalogue and the arguments only.                   *)
LEMMA InputsStay ==
  ASSUME UNCHANGED <<catalogue, args>>
  PROVE  /\ K!Candidates' = K!Candidates /\ K!Counted' = K!Counted /\ K!Categories' = K!Categories
         /\ \A c : K!Quota(c)' = K!Quota(c) /\ K!Group(c)' = K!Group(c)
         /\ K!Wanted' = K!Wanted
         /\ \A s, c : K!InCategory(s, c)' = K!InCategory(s, c)
         /\ \A t, u : K!Score(t, u)' = K!Score(t, u)
         /\ Described' = Described /\ SizeFits' = SizeFits
<1>1. K!Candidates' = K!Candidates
  BY DEF K!Candidates
<1>2. K!Counted' = K!Counted
  BY <1>1 DEF K!Counted
<1>3. K!Categories' = K!Categories
  BY <1>2 DEF K!Categories
<1>4. \A c : K!Count(c)' = K!Count(c) /\ K!Floor(c)' = K!Floor(c) /\ K!Remainder(c)' = K!Remainder(c)
  BY <1>2 DEF K!Count, K!Floor, K!Remainder
<1>5. K!Left' = K!Left /\ K!Unfilled' = K!Unfilled
  BY <1>3, <1>4 DEF K!Left, K!Unfilled
<1>6. \A c : K!Quota(c)' = K!Quota(c)
  BY <1>4, <1>5 DEF K!Quota
<1>7. K!Wanted' = K!Wanted
  BY <1>3, <1>6 DEF K!Wanted
<1>8. \A s, c : K!InCategory(s, c)' = K!InCategory(s, c)
  BY DEF K!InCategory
<1>9. \A c : K!Group(c)' = K!Group(c)
  BY <1>1, <1>6, <1>8 DEF K!Group
<1>10. \A t, u : K!Score(t, u)' = K!Score(t, u)
  BY DEF K!Score
<1>11. Described' = Described /\ SizeFits' = SizeFits
  BY <1>2 DEF Described, SizeFits
<1>12. QED
  BY <1>1, <1>2, <1>3, <1>6, <1>7, <1>8, <1>9, <1>10, <1>11

(* The tasks of a category.                                                *)
LEMMA GroupKnown ==
  ASSUME Described, NEW c
  PROVE  /\ K!Group(c).tasks \in Seq(DOMAIN catalogue) /\ K!Group(c).size = K!Quota(c)
         /\ Len(K!Group(c).tasks) = Cardinality(K!InCategory(K!Candidates, c))
         /\ Len(K!Group(c).tasks) <= Len(K!Candidates)
         /\ \A k \in 1 .. Len(K!Group(c).tasks) :
              K!Group(c).tasks[k] \in K!Counted /\ catalogue[K!Group(c).tasks[k]].category = c
         /\ K!IsInjective(K!Candidates) => K!IsInjective(K!Group(c).tasks)
<1> DEFINE s == K!Candidates
           S == K!InCategory(s, c)
           g == K!Group(c).tasks
<1>1. s \in Seq(DOMAIN catalogue) /\ DOMAIN s = 1 .. Len(s) /\ Len(s) \in Nat
  BY CandidatesKnown
<1>2. S \in SUBSET (1 .. Len(s)) /\ \A i \in S : catalogue[s[i]].category = c
  BY <1>1 DEF K!InCategory
<1>3. IsFiniteSet(1 .. Len(s)) /\ Cardinality(1 .. Len(s)) = Len(s)
  <2>1. \A k \in Nat : IsFiniteSet(1 .. k) /\ Cardinality(1 .. k) = k
    BY FS_Interval
  <2>2. QED
    BY <1>1, <2>1
<1>4. g = [k \in 1 .. Cardinality(S) |-> s[Nth(S, k)]] /\ K!Group(c).size = K!Quota(c)
  BY SelectionCounts DEF K!Group, K!Picked
<1>5. \A i \in 1 .. Len(s) : s[i] \in K!Counted /\ s[i] \in DOMAIN catalogue
  BY <1>1 DEF K!Counted, K!Range
<1> HIDE DEF S, g, s
<1>6. IsFiniteSet(S) /\ Cardinality(S) <= Len(s) /\ Cardinality(S) \in Nat
  BY <1>2, <1>3, FS_Subset, FS_CardinalityType
<1>7. /\ \A k \in 1 .. Cardinality(S) : Nth(S, k) \in S
      /\ \A k, l \in 1 .. Cardinality(S) : k < l => Nth(S, k) < Nth(S, l)
  <2>1. S \in SUBSET Int
    BY <1>2
  <2>2. QED
    BY <1>6, <2>1, PlacesInOrder
<1>8. DOMAIN g = 1 .. Cardinality(S) /\ Len(g) = Cardinality(S) /\ g \in Seq(DOMAIN catalogue)
  <2>1. \A k \in 1 .. Cardinality(S) : s[Nth(S, k)] \in DOMAIN catalogue
    BY <1>2, <1>5, <1>7
  <2>2. QED
    BY <1>4, <1>6, <2>1
<1>9. \A k \in 1 .. Len(g) : g[k] \in K!Counted /\ catalogue[g[k]].category = c
  BY <1>2, <1>4, <1>5, <1>7, <1>8
<1>10. ASSUME K!IsInjective(s) PROVE K!IsInjective(g)
  <2> SUFFICES ASSUME NEW k \in DOMAIN g, NEW l \in DOMAIN g, g[k] = g[l] PROVE k = l
    BY DEF K!IsInjective
  <2>1. Nth(S, k) \in 1 .. Len(s) /\ Nth(S, l) \in 1 .. Len(s) /\ s[Nth(S, k)] = s[Nth(S, l)]
    BY <1>2, <1>4, <1>7, <1>8
  <2>2. Nth(S, k) = Nth(S, l)
    BY <1>1, <1>10, <2>1 DEF K!IsInjective, s
  <2>3. k \in Nat /\ l \in Nat /\ Nth(S, k) \in Int
    BY <1>6, <1>8, <2>1
  <2>4. ~(k < l) /\ ~(l < k)
    BY <1>7, <1>8, <2>2, <2>3
  <2>5. QED
    BY <2>3, <2>4
<1>11. QED
  BY <1>4, <1>6, <1>8, <1>9, <1>10 DEF g, s, S

LEMMA GroupsDiffer ==
  ASSUME Described, SizeFits, NEW c \in K!Wanted
  PROVE  /\ c \in K!Categories /\ K!Quota(c) > 0 /\ K!Quota(c) <= Len(K!Group(c).tasks)
         /\ \A d \in K!Categories : K!Group(d) = K!Group(c) => d = c
<1>1. c \in K!Categories /\ K!Quota(c) > 0
  BY DEF K!Wanted
<1> DEFINE s == K!Candidates
           S == K!InCategory(s, c)
           T == {t \in K!Counted : catalogue[t].category = c}
           f == [i \in S |-> s[i]]
<1>2. s \in Seq(DOMAIN catalogue) /\ DOMAIN s = 1 .. Len(s) /\ Len(s) \in Nat
  BY CandidatesKnown
<1>3. f \in Surjection(S, T)
  BY <1>2 DEF Surjection, K!InCategory, K!Counted, K!Range
<1>4. IsFiniteSet(S)
  <2>1. S \in SUBSET (1 .. Len(s))
    BY <1>2 DEF K!InCategory
  <2>2. IsFiniteSet(1 .. Len(s))
    BY <1>2, FS_Interval
  <2> HIDE DEF S, s
  <2>3. QED
    BY <2>1, <2>2, FS_Subset
<1>5. K!Count(c) = Cardinality(T)
  BY SelectionCounts DEF K!Count
<1> HIDE DEF f, T, S
<1>6. Cardinality(T) <= Cardinality(S) /\ Cardinality(S) \in Nat /\ IsFiniteSet(T)
  BY <1>3, <1>4, FS_Surjection, FS_CardinalityType
<1>7. Cardinality(T) \in Nat /\ K!Quota(c) \in Nat /\ K!Quota(c) <= K!Count(c)
  BY <1>1, <1>6, QuotasAddUp, FS_CardinalityType
<1>8. Len(K!Group(c).tasks) = Cardinality(S)
  BY GroupKnown DEF S, s
<1>9. K!Quota(c) <= Len(K!Group(c).tasks)
  BY <1>5, <1>6, <1>7, <1>8
<1>10. ASSUME NEW d \in K!Categories, K!Group(d) = K!Group(c) PROVE d = c
  <2>1. 1 \in 1 .. Len(K!Group(c).tasks)
    BY <1>1, <1>6, <1>7, <1>8, <1>9
  <2>2. catalogue[K!Group(c).tasks[1]].category = c
    BY <2>1, GroupKnown
  <2>3. catalogue[K!Group(d).tasks[1]].category = d
    BY <1>10, <2>1, GroupKnown
  <2>4. QED
    BY <1>10, <2>2, <2>3
<1>11. QED
  BY <1>1, <1>9, <1>10

(* ------------------------------------------------------------------------*)
(* Sequences: sorted, moved and joined.                                    *)
(* ------------------------------------------------------------------------*)
LEMMA SortedKeepsTasks ==
  ASSUME NEW Known \in SUBSET Nat, NEW s \in Seq(Known)
  PROVE  /\ K!Sorted(s) \in Seq(Known) /\ Len(K!Sorted(s)) = Len(s)
         /\ K!Range(K!Sorted(s)) \subseteq K!Range(s)
         /\ K!IsInjective(s) => K!IsInjective(K!Sorted(s))
<1>1. s \in Seq(Int) /\ DOMAIN s = 1 .. Len(s) /\ Len(s) \in Nat /\ \A k \in DOMAIN s : s[k] \in Known
  <2>1. DOMAIN s = 1 .. Len(s) /\ Len(s) \in Nat /\ \A k \in 1 .. Len(s) : s[k] \in Known
    OBVIOUS
  <2>2. \A k \in 1 .. Len(s) : s[k] \in Int
    <3>1. \A x \in Known : x \in Int
      OBVIOUS
    <3>2. QED
      BY <2>1, <3>1
  <2>3. s \in Seq(Int)
    BY <2>1, <2>2
  <2>4. QED
    BY <2>1, <2>3
<1>2. K!Sorted(s) = Sorted(s)
  <2> DEFINE From(i) == {j \in DOMAIN s : s[j] < s[i] \/ (s[j] = s[i] /\ j < i)}
             a(k) == CHOOSE i \in DOMAIN s : Cardinality(From(i)) = k - 1
             b(k) == CHOOSE i \in DOMAIN s : K!Cardinality(From(i)) = k - 1
  <2>1. Sorted(s) = [k \in DOMAIN s |-> s[a(k)]]
    BY DEF Sorted
  <2>2. K!Sorted(s) = [k \in DOMAIN s |-> s[b(k)]]
    BY DEF K!Sorted
  <2>3. \A i : K!Cardinality(From(i)) = Cardinality(From(i))
    BY SelectionCounts
  <2> HIDE DEF From
  <2>4. \A k : a(k) = b(k)
    BY <2>3
  <2> HIDE DEF a, b
  <2>5. QED
    BY <2>1, <2>2, <2>4
<1>3. PICK p \in [DOMAIN s -> DOMAIN s] :
        /\ \A k, l \in DOMAIN s : p[k] = p[l] => k = l
        /\ Sorted(s) = [k \in DOMAIN s |-> s[p[k]]]
  BY <1>1, SortedIsPermutation
<1> DEFINE q == K!Sorted(s)
<1>4. q = [k \in 1 .. Len(s) |-> s[p[k]]] /\ \A k \in 1 .. Len(s) : p[k] \in 1 .. Len(s)
  BY <1>1, <1>2, <1>3
<1>5. \A k \in 1 .. Len(s) : s[p[k]] \in Known
  BY <1>1, <1>4
<1> HIDE DEF q
<1>6. q \in Seq(Known) /\ Len(q) = Len(s) /\ DOMAIN q = 1 .. Len(s)
  BY <1>1, <1>4, <1>5
<1>7. K!Range(q) \subseteq K!Range(s)
  BY <1>1, <1>4, <1>6 DEF K!Range
<1>8. K!IsInjective(s) => K!IsInjective(q)
  <2> SUFFICES ASSUME K!IsInjective(s), NEW k \in 1 .. Len(s), NEW l \in 1 .. Len(s), q[k] = q[l]
               PROVE  k = l
    BY <1>6 DEF K!IsInjective
  <2>1. s[p[k]] = s[p[l]]
    BY <1>4
  <2>2. p[k] = p[l]
    BY <1>1, <1>4, <2>1 DEF K!IsInjective
  <2>3. QED
    BY <1>1, <1>3, <2>2
<1>9. QED
  BY <1>6, <1>7, <1>8 DEF q

Moved(Known, s, r, i, s1, r1) ==
  /\ s1 \in Seq(Known) /\ r1 \in Seq(Known) /\ Len(s1) = Len(s) + 1 /\ Len(r1) = Len(r) - 1
  /\ K!Range(s1) = K!Range(s) \cup {r[i]} /\ r[i] \in K!Range(r)
  /\ K!Range(r1) \subseteq K!Range(r) /\ K!Range(r) = K!Range(r1) \cup {r[i]}
  /\ Disjoint(s, r) => Disjoint(s1, r1)

LEMMA MovedToTheOther ==
  ASSUME NEW Known, NEW s \in Seq(Known), NEW r \in Seq(Known), NEW i \in 1 .. Len(r),
         NEW s1, s1 = Append(s, r[i]), NEW r1, r1 = K!RemoveAt(r, i)
  PROVE  Moved(Known, s, r, i, s1, r1)
<1>1. /\ DOMAIN s = 1 .. Len(s) /\ Len(s) \in Nat /\ \A k \in 1 .. Len(s) : s[k] \in Known
      /\ DOMAIN r = 1 .. Len(r) /\ Len(r) \in Nat /\ \A k \in 1 .. Len(r) : r[k] \in Known
  OBVIOUS
<1>2. /\ s1 \in Seq(Known) /\ Len(s1) = Len(s) + 1 /\ DOMAIN s1 = 1 .. Len(s) + 1
      /\ s1[Len(s) + 1] = r[i] /\ \A k \in 1 .. Len(s) : s1[k] = s[k]
  BY <1>1
<1>3. /\ r1 \in Seq(Known) /\ Len(r1) = Len(r) - 1 /\ DOMAIN r1 = 1 .. Len(r) - 1
      /\ \A k \in 1 .. Len(r) - 1 : r1[k] = r[IF k < i THEN k ELSE k + 1]
  <2>1. r1 \in Seq(Known) /\ Len(r1) = Len(r) - 1
        /\ \A k \in 1 .. Len(r) - 1 : r1[k] = r[IF k < i THEN k ELSE k + 1]
    BY WithoutPlace
  <2>2. DOMAIN r1 = 1 .. Len(r1)
    BY <2>1
  <2>3. QED
    BY <2>1, <2>2
<1>4. \A k \in 1 .. Len(r) - 1 : (IF k < i THEN k ELSE k + 1) \in 1 .. Len(r) /\ (IF k < i THEN k ELSE k + 1) # i
  BY <1>1
<1>5. K!Range(s1) = K!Range(s) \cup {r[i]}
  <2>1. \A k \in 1 .. Len(s) + 1 : k = Len(s) + 1 \/ k \in 1 .. Len(s)
    BY <1>1
  <2>2. \A k \in 1 .. Len(s) : k \in 1 .. Len(s) + 1
    BY <1>1
  <2>3. Len(s) + 1 \in 1 .. Len(s) + 1
    BY <1>1
  <2>4. QED
    BY <1>1, <1>2, <2>1, <2>2, <2>3 DEF K!Range
<1>6. r[i] \in K!Range(r)
  BY <1>1 DEF K!Range
<1>7. K!Range(r1) \subseteq K!Range(r)
  BY <1>1, <1>3, <1>4 DEF K!Range
<1>8. K!Range(r) \subseteq K!Range(r1) \cup {r[i]}
  <2>1. ASSUME NEW k \in 1 .. Len(r), k # i PROVE \E l \in 1 .. Len(r) - 1 : r1[l] = r[k]
    <3>1. CASE k < i
      <4>1. k \in 1 .. Len(r) - 1 /\ r1[k] = r[k]
        BY <1>1, <1>3, <3>1
      <4>2. QED
        BY <4>1
    <3>2. CASE k > i
      <4>1. PICK l \in Int : l = k - 1
        BY <1>1
      <4>2. l \in 1 .. Len(r) - 1 /\ ~(l < i) /\ l + 1 = k
        BY <1>1, <3>2, <4>1
      <4>3. r1[l] = r[k]
        BY <1>3, <4>2
      <4>4. QED
        BY <4>2, <4>3
    <3>3. QED
      BY <1>1, <2>1, <3>1, <3>2
  <2>2. \A k \in 1 .. Len(r) : k = i \/ r[k] \in K!Range(r1)
    BY <1>3, <2>1 DEF K!Range
  <2>3. QED
    BY <1>1, <2>2 DEF K!Range
<1>9. ASSUME Disjoint(s, r) PROVE Disjoint(s1, r1)
  <2>1. r[i] \notin K!Range(s)
    BY <1>6, <1>9 DEF Disjoint
  <2>2. \A k \in 1 .. Len(s) : s[k] # r[i]
    BY <1>1, <2>1 DEF K!Range
  <2>3. K!IsInjective(s1)
    <3> SUFFICES ASSUME NEW k \in 1 .. Len(s) + 1, NEW l \in 1 .. Len(s) + 1, s1[k] = s1[l] PROVE k = l
      BY <1>2 DEF K!IsInjective
    <3>1. k \in 1 .. Len(s) \/ k = Len(s) + 1
      BY <1>1
    <3>2. l \in 1 .. Len(s) \/ l = Len(s) + 1
      BY <1>1
    <3>3. \A x, y \in 1 .. Len(s) : s[x] = s[y] => x = y
      BY <1>1, <1>9 DEF Disjoint, K!IsInjective
    <3>4. QED
      BY <1>2, <2>2, <3>1, <3>2, <3>3
  <2>4. \A x, y \in 1 .. Len(r) : r[x] = r[y] => x = y
    BY <1>1, <1>9 DEF Disjoint, K!IsInjective
  <2>5. K!IsInjective(r1)
    <3> SUFFICES ASSUME NEW k \in 1 .. Len(r) - 1, NEW l \in 1 .. Len(r) - 1, r1[k] = r1[l] PROVE k = l
      BY <1>3 DEF K!IsInjective
    <3>1. (IF k < i THEN k ELSE k + 1) = (IF l < i THEN l ELSE l + 1)
      BY <1>3, <1>4, <2>4
    <3>2. QED
      BY <1>1, <3>1
  <2>6. r[i] \notin K!Range(r1)
    BY <1>1, <1>3, <1>4, <2>4 DEF K!Range
  <2>7. K!Range(s1) \cap K!Range(r1) = {}
    BY <1>5, <1>7, <1>9, <2>6 DEF Disjoint
  <2>8. QED
    BY <2>3, <2>5, <2>7 DEF Disjoint
<1>10. QED
  BY <1>2, <1>3, <1>5, <1>6, <1>7, <1>8, <1>9 DEF Moved

LEMMA TailIsWithoutFirst ==
  ASSUME NEW Known, NEW r \in Seq(Known), r # <<>>
  PROVE  Tail(r) = K!RemoveAt(r, 1) /\ Head(r) = r[1] /\ 1 \in 1 .. Len(r)
<1>1. 1 \in 1 .. Len(r) /\ Len(r) \in Nat
  OBVIOUS
<1>2. Tail(r) \in Seq(Known) /\ Len(Tail(r)) = Len(r) - 1 /\ \A k \in 1 .. Len(r) - 1 : Tail(r)[k] = r[k + 1]
  OBVIOUS
<1> DEFINE q == K!RemoveAt(r, 1)
<1>3. q \in Seq(Known) /\ Len(q) = Len(r) - 1 /\ \A k \in 1 .. Len(r) - 1 : q[k] = r[IF k < 1 THEN k ELSE k + 1]
  BY <1>1, WithoutPlace
<1> HIDE DEF q
<1>4. \A k \in 1 .. Len(r) - 1 : q[k] = r[k + 1]
  BY <1>1, <1>3
<1> DEFINE t == Tail(r)
<1>5. t \in Seq(Known) /\ Len(t) = Len(q) /\ \A k \in 1 .. Len(t) : t[k] = q[k]
  BY <1>2, <1>3, <1>4
<1> HIDE DEF t
<1>6. t = q
  BY <1>3, <1>5
<1>7. QED
  BY <1>1, <1>6 DEF t, q

(* A batch that is added: its tasks, and how many of each category.        *)
LEMMA JoinedTogether ==
  ASSUME Described, NEW s \in Seq(DOMAIN catalogue), NEW b \in Seq(DOMAIN catalogue)
  PROVE  /\ s \o b \in Seq(DOMAIN catalogue) /\ Len(s \o b) = Len(s) + Len(b)
         /\ K!Range(s \o b) = K!Range(s) \cup K!Range(b)
         /\ Disjoint(s, b) => K!IsInjective(s \o b)
         /\ \A c : Cardinality(K!InCategory(s \o b, c)) =
                     Cardinality(K!InCategory(s, c)) + Cardinality(K!InCategory(b, c))
<1> DEFINE Known == DOMAIN catalogue
           t == s \o b
           m == Len(s)
           n == Len(b)
<1>1. /\ DOMAIN s = 1 .. m /\ m \in Nat /\ \A k \in 1 .. m : s[k] \in Known
      /\ DOMAIN b = 1 .. n /\ n \in Nat /\ \A k \in 1 .. n : b[k] \in Known
  OBVIOUS
<1>2. t \in Seq(Known) /\ Len(t) = m + n /\ \A k \in 1 .. m + n : t[k] = IF k <= m THEN s[k] ELSE b[k - m]
  BY ConcatProperties
<1>3. DOMAIN t = 1 .. m + n
  BY <1>2
<1> HIDE DEF t, m, n, Known
<1>4. \A k \in 1 .. m : k \in 1 .. m + n /\ t[k] = s[k]
  BY <1>1, <1>2
<1>5. \A k \in 1 .. n : k + m \in 1 .. m + n /\ t[k + m] = b[k]
  <2> SUFFICES ASSUME NEW k \in 1 .. n PROVE k + m \in 1 .. m + n /\ t[k + m] = b[k]
    OBVIOUS
  <2>1. PICK l \in Int : l = k + m
    BY <1>1
  <2>2. l \in 1 .. m + n /\ ~(l <= m) /\ l - m = k
    BY <1>1, <2>1
  <2>3. t[l] = b[k]
    BY <1>2, <2>2
  <2>4. QED
    BY <2>1, <2>2, <2>3
<1>6. \A k \in 1 .. m + n : k \in 1 .. m \/ (k - m \in 1 .. n /\ k = k - m + m)
  BY <1>1
<1>7. K!Range(t) = K!Range(s) \cup K!Range(b)
  <2>1. \A k \in 1 .. m + n : t[k] \in K!Range(s) \cup K!Range(b)
    <3> SUFFICES ASSUME NEW k \in 1 .. m + n PROVE t[k] \in K!Range(s) \cup K!Range(b)
      OBVIOUS
    <3>1. CASE k \in 1 .. m
      BY <1>1, <1>4, <3>1 DEF K!Range
    <3>2. CASE k - m \in 1 .. n /\ k = k - m + m
      <4>1. t[k] = b[k - m]
        BY <1>5, <3>2
      <4>2. QED
        BY <1>1, <3>2, <4>1 DEF K!Range
    <3>3. QED
      BY <1>6, <3>1, <3>2
  <2>2. K!Range(s) \subseteq K!Range(t)
    BY <1>1, <1>3, <1>4 DEF K!Range
  <2>3. K!Range(b) \subseteq K!Range(t)
    BY <1>1, <1>3, <1>5 DEF K!Range
  <2>4. QED
    BY <1>3, <2>1, <2>2, <2>3 DEF K!Range
<1>8. ASSUME Disjoint(s, b) PROVE K!IsInjective(t)
  <2>1. /\ \A x, y \in 1 .. m : s[x] = s[y] => x = y
        /\ \A x, y \in 1 .. n : b[x] = b[y] => x = y
        /\ \A x \in 1 .. m : \A y \in 1 .. n : s[x] # b[y]
    BY <1>1, <1>8 DEF Disjoint, K!IsInjective, K!Range
  <2> SUFFICES ASSUME NEW k \in 1 .. m + n, NEW l \in 1 .. m + n, t[k] = t[l] PROVE k = l
    BY <1>3 DEF K!IsInjective
  <2>2. (k <= m /\ k \in 1 .. m /\ t[k] = s[k]) \/ (~(k <= m) /\ k - m \in 1 .. n /\ t[k] = b[k - m])
    BY <1>1, <1>2
  <2>3. (l <= m /\ l \in 1 .. m /\ t[l] = s[l]) \/ (~(l <= m) /\ l - m \in 1 .. n /\ t[l] = b[l - m])
    BY <1>1, <1>2
  <2>4. QED
    BY <1>1, <2>1, <2>2, <2>3
<1>9. ASSUME NEW c
      PROVE  Cardinality(K!InCategory(t, c)) = Cardinality(K!InCategory(s, c)) + Cardinality(K!InCategory(b, c))
  <2> DEFINE S == K!InCategory(s, c)
             B == K!InCategory(b, c)
             T == K!InCategory(t, c)
             B1 == {k + m : k \in B}
             f == [k \in B |-> k + m]
  <2>1. S \in SUBSET (1 .. m) /\ B \in SUBSET (1 .. n)
    BY <1>1 DEF K!InCategory
  <2>2. \A k \in 1 .. m + n : k \in T <=> catalogue[t[k]].category = c
    BY <1>3 DEF K!InCategory
  <2>3. \A k \in 1 .. m : k \in T <=> k \in S
    BY <1>1, <1>4, <2>2 DEF K!InCategory
  <2>4. \A k \in 1 .. n : k + m \in T <=> k \in B
    BY <1>1, <1>5, <2>2 DEF K!InCategory
  <2>5. T \in SUBSET (1 .. m + n)
    BY <1>3 DEF K!InCategory
  <2> HIDE DEF S, B, T
  <2>6. T = S \cup B1
    <3>1. ASSUME NEW k \in T PROVE k \in S \cup B1
      <4>1. k \in 1 .. m + n
        BY <2>5
      <4>2. CASE k \in 1 .. m
        BY <2>3, <4>2
      <4>3. CASE k - m \in 1 .. n /\ k = k - m + m
        <5>1. k - m \in B
          BY <2>4, <4>3
        <5>2. QED
          BY <4>3, <5>1
      <4>4. QED
        BY <1>6, <4>1, <4>2, <4>3
    <3>2. S \subseteq T
      BY <2>1, <2>3
    <3>3. B1 \subseteq T
      BY <2>1, <2>4
    <3>4. QED
      BY <3>1, <3>2, <3>3
  <2>7. S \cap B1 = {}
    BY <1>1, <2>1
  <2>8. IsFiniteSet(S) /\ IsFiniteSet(B)
    <3>1. IsFiniteSet(1 .. m) /\ IsFiniteSet(1 .. n)
      BY <1>1, FS_Interval
    <3>2. QED
      BY <2>1, <3>1, FS_Subset
  <2>9. f \in Bijection(B, B1)
    <3>1. \A k \in B : k \in Int /\ m \in Int
      BY <1>1, <2>1
    <3>2. QED
      BY <3>1 DEF Bijection, Injection, Surjection, IsInjective
  <2> HIDE DEF f, B1
  <2>10. IsFiniteSet(B1) /\ Cardinality(B1) = Cardinality(B)
    <3>1. ExistsBijection(B, B1)
      BY <2>9 DEF ExistsBijection
    <3>2. QED
      BY <2>8, <3>1, FS_Bijection
  <2>11. Cardinality(S \cup B1) = Cardinality(S) + Cardinality(B1) - Cardinality({})
    BY <2>7, <2>8, <2>10, FS_Union
  <2>12. Cardinality(S) \in Nat /\ Cardinality(B) \in Nat /\ Cardinality({}) = 0
    BY <2>8, FS_CardinalityType, FS_EmptySet
  <2>13. Cardinality(T) = Cardinality(S) + Cardinality(B)
    BY <2>6, <2>10, <2>11, <2>12
  <2>14. QED
    BY <2>13 DEF T, S, B
<1>10. QED
  BY <1>2, <1>7, <1>8, <1>9 DEF t, m, n, Known

(* ------------------------------------------------------------------------*)
(* Every action keeps the invariant.                                       *)
(* ------------------------------------------------------------------------*)
LEMMA FailKeeps ==
  ASSUME SelectionInv, K!Fail, phase # "wave", batch = <<>>
  PROVE  SelectionInv'
<1> USE DEF SelectionInv
<1>1. /\ phase' = "failed"
      /\ UNCHANGED <<catalogue, args, quotas, groups, remaining, batch, selected, wave, waves>>
  BY DEF K!Fail
<1>2. SelectionTyped'
  BY <1>1, InputsStay DEF SelectionTyped
<1>3. StagesFollow'
  BY <1>1 DEF StagesFollow
<1>4. QuotasKnown'
  BY <1>1, InputsStay DEF QuotasKnown, Shared
<1>5. GroupsRemain' /\ BatchGrows' /\ K!BatchIsAsAsked' /\ WavesGrow'
  BY <1>1 DEF GroupsRemain, BatchGrows, K!BatchIsAsAsked, WavesGrow
<1>6. QED
  BY <1>2, <1>3, <1>4, <1>5

LEMMA ChooseKeeps == ASSUME SelectionInv, K!Choose PROVE SelectionInv'
<1> USE DEF SelectionInv
<1>1. /\ phase = "choose"
      /\ UNCHANGED <<catalogue, args, quotas, remaining, batch, wave, waves>>
      /\ \/ /\ args.size = K!NoSize \/ args.size = Len(K!Candidates)
            /\ selected' = K!Candidates /\ phase' = "plan" /\ UNCHANGED groups
         \/ /\ args.size # K!NoSize /\ args.size # Len(K!Candidates) /\ args.stratified
            /\ phase' = "quotas" /\ UNCHANGED selected /\ groups' = <<>>
         \/ /\ args.size # K!NoSize /\ args.size # Len(K!Candidates) /\ ~args.stratified
            /\ phase' = "batch" /\ UNCHANGED selected
            /\ groups' = <<[tasks |-> K!Candidates, size |-> args.size]>>
  BY DEF K!Choose
<1>2. /\ groups = <<>> /\ quotas = <<>> /\ selected = <<>> /\ remaining = <<>> /\ batch = <<>>
      /\ wave = <<>> /\ waves = <<>>
  BY <1>1 DEF StagesFollow
<1>3. K!Candidates \in Seq(DOMAIN catalogue) /\ args.size \in Int
  BY CandidatesKnown, SelectionAssumption DEF SelectionTyped, Described
<1>4. SelectionTyped'
  <2>1. Described' /\ UNCHANGED catalogue
    BY <1>1, InputsStay DEF SelectionTyped
  <2>2. [tasks |-> K!Candidates, size |-> args.size] \in [tasks : Seq(DOMAIN catalogue), size : Int]
    BY <1>3
  <2>3. groups' \in Seq([tasks : Seq(DOMAIN catalogue), size : Int])
    <3> DEFINE Batches == [tasks : Seq(DOMAIN catalogue), size : Int]
               g == [tasks |-> K!Candidates, size |-> args.size]
    <3>1. g \in Batches /\ (groups' = <<>> \/ groups' = <<g>>)
      BY <1>1, <1>2, <2>2
    <3> HIDE DEF g, Batches
    <3>2. <<>> \in Seq(Batches) /\ \A x \in Batches : <<x>> \in Seq(Batches)
      OBVIOUS
    <3>4. groups' \in Seq(Batches)
      <4> HIDE DEF g
      <4>1. QED
        BY <3>1, <3>2
    <3>3. QED
      BY <3>4 DEF Batches
  <2>4. selected' \in Seq(DOMAIN catalogue)
    <3>1. selected \in Seq(DOMAIN catalogue)
      BY DEF SelectionTyped
    <3>2. QED
      BY <1>1, <1>3, <3>1
  <2>5. QED
    BY <1>1, <2>1, <2>3, <2>4 DEF SelectionTyped
<1>5. StagesFollow'
  BY <1>1, <1>2 DEF StagesFollow, K!NoSize
<1>6. QuotasKnown' /\ BatchGrows' /\ WavesGrow'
  BY <1>1, <1>2 DEF QuotasKnown, BatchGrows, WavesGrow
<1>7. GroupsRemain'
  BY <1>1, <1>2, InputsStay DEF GroupsRemain
<1>8. K!BatchIsAsAsked'
  <2>1. phase' = "plan" => /\ selected' = K!Candidates /\ K!Range(K!Candidates) = K!Counted
                           /\ (args.size = K!NoSize \/ args.size > Len(K!Candidates)
                                \/ args.size = Len(K!Candidates))
    BY <1>1 DEF K!Counted
  <2>2. \A c \in DOMAIN quotas : FALSE
    BY <1>2
  <2>3. QED
    BY <1>1, <2>1, <2>2, InputsStay DEF K!BatchIsAsAsked
<1>9. QED
  BY <1>4, <1>5, <1>6, <1>7, <1>8

LEMMA QuotasKeep == ASSUME SelectionInv, K!Quotas PROVE SelectionInv'
<1> USE DEF SelectionInv
<1>1. phase = "quotas"
  BY DEF K!Quotas
<1>2. /\ groups = <<>> /\ quotas = <<>> /\ selected = <<>> /\ remaining = <<>> /\ batch = <<>>
      /\ wave = <<>> /\ waves = <<>> /\ args.stratified /\ args.size # K!NoSize
  BY <1>1 DEF StagesFollow
<1>3. CASE K!Fail
  BY <1>1, <1>2, <1>3, FailKeeps
<1>4. CASE ~(args.size <= 0 \/ args.size > K!Cardinality(K!Counted))
  <2> DEFINE W == K!Wanted
             n == Cardinality(W)
  <2>1. /\ quotas' = [c \in K!Categories |-> K!Quota(c)] /\ phase' = "batch"
        /\ groups' = [i \in 1 .. n |-> K!Group(Nth(W, i))]
        /\ UNCHANGED <<catalogue, args, remaining, batch, selected, wave, waves>>
    BY <1>4, SelectionCounts DEF K!Quotas
  <2>2. SizeFits
    <3>1. args.size \in Int /\ Cardinality(K!Counted) \in Nat
      BY CandidatesKnown, SelectionAssumption DEF SelectionTyped, Described
    <3>2. ~(args.size <= 0 \/ args.size > Cardinality(K!Counted))
      BY <1>4, SelectionCounts
    <3>3. QED
      BY <3>1, <3>2 DEF SizeFits
  <2>3. Described
    BY DEF SelectionTyped
  <2>4. Shared'
    BY <1>2, <2>1, <2>2, InputsStay DEF Shared
  <2>5. IsFiniteSet(W) /\ W \in SUBSET Int
    <3>1. W \in SUBSET K!Categories
      BY DEF K!Wanted
    <3>2. IsFiniteSet(K!Categories) /\ K!Categories \subseteq Nat
      BY <2>3, CategoriesAreFinite
    <3> HIDE DEF W
    <3>3. IsFiniteSet(W)
      BY <3>1, <3>2, FS_Subset
    <3>4. QED
      BY <3>1, <3>2, <3>3
  <2>6. \A c \in W : c \in K!Categories /\ K!Quota(c) > 0 /\ \A d \in K!Categories : K!Group(d) = K!Group(c) => d = c
    BY <2>2, <2>3, GroupsDiffer
  <2>7. \A c \in K!Categories : K!Quota(c) \in Nat
    BY <2>2, <2>3, QuotasAddUp
  <2>8. \A c \in W : K!Group(c) \in [tasks : Seq(DOMAIN catalogue), size : Int]
    <3> SUFFICES ASSUME NEW c \in W PROVE K!Group(c) \in [tasks : Seq(DOMAIN catalogue), size : Int]
      OBVIOUS
    <3>1. K!Group(c).tasks \in Seq(DOMAIN catalogue) /\ K!Group(c).size = K!Quota(c) /\ K!Quota(c) \in Nat
      BY <2>3, <2>6, <2>7, GroupKnown
    <3>2. K!Group(c) = [tasks |-> K!Group(c).tasks, size |-> K!Group(c).size]
      BY DEF K!Group
    <3>3. QED
      BY <3>1, <3>2
  <2> HIDE DEF W
  <2>9. /\ n \in Nat /\ \A k \in 1 .. n : Nth(W, k) \in W
        /\ \A k, l \in 1 .. n : k < l => Nth(W, k) < Nth(W, l)
        /\ \A x \in W : \E k \in 1 .. n : Nth(W, k) = x
    BY <2>5, PlacesInOrder
  <2> HIDE DEF n
  <2>10. groups' \in Seq([tasks : Seq(DOMAIN catalogue), size : Int]) /\ DOMAIN groups' = 1 .. n
    <3>1. \A k \in 1 .. n : K!Group(Nth(W, k)) \in [tasks : Seq(DOMAIN catalogue), size : Int]
      BY <2>8, <2>9
    <3>2. QED
      BY <2>1, <2>9, <3>1
  <2>11. SelectionTyped'
    BY <2>1, <2>10, InputsStay DEF SelectionTyped
  <2>12. StagesFollow'
    BY <1>1, <1>2, <2>1 DEF StagesFollow, K!NoSize
  <2>13. QuotasKnown' /\ BatchGrows' /\ K!BatchIsAsAsked' /\ WavesGrow'
    BY <1>1, <1>2, <2>1, <2>4 DEF QuotasKnown, BatchGrows, K!BatchIsAsAsked, WavesGrow
  <2>14. \A i \in DOMAIN groups' : \E c \in W : groups'[i] = K!Group(c)
    BY <2>1, <2>9, <2>10
  <2>15. ASSUME NEW i \in 1 .. n, NEW j \in 1 .. n, groups'[i] = groups'[j] PROVE i = j
    <3>1. Nth(W, i) \in W /\ Nth(W, j) \in W /\ K!Group(Nth(W, i)) = K!Group(Nth(W, j))
      BY <2>1, <2>9, <2>15
    <3>2. Nth(W, i) = Nth(W, j) /\ Nth(W, i) \in Int
      BY <2>5, <2>6, <3>1
    <3>3. ~(i < j) /\ ~(j < i)
      BY <2>9, <3>2
    <3>4. QED
      BY <2>9, <3>3
  <2>16. ASSUME NEW c \in K!Categories
         PROVE  Cardinality(K!InCategory(selected, c)') = IF Pending(c)' THEN 0 ELSE K!Quota(c)
    <3>1. K!InCategory(selected, c)' = {}
      BY <1>2, <2>1 DEF K!InCategory
    <3>2. Cardinality(K!InCategory(selected, c)') = 0
      BY <3>1, FS_EmptySet
    <3>3. ASSUME ~Pending(c)' PROVE K!Quota(c) = 0
      <4>1. \A i \in 1 .. n : groups'[i] # K!Group(c)
        BY <2>1, <2>10, <3>3, InputsStay DEF Pending
      <4>2. c \notin W
        BY <2>1, <2>9, <4>1
      <4>3. ~(K!Quota(c) > 0)
        BY <4>2 DEF W, K!Wanted
      <4>4. QED
        BY <2>7, <4>3
    <3>4. QED
      BY <3>2, <3>3
  <2>17. GroupsRemain'
    <3>1. /\ K!Range(selected)' \subseteq K!Counted' /\ K!IsInjective(selected)'
      BY <1>2, <2>1 DEF K!Range, K!IsInjective
    <3>2. \A i \in DOMAIN groups' : \E c \in K!Wanted' : groups'[i] = K!Group(c)'
      BY <2>1, <2>14, InputsStay DEF W
    <3>3. \A c \in K!Categories' :
            Cardinality(K!InCategory(selected, c)') = IF Pending(c)' THEN 0 ELSE K!Quota(c)'
      BY <2>1, <2>16, InputsStay
    <3>4. QED
      BY <1>2, <2>1, <2>4, <2>10, <2>15, <3>1, <3>2, <3>3 DEF GroupsRemain
  <2>18. QED
    BY <2>11, <2>12, <2>13, <2>17
<1>5. QED
  BY <1>3, <1>4 DEF K!Quotas

LEMMA GroupsStay ==
  ASSUME GroupsRemain, UNCHANGED <<catalogue, args, phase, quotas, groups, selected>>
  PROVE  GroupsRemain'
<1>1. Shared' = Shared
  BY InputsStay DEF Shared
<1>2. \A c : Pending(c)' = Pending(c)
  BY InputsStay DEF Pending
<1>3. Enough(selected)' = Enough(selected)
  BY InputsStay DEF Enough, K!Range, K!IsInjective
<1>4. \A c : Cardinality(K!InCategory(selected, c))' = Cardinality(K!InCategory(selected, c))
  BY DEF K!InCategory
<1>5. (K!Range(selected) \subseteq K!Counted)' = (K!Range(selected) \subseteq K!Counted)
  BY InputsStay DEF K!Range
<1>6. (K!IsInjective(K!Candidates) => K!IsInjective(selected))'
        = (K!IsInjective(K!Candidates) => K!IsInjective(selected))
  BY InputsStay DEF K!IsInjective
<1>7. QED
  BY <1>1, <1>2, <1>3, <1>4, <1>5, <1>6, InputsStay DEF GroupsRemain

LEMMA BeginBatchKeeps == ASSUME SelectionInv, K!BeginBatch PROVE SelectionInv'
<1> USE DEF SelectionInv
<1>1. phase = "batch" /\ groups # <<>> /\ remaining = <<>> /\ batch = <<>>
  BY DEF K!BeginBatch
<1>2. CASE K!Fail
  BY <1>1, <1>2, FailKeeps
<1>3. CASE ~(Head(groups).size <= 0)
  <2> DEFINE Batches == [tasks : Seq(DOMAIN catalogue), size : Int]
             g == groups[1]
  <2>1. groups \in Seq(Batches) /\ Head(groups) = g /\ 1 \in DOMAIN groups /\ g \in Batches
    <3>1. groups \in Seq(Batches)
      BY DEF SelectionTyped
    <3> HIDE DEF Batches
    <3>2. QED
      BY <1>1, <3>1
  <2>2. g.tasks \in Seq(DOMAIN catalogue) /\ g.size \in Int
    BY <2>1
  <2>3. /\ remaining' = K!Sorted(g.tasks)
        /\ groups' = (IF remaining' = <<>> THEN Tail(groups) ELSE groups)
        /\ UNCHANGED <<catalogue, args, phase, quotas, batch, selected, wave, waves>>
    BY <1>3, <2>1 DEF K!BeginBatch
  <2>4. Described /\ DOMAIN catalogue \in SUBSET Nat
    BY CandidatesKnown DEF SelectionTyped
  <2>5. /\ remaining' \in Seq(DOMAIN catalogue) /\ Len(remaining') = Len(g.tasks)
        /\ K!Range(remaining') \subseteq K!Range(g.tasks)
        /\ K!IsInjective(g.tasks) => K!IsInjective(remaining')
    BY <2>2, <2>3, <2>4, SortedKeepsTasks
  <2>6. g.size > 0
    BY <1>3, <2>1, <2>2
  <2> HIDE DEF g
  <2>7. StagesFollow' /\ K!BatchIsAsAsked' /\ WavesGrow'
    BY <1>1, <2>3 DEF StagesFollow, K!BatchIsAsAsked, WavesGrow, K!NoSize
  <2>8. QuotasKnown'
    BY <2>3, InputsStay DEF QuotasKnown, Shared
  <2>9. CASE remaining' # <<>>
    <3>1. UNCHANGED groups
      BY <2>3, <2>9
    <3>2. SelectionTyped'
      BY <2>3, <2>5, <3>1, InputsStay DEF SelectionTyped
    <3>3. GroupsRemain'
      BY <2>3, <3>1, GroupsStay
    <3>4. K!IsInjective(batch) /\ K!Range(batch) = {} /\ Len(batch) = 0
      BY <1>1 DEF K!IsInjective, K!Range
    <3>5. BatchGrows'
      <4>1. Len(batch') = 0 /\ Len(batch') + Len(remaining') = Len(g.tasks) /\ Len(batch') <= g.size
        BY <2>2, <2>3, <2>5, <2>6, <3>4 DEF g
      <4>2. K!Range(batch') \cup K!Range(remaining') \subseteq K!Range(g.tasks)
        BY <2>3, <2>5, <3>4
      <4>3. K!IsInjective(g.tasks) => /\ K!IsInjective(batch') /\ K!IsInjective(remaining')
                                      /\ K!Range(batch') \cap K!Range(remaining') = {}
        BY <2>3, <2>5, <3>4
      <4>4. QED
        BY <1>1, <2>3, <2>6, <3>1, <4>1, <4>2, <4>3 DEF BatchGrows, g
    <3>6. QED
      BY <2>7, <2>8, <3>2, <3>3, <3>5
  <2>10. CASE remaining' = <<>>
    <3>1. groups' = Tail(groups) /\ g.tasks = <<>> /\ Len(g.tasks) = 0
      BY <2>2, <2>3, <2>5, <2>10
    <3>2. ~args.stratified
      <4> SUFFICES ASSUME args.stratified PROVE FALSE
        OBVIOUS
      <4>1. Shared /\ \E c \in K!Wanted : g = K!Group(c)
        BY <1>1, <2>1 DEF GroupsRemain, g
      <4>2. PICK c \in K!Wanted : g = K!Group(c)
        BY <4>1
      <4>3. K!Quota(c) > 0 /\ K!Quota(c) <= 0 /\ c \in K!Categories
        BY <2>4, <3>1, <4>1, <4>2, GroupsDiffer DEF Shared
      <4>4. K!Quota(c) \in Nat
        BY <2>4, <4>1, <4>3, QuotasAddUp DEF Shared
      <4>5. QED
        BY <4>3, <4>4
    <3>3. /\ quotas = <<>> /\ groups = <<[tasks |-> K!Candidates, size |-> args.size]>>
          /\ selected = <<>>
      BY <1>1, <3>2 DEF GroupsRemain
    <3>4. groups' = <<>> /\ g = [tasks |-> K!Candidates, size |-> args.size]
      BY <3>1, <3>3 DEF g
    <3>5. K!Candidates = <<>> /\ args.size > 0
      BY <2>6, <3>1, <3>4
    <3>6. Enough(selected)
      <4>1. K!Range(selected) = {} /\ K!IsInjective(selected) /\ Len(selected) = 0 /\ Len(K!Candidates) = 0
        BY <3>3, <3>5 DEF K!Range, K!IsInjective
      <4>2. QED
        BY <3>5, <4>1 DEF Enough
    <3>7. GroupsRemain'
      BY <2>3, <3>2, <3>3, <3>4, <3>6, InputsStay DEF GroupsRemain, Enough
    <3>8. BatchGrows'
      BY <1>1, <2>3, <2>10 DEF BatchGrows
    <3>9. SelectionTyped'
      <4>1. groups' \in Seq([tasks : Seq(DOMAIN catalogue), size : Int])
        <5> HIDE DEF Batches
        <5>1. groups' \in Seq(Batches)
          BY <3>4
        <5>2. QED
          BY <5>1 DEF Batches
      <4>2. QED
        BY <2>3, <2>5, <4>1, InputsStay DEF SelectionTyped
    <3>10. QED
      BY <2>7, <2>8, <3>7, <3>8, <3>9
  <2>11. QED
    BY <2>9, <2>10
<1>4. QED
  BY <1>2, <1>3 DEF K!BeginBatch

(* The place of the key that sorts first is one of the tasks that remain.  *)
LEMMA PenaltyIsBinary ==
  ASSUME NEW t, NEW s
  PROVE  K!Penalty(t, s) \in {0, 1}
  BY DEF K!Penalty

LEMMA KeysAreNumbers ==
  ASSUME SelectionTyped, NEW t \in DOMAIN catalogue
  PROVE  /\ K!FirstKey(t) \in Seq(Nat) /\ Len(K!FirstKey(t)) = 3
         /\ batch # <<>> => K!BatchKey(t) \in Seq(Nat) /\ Len(K!BatchKey(t)) = 4
         /\ wave # <<>> => K!WaveKey(t) \in Seq(Nat) /\ Len(K!WaveKey(t)) = 3
<1>1. Described /\ t \in Nat /\ catalogue[t].category \in Nat
  <2>1. Described
    BY DEF SelectionTyped
  <2>2. QED
    BY <2>1, CandidatesKnown, SelectionAssumption DEF Described
<1>2. \A a, b, c \in Nat : <<a, b, c>> \in Seq(Nat) /\ Len(<<a, b, c>>) = 3
  OBVIOUS
<1>3. \A a, b, c, d \in Nat : <<a, b, c, d>> \in Seq(Nat) /\ Len(<<a, b, c, d>>) = 4
  OBVIOUS
<1>4. K!FirstKey(t) \in Seq(Nat) /\ Len(K!FirstKey(t)) = 3
  <2>1. (IF "standard" \in catalogue[t].tags THEN 0 ELSE 1) \in Nat
    OBVIOUS
  <2>2. QED
    BY <1>1, <1>2, <2>1 DEF K!FirstKey
<1>5. ASSUME batch # <<>> PROVE K!BatchKey(t) \in Seq(Nat) /\ Len(K!BatchKey(t)) = 4
  <2>1. K!Closest(t, batch) \in Nat /\ K!Penalty(t, batch) \in Nat
    <3>1. batch \in Seq(DOMAIN catalogue)
      BY DEF SelectionTyped
    <3>2. K!Closest(t, batch) \in Nat
      BY <1>1, <1>5, <3>1, ClosestIsMost
    <3>3. K!Penalty(t, batch) \in {0, 1}
      BY PenaltyIsBinary
    <3>4. QED
      BY <3>2, <3>3
  <2>2. K!Alike(t) \in Nat
    <3> DEFINE S == K!InCategory(batch, catalogue[t].category)
    <3>1. S \in SUBSET (1 .. Len(batch)) /\ Len(batch) \in Nat
      BY DEF SelectionTyped, K!InCategory
    <3>2. IsFiniteSet(1 .. Len(batch))
      BY <3>1, FS_Interval
    <3> HIDE DEF S
    <3>3. Cardinality(S) \in Nat
      BY <3>1, <3>2, FS_Subset, FS_CardinalityType
    <3>4. QED
      BY <3>3, SelectionCounts DEF K!Alike, S
  <2>3. QED
    BY <1>1, <1>3, <2>1, <2>2 DEF K!BatchKey
<1>6. ASSUME wave # <<>> PROVE K!WaveKey(t) \in Seq(Nat) /\ Len(K!WaveKey(t)) = 3
  <2>1. K!Closest(t, wave) \in Nat /\ K!Penalty(t, wave) \in Nat
    <3>1. wave \in Seq(DOMAIN catalogue)
      BY DEF SelectionTyped
    <3>2. K!Closest(t, wave) \in Nat
      BY <1>1, <1>6, <3>1, ClosestIsMost
    <3>3. K!Penalty(t, wave) \in {0, 1}
      BY PenaltyIsBinary
    <3>4. QED
      BY <3>2, <3>3
  <2>2. QED
    BY <1>1, <1>2, <2>1 DEF K!WaveKey
<1>7. QED
  BY <1>4, <1>5, <1>6

LEMMA PickKeeps == ASSUME SelectionInv, K!Pick PROVE SelectionInv'
<1> USE DEF SelectionInv
<1> DEFINE Known == DOMAIN catalogue
           key == [k \in DOMAIN remaining |->
                    IF batch = <<>> THEN K!FirstKey(remaining[k]) ELSE K!BatchKey(remaining[k])]
           i == K!Least(key)
           m == IF batch = <<>> THEN 3 ELSE 4
           g == groups[1]
<1>1. /\ phase = "batch" /\ remaining # <<>> /\ Len(batch) < Head(groups).size
      /\ batch' = Append(batch, remaining[i]) /\ remaining' = K!RemoveAt(remaining, i)
      /\ UNCHANGED <<catalogue, args, phase, quotas, groups, selected, wave, waves>>
  BY DEF K!Pick, K!Without
<1>2. /\ remaining \in Seq(Known) /\ DOMAIN remaining = 1 .. Len(remaining) /\ Len(remaining) \in Nat \ {0}
      /\ \A k \in 1 .. Len(remaining) : remaining[k] \in Known
  <2>1. remaining \in Seq(Known)
    BY DEF SelectionTyped
  <2> HIDE DEF Known
  <2>2. QED
    BY <1>1, <2>1
<1>3. \A k \in 1 .. Len(remaining) : key[k] \in Seq(Nat) /\ Len(key[k]) = m
  BY <1>2, KeysAreNumbers
<1>4. i \in 1 .. Len(remaining)
  <2>1. DOMAIN key = 1 .. Len(remaining)
    BY <1>2
  <2> HIDE DEF key
  <2>2. key \in Seq(Seq(Nat)) /\ Len(key) = Len(remaining)
    <3>1. key = [k \in 1 .. Len(remaining) |-> key[k]]
      BY <2>1 DEF key
    <3>2. QED
      BY <1>2, <1>3, <2>1, <3>1
  <2>3. m \in {3, 4}
    OBVIOUS
  <2> HIDE DEF m
  <2>4. QED
    BY <1>2, <1>3, <2>2, <2>3, LeastIsFirst
<1> HIDE DEF i, key
<1>5. batch \in Seq(Known)
  BY DEF SelectionTyped
<1>6. /\ batch' \in Seq(Known) /\ remaining' \in Seq(Known)
      /\ Len(batch') = Len(batch) + 1 /\ Len(remaining') = Len(remaining) - 1
      /\ K!Range(batch') = K!Range(batch) \cup {remaining[i]} /\ remaining[i] \in K!Range(remaining)
      /\ K!Range(remaining') \subseteq K!Range(remaining)
      /\ Disjoint(batch, remaining) => Disjoint(batch', remaining')
  <2> DEFINE b1 == batch'
             r1 == remaining'
  <2>1. b1 = Append(batch, remaining[i]) /\ r1 = K!RemoveAt(remaining, i)
    BY <1>1
  <2>2. batch \in Seq(Known) /\ remaining \in Seq(Known) /\ i \in 1 .. Len(remaining)
    BY <1>2, <1>4, <1>5
  <2> HIDE DEF b1, r1, Known
  <2>3. Moved(Known, batch, remaining, i, b1, r1)
    BY <2>1, <2>2, MovedToTheOther
  <2>4. QED
    BY <2>3 DEF Moved, b1, r1
<1>7. /\ groups # <<>> /\ groups[1].size > 0
      /\ Len(batch) + Len(remaining) = Len(groups[1].tasks)
      /\ K!Range(batch) \cup K!Range(remaining) \subseteq K!Range(groups[1].tasks)
      /\ K!IsInjective(groups[1].tasks) => Disjoint(batch, remaining)
  BY <1>1 DEF BatchGrows, Disjoint
<1>8. Head(groups) = groups[1] /\ groups[1].size \in Int
  <2> DEFINE Batches == [tasks : Seq(DOMAIN catalogue), size : Int]
  <2>1. groups \in Seq(Batches)
    BY DEF SelectionTyped
  <2>2. \A x \in Batches : x.size \in Int
    OBVIOUS
  <2> HIDE DEF Batches
  <2>3. Head(groups) = groups[1] /\ groups[1] \in Batches
    BY <1>7, <2>1
  <2>4. QED
    BY <2>2, <2>3
<1>9. SelectionTyped'
  BY <1>1, <1>6, InputsStay DEF SelectionTyped
<1>10. StagesFollow' /\ QuotasKnown' /\ K!BatchIsAsAsked' /\ WavesGrow'
  <2>1. StagesFollow'
    BY <1>1 DEF StagesFollow, K!NoSize
  <2>2. QuotasKnown'
    BY <1>1, InputsStay DEF QuotasKnown, Shared
  <2>3. K!BatchIsAsAsked' /\ WavesGrow'
    BY <1>1 DEF K!BatchIsAsAsked, WavesGrow
  <2>4. QED
    BY <2>1, <2>2, <2>3
<1>11. GroupsRemain'
  BY <1>1, GroupsStay
<1>12. BatchGrows'
  <2>1. Len(batch) \in Nat /\ Len(remaining) \in Nat
    BY <1>2, <1>5
  <2>2. Len(batch') + Len(remaining') = Len(groups[1].tasks)
    BY <1>6, <1>7, <2>1
  <2>6. Len(batch') <= groups[1].size
    <3>1. Len(batch) < groups[1].size
      BY <1>1, <1>8
    <3>2. QED
      BY <1>6, <1>8, <2>1, <3>1
  <2>3. K!Range(batch') \cup K!Range(remaining') \subseteq K!Range(groups[1].tasks)
    BY <1>6, <1>7
  <2>4. K!IsInjective(groups[1].tasks) => Disjoint(batch', remaining')
    BY <1>6, <1>7
  <2>5. QED
    BY <1>1, <1>7, <2>2, <2>3, <2>4, <2>6 DEF BatchGrows, Disjoint
<1>13. QED
  BY <1>9, <1>10, <1>11, <1>12

LEMMA EndBatchKeeps == ASSUME SelectionInv, K!EndBatch PROVE SelectionInv'
<1> USE DEF SelectionInv
<1> DEFINE Known == DOMAIN catalogue
           Batches == [tasks : Seq(Known), size : Int]
           g == groups[1]
<1>1. /\ phase = "batch" /\ batch # <<>> /\ (remaining = <<>> \/ Len(batch) >= Head(groups).size)
      /\ selected' = selected \o batch /\ groups' = Tail(groups) /\ remaining' = <<>> /\ batch' = <<>>
      /\ UNCHANGED <<catalogue, args, phase, quotas, wave, waves>>
  BY DEF K!EndBatch
<1>2. /\ groups # <<>> /\ g.size > 0
      /\ Len(batch) + Len(remaining) = Len(g.tasks) /\ Len(batch) <= g.size
      /\ K!Range(batch) \subseteq K!Range(g.tasks)
      /\ K!IsInjective(g.tasks) => K!IsInjective(batch)
  BY <1>1 DEF BatchGrows
<1>3. Described /\ batch \in Seq(Known) /\ selected \in Seq(Known) /\ remaining \in Seq(Known) /\ groups \in Seq(Batches)
  BY DEF SelectionTyped
<1>4. /\ Head(groups) = g /\ g \in Batches /\ Tail(groups) \in Seq(Batches) /\ DOMAIN groups = 1 .. Len(groups)
      /\ Len(groups) \in Nat \ {0} /\ Len(Tail(groups)) = Len(groups) - 1
      /\ \A k \in 1 .. Len(groups) - 1 : Tail(groups)[k] = groups[k + 1]
  <2> HIDE DEF Batches
  <2>1. QED
    BY <1>2, <1>3
<1>5. g.tasks \in Seq(Known) /\ g.size \in Int
  BY <1>4
<1>6. /\ Len(batch) = (IF g.size > Len(g.tasks) THEN Len(g.tasks) ELSE g.size)
      /\ DOMAIN batch = 1 .. Len(batch) /\ Len(batch) \in Nat
  <2>1. Len(batch) \in Nat /\ Len(remaining) \in Nat /\ Len(g.tasks) \in Nat
        /\ DOMAIN batch = 1 .. Len(batch)
    <3> HIDE DEF Known, g
    <3>1. QED
      BY <1>3, <1>5
  <2>2. Len(batch) = Len(g.tasks) \/ Len(batch) = g.size
    <3>1. CASE remaining = <<>>
      <4>1. Len(remaining) = 0
        BY <3>1
      <4>2. QED
        BY <1>2, <2>1, <4>1
    <3>2. CASE Len(batch) >= g.size
      BY <1>2, <1>5, <2>1, <3>2
    <3>3. QED
      BY <1>1, <1>4, <3>1, <3>2
  <2>3. Len(batch) <= Len(g.tasks)
    BY <1>2, <2>1
  <2>4. QED
    BY <1>2, <1>5, <2>1, <2>2, <2>3
<1>7. /\ selected' \in Seq(Known) /\ Len(selected') = Len(selected) + Len(batch)
      /\ K!Range(selected') = K!Range(selected) \cup K!Range(batch)
      /\ Disjoint(selected, batch) => K!IsInjective(selected')
      /\ \A c : Cardinality(K!InCategory(selected', c)) =
                  Cardinality(K!InCategory(selected, c)) + Cardinality(K!InCategory(batch, c))
  BY <1>1, <1>3, JoinedTogether
<1>8. DOMAIN groups' = 1 .. Len(groups) - 1 /\ \A k \in 1 .. Len(groups) - 1 : groups'[k] = groups[k + 1]
  <2> DEFINE q == Tail(groups)
  <2>1. q \in Seq(Batches) /\ Len(q) = Len(groups) - 1 /\ \A k \in 1 .. Len(groups) - 1 : q[k] = groups[k + 1]
    BY <1>4
  <2> HIDE DEF q, Batches
  <2>2. DOMAIN q = 1 .. Len(groups) - 1
    BY <2>1
  <2>3. QED
    BY <1>1, <2>1, <2>2 DEF q
<1> HIDE DEF g
<1>9. SelectionTyped'
  <2>1. groups' \in Seq([tasks : Seq(DOMAIN catalogue), size : Int])
    BY <1>1, <1>4
  <2>2. <<>> \in Seq(DOMAIN catalogue)
    OBVIOUS
  <2>3. QED
    BY <1>1, <1>7, <2>1, <2>2, InputsStay DEF SelectionTyped
<1>10. StagesFollow' /\ QuotasKnown' /\ K!BatchIsAsAsked' /\ WavesGrow' /\ BatchGrows'
  <2>1. StagesFollow'
    BY <1>1 DEF StagesFollow, K!NoSize
  <2>2. QuotasKnown'
    BY <1>1, InputsStay DEF QuotasKnown, Shared
  <2>3. K!BatchIsAsAsked' /\ WavesGrow' /\ BatchGrows'
    BY <1>1 DEF K!BatchIsAsAsked, WavesGrow, BatchGrows
  <2>4. QED
    BY <2>1, <2>2, <2>3
<1>11. CASE ~args.stratified
  <2>1. /\ quotas = <<>> /\ groups = <<[tasks |-> K!Candidates, size |-> args.size]>>
        /\ selected = <<>>
    BY <1>1, <1>2, <1>11 DEF GroupsRemain
  <2>2. groups' = <<>> /\ g.tasks = K!Candidates /\ g.size = args.size
    BY <1>1, <2>1 DEF g
  <2>3. K!Range(selected) = {} /\ K!IsInjective(selected) /\ Len(selected) = 0
    BY <2>1 DEF K!Range, K!IsInjective
  <2>4. K!Range(selected') \subseteq K!Counted
    BY <1>2, <1>7, <2>2, <2>3 DEF K!Counted
  <2>5. Len(selected') = IF args.size > Len(K!Candidates) THEN Len(K!Candidates) ELSE args.size
    BY <1>6, <1>7, <2>2, <2>3
  <2>6. K!IsInjective(K!Candidates) => K!IsInjective(selected')
    BY <1>2, <1>7, <2>2, <2>3 DEF Disjoint
  <2>7. Enough(selected')
    BY <2>4, <2>5, <2>6 DEF Enough
  <2>8. Enough(selected)'
    BY <1>1, <2>7, InputsStay DEF Enough, K!Range, K!IsInjective
  <2>9. GroupsRemain'
    BY <1>1, <1>11, <2>1, <2>2, <2>8 DEF GroupsRemain
  <2>10. QED
    BY <1>9, <1>10, <2>9
<1>12. CASE args.stratified
  <2>1. /\ Shared
        /\ \A i \in DOMAIN groups : \E c \in K!Wanted : groups[i] = K!Group(c)
        /\ \A i, j \in DOMAIN groups : groups[i] = groups[j] => i = j
        /\ \A c \in K!Categories :
             Cardinality(K!InCategory(selected, c)) = IF Pending(c) THEN 0 ELSE K!Quota(c)
        /\ K!Range(selected) \subseteq K!Counted
        /\ K!IsInjective(K!Candidates) => K!IsInjective(selected)
    BY <1>1, <1>12 DEF GroupsRemain
  <2>2. 1 \in DOMAIN groups
    BY <1>4
  <2>3. PICK c \in K!Wanted : g = K!Group(c)
    BY <2>1, <2>2 DEF g
  <2>4. SizeFits
    BY <2>1 DEF Shared
  <2>5. /\ c \in K!Categories /\ K!Quota(c) <= Len(g.tasks) /\ g.size = K!Quota(c)
        /\ \A d \in K!Categories : K!Group(d) = g => d = c
    BY <1>3, <2>3, <2>4, GroupsDiffer, GroupKnown
  <2>6. \A k \in 1 .. Len(g.tasks) : g.tasks[k] \in K!Counted /\ catalogue[g.tasks[k]].category = c
    BY <1>3, <2>3, GroupKnown
  <2>7. \A t \in K!Range(g.tasks) : t \in K!Counted /\ catalogue[t].category = c
    <3>1. DOMAIN g.tasks = 1 .. Len(g.tasks)
      <4> HIDE DEF Known
      <4>1. QED
        BY <1>5
    <3>2. QED
      BY <2>6, <3>1 DEF K!Range
  <2>8. Len(batch) = K!Quota(c)
    <3>1. K!Quota(c) \in Nat /\ Len(g.tasks) \in Nat
      BY <1>3, <1>5, <2>4, <2>5, QuotasAddUp
    <3>2. QED
      BY <1>6, <2>5, <3>1
  <2>9. \A k \in 1 .. Len(batch) : catalogue[batch[k]].category = c
    <3>1. \A k \in 1 .. Len(batch) : batch[k] \in K!Range(g.tasks)
      BY <1>2, <1>6 DEF K!Range
    <3>2. QED
      BY <2>7, <3>1
  <2>10. K!InCategory(batch, c) = 1 .. Len(batch)
         /\ \A d \in K!Categories : d # c => K!InCategory(batch, d) = {}
    BY <1>6, <2>9 DEF K!InCategory
  <2>11. /\ Cardinality(K!InCategory(batch, c)) = K!Quota(c)
         /\ \A d \in K!Categories : d # c => Cardinality(K!InCategory(batch, d)) = 0
    <3>1. \A k \in Nat : Cardinality(1 .. k) = k
      BY FS_Interval
    <3>2. Cardinality({}) = 0
      BY FS_EmptySet
    <3>3. QED
      BY <1>6, <2>8, <2>10, <3>1, <3>2
  <2>12. Pending(c)
    BY <2>2, <2>3 DEF Pending, g
  <2>13. \A k \in 1 .. Len(groups) - 1 : k + 1 \in DOMAIN groups /\ k + 1 # 1
    BY <1>4
  <2>14. ~\E k \in 1 .. Len(groups) - 1 : groups'[k] = K!Group(c)
    <3> SUFFICES ASSUME NEW k \in 1 .. Len(groups) - 1, groups'[k] = K!Group(c) PROVE FALSE
      OBVIOUS
    <3>1. groups[k + 1] = groups[1]
      BY <1>8, <2>3 DEF g
    <3>2. QED
      BY <2>1, <2>2, <2>13, <3>1
  <2>15. ASSUME NEW d \in K!Categories, d # c
         PROVE  (\E k \in 1 .. Len(groups) - 1 : groups'[k] = K!Group(d)) <=> Pending(d)
    <3>1. groups[1] # K!Group(d)
      BY <2>5, <2>15 DEF g
    <3>2. ASSUME NEW i \in DOMAIN groups, groups[i] = K!Group(d)
          PROVE  \E k \in 1 .. Len(groups) - 1 : groups'[k] = K!Group(d)
      <4>1. i # 1 /\ i \in 1 .. Len(groups)
        BY <1>4, <3>1, <3>2
      <4>2. PICK k \in Int : k = i - 1
        BY <1>4, <4>1
      <4>3. k \in 1 .. Len(groups) - 1 /\ k + 1 = i
        BY <1>4, <4>1, <4>2
      <4>4. groups'[k] = K!Group(d)
        BY <1>8, <3>2, <4>3
      <4>5. QED
        BY <4>3, <4>4
    <3>3. ASSUME NEW k \in 1 .. Len(groups) - 1, groups'[k] = K!Group(d) PROVE Pending(d)
      BY <1>8, <2>13, <3>3 DEF Pending
    <3>4. QED
      BY <3>2, <3>3 DEF Pending
  <2>16. \A d : Pending(d)' <=> \E k \in 1 .. Len(groups) - 1 : groups'[k] = K!Group(d)
    BY <1>1, <1>8, InputsStay DEF Pending
  <2>17. \A d : Cardinality(K!InCategory(selected, d))' = Cardinality(K!InCategory(selected', d))
    BY <1>1 DEF K!InCategory
  <2>18. ASSUME NEW d \in K!Categories
         PROVE  Cardinality(K!InCategory(selected', d)) = IF Pending(d)' THEN 0 ELSE K!Quota(d)
    <3>1. K!Quota(d) \in Nat /\ K!Quota(c) \in Nat
      BY <1>3, <2>4, <2>5, QuotasAddUp
    <3>2. CASE d = c
      <4>1. ~Pending(d)'
        BY <2>14, <2>16, <3>2
      <4>2. Cardinality(K!InCategory(selected, d)) = 0
        BY <2>1, <2>5, <2>12, <3>2
      <4>3. QED
        BY <1>7, <2>11, <3>1, <3>2, <4>1, <4>2
    <3>3. CASE d # c
      <4>1. Pending(d)' <=> Pending(d)
        BY <2>15, <2>16, <3>3
      <4>2. Cardinality(K!InCategory(selected, d)) = IF Pending(d) THEN 0 ELSE K!Quota(d)
        BY <2>1
      <4>3. Cardinality(K!InCategory(batch, d)) = 0
        BY <2>11, <3>3
      <4>4. QED
        BY <1>7, <3>1, <4>1, <4>2, <4>3
    <3>4. QED
      BY <3>2, <3>3
  <2>19. K!Range(selected') \subseteq K!Counted
    BY <1>2, <1>7, <2>1, <2>7
  <2>20. K!Range(selected) \cap K!Range(batch) = {}
    <3>1. K!InCategory(selected, c) = {}
      <4>1. Cardinality(K!InCategory(selected, c)) = 0
        BY <2>1, <2>5, <2>12
      <4>2. IsFiniteSet(K!InCategory(selected, c))
        <5>1. Len(selected) \in Nat /\ DOMAIN selected = 1 .. Len(selected)
          <6> HIDE DEF Known
          <6>1. QED
            BY <1>3
        <5>2. IsFiniteSet(1 .. Len(selected))
          BY <5>1, FS_Interval
        <5>3. K!InCategory(selected, c) \in SUBSET (1 .. Len(selected))
          BY <5>1 DEF K!InCategory
        <5>4. QED
          BY <5>2, <5>3, FS_Subset
      <4>3. QED
        BY <4>1, <4>2, FS_EmptySet
    <3>2. \A t \in K!Range(selected) : catalogue[t].category # c
      BY <3>1 DEF K!InCategory, K!Range
    <3>3. QED
      BY <1>2, <2>7, <3>2
  <2>21. K!IsInjective(K!Candidates) => K!IsInjective(selected')
    <3>1. K!IsInjective(K!Candidates) => K!IsInjective(g.tasks)
      BY <1>3, <2>3, GroupKnown
    <3>2. QED
      BY <1>2, <1>7, <2>1, <2>20, <3>1 DEF Disjoint
  <2>22. GroupsRemain'
    <3>1. Shared'
      BY <1>1, <2>1, InputsStay DEF Shared
    <3>2. \A i \in DOMAIN groups' : \E d \in K!Wanted' : groups'[i] = K!Group(d)'
      <4> SUFFICES ASSUME NEW i \in 1 .. Len(groups) - 1 PROVE \E d \in K!Wanted : groups'[i] = K!Group(d)
        BY <1>1, <1>8, InputsStay
      <4>1. QED
        BY <1>8, <2>1, <2>13
    <3>3. \A i, j \in DOMAIN groups' : groups'[i] = groups'[j] => i = j
      <4> SUFFICES ASSUME NEW i \in 1 .. Len(groups) - 1, NEW j \in 1 .. Len(groups) - 1,
                          groups'[i] = groups'[j]
                   PROVE  i = j
        BY <1>8
      <4>1. i + 1 = j + 1
        BY <1>8, <2>1, <2>13
      <4>2. QED
        BY <1>4, <4>1
    <3>4. \A d \in K!Categories' :
            Cardinality(K!InCategory(selected, d))' = IF Pending(d)' THEN 0 ELSE K!Quota(d)'
      BY <1>1, <2>17, <2>18, InputsStay
    <3>5. (K!Range(selected) \subseteq K!Counted)'
      BY <1>1, <2>19, InputsStay DEF K!Range
    <3>6. (K!IsInjective(K!Candidates) => K!IsInjective(selected))'
      BY <1>1, <2>21, InputsStay DEF K!IsInjective
    <3>7. QED
      BY <1>1, <1>12, <3>1, <3>2, <3>3, <3>4, <3>5, <3>6 DEF GroupsRemain
  <2>23. QED
    BY <1>9, <1>10, <2>22
<1>13. QED
  BY <1>11, <1>12

LEMMA BatchesDoneKeeps == ASSUME SelectionInv, K!BatchesDone PROVE SelectionInv'
<1> USE DEF SelectionInv
<1>1. /\ phase = "batch" /\ groups = <<>> /\ phase' = "plan"
      /\ UNCHANGED <<catalogue, args, quotas, groups, remaining, batch, selected, wave, waves>>
  BY DEF K!BatchesDone
<1>2. remaining = <<>> /\ batch = <<>>
  BY <1>1 DEF BatchGrows
<1>3. Described /\ selected \in Seq(DOMAIN catalogue)
  BY DEF SelectionTyped
<1>4. SelectionTyped'
  BY <1>1, InputsStay DEF SelectionTyped
<1>5. StagesFollow' /\ QuotasKnown' /\ GroupsRemain' /\ BatchGrows' /\ WavesGrow'
  <2>1. StagesFollow'
    BY <1>1, <1>2 DEF StagesFollow, K!NoSize
  <2>2. QuotasKnown'
    BY <1>1, InputsStay DEF QuotasKnown, Shared
  <2>3. GroupsRemain' /\ BatchGrows' /\ WavesGrow'
    BY <1>1 DEF GroupsRemain, BatchGrows, WavesGrow
  <2>4. QED
    BY <2>1, <2>2, <2>3
<1>6. args.size # K!NoSize
  BY <1>1 DEF StagesFollow
<1>7. Len(K!Candidates) \in Nat
  <2>1. K!Candidates \in Seq(DOMAIN catalogue)
    BY <1>3, CandidatesKnown
  <2>2. QED
    BY <2>1
<1>8. /\ K!Range(selected) \subseteq K!Counted
      /\ Len(selected) = IF args.size > Len(K!Candidates) THEN Len(K!Candidates) ELSE args.size
      /\ K!IsInjective(K!Candidates) => K!IsInjective(selected)
      /\ \A c \in DOMAIN quotas : Cardinality(K!InCategory(selected, c)) = quotas[c]
  <2>1. CASE ~args.stratified
    <3>1. quotas = <<>> /\ Enough(selected)
      BY <1>1, <2>1 DEF GroupsRemain
    <3>2. \A c \in DOMAIN quotas : FALSE
      BY <3>1
    <3>3. QED
      BY <3>1, <3>2 DEF Enough
  <2>2. CASE args.stratified
    <3> DEFINE C == K!Categories
               T == 1 .. Len(selected)
               cat == [i \in T |-> catalogue[selected[i]].category]
               q == [c \in C |-> K!Quota(c)]
    <3>1. /\ Shared /\ K!Range(selected) \subseteq K!Counted
          /\ \A c \in C : Cardinality(K!InCategory(selected, c)) = IF Pending(c) THEN 0 ELSE K!Quota(c)
          /\ K!IsInjective(K!Candidates) => K!IsInjective(selected)
      BY <1>1, <2>2 DEF GroupsRemain
    <3>2. \A c : ~Pending(c)
      BY <1>1 DEF Pending
    <3>3. SizeFits /\ quotas = q
      BY <3>1 DEF Shared
    <3>4. Len(selected) \in Nat /\ DOMAIN selected = T
      BY <1>3
    <3>5. IsFiniteSet(C)
      BY <1>3, CategoriesAreFinite
    <3>6. IsFiniteSet(T) /\ Cardinality(T) = Len(selected)
      <4>1. \A k \in Nat : IsFiniteSet(1 .. k) /\ Cardinality(1 .. k) = k
        BY FS_Interval
      <4>2. QED
        BY <3>4, <4>1
    <3>7. cat \in [T -> C]
      <4>1. \A i \in T : selected[i] \in K!Counted
        BY <3>1, <3>4 DEF K!Range
      <4>2. \A i \in T : catalogue[selected[i]].category \in C
        BY <4>1 DEF K!Categories
      <4> HIDE DEF C, T
      <4>3. QED
        BY <4>2
    <3>8. \A c \in C : K!InCategory(selected, c) = {t \in T : cat[t] = c}
      BY <3>4 DEF K!InCategory
    <3> HIDE DEF C, T, cat
    <3>9. q = [c \in C |-> Cardinality({t \in T : cat[t] = c})]
      BY <3>1, <3>2, <3>8 DEF C
    <3>10. Total(q) = args.size
      BY <1>3, <3>3, QuotasAddUp DEF C
    <3> HIDE DEF q
    <3>11. Total(q) = Cardinality(T)
      <4>1. IsFiniteSet(T)
        BY <3>6
      <4> HIDE DEF SelectionInv
      <4>2. QED
        BY <3>5, <3>7, <3>9, <4>1, PartsAddUp
    <3>12. Len(selected) = args.size
      BY <3>6, <3>10, <3>11
    <3>13. ~(args.size > Len(K!Candidates))
      BY <1>3, <1>7, <3>3, CandidatesKnown DEF SizeFits
    <3>14. \A c \in DOMAIN quotas : Cardinality(K!InCategory(selected, c)) = quotas[c]
      BY <3>1, <3>2, <3>3 DEF q, C
    <3>15. QED
      BY <3>1, <3>12, <3>13, <3>14
  <2>3. QED
    BY <2>1, <2>2
<1>9. K!BatchIsAsAsked'
  <2>1. \A c : K!Cardinality(K!InCategory(selected, c)) = Cardinality(K!InCategory(selected, c))
    BY SelectionCounts
  <2>2. \A c : K!Cardinality(K!InCategory(selected, c))' = Cardinality(K!InCategory(selected, c))
    BY <1>1, <2>1 DEF K!InCategory
  <2>3. /\ (K!Range(selected) \subseteq K!Counted)'
        /\ (K!IsInjective(K!Candidates) => K!IsInjective(selected))'
    BY <1>1, <1>8, InputsStay DEF K!Range, K!IsInjective
  <2>4. Len(selected') = IF args.size > Len(K!Candidates) THEN Len(K!Candidates) ELSE args.size
    BY <1>1, <1>8
  <2>5. QED
    BY <1>1, <1>6, <1>8, <2>2, <2>3, <2>4, InputsStay DEF K!BatchIsAsAsked, K!NoSize
<1>10. QED
  BY <1>4, <1>5, <1>9

(* ------------------------------------------------------------------------*)
(* The waves.                                                              *)
(* ------------------------------------------------------------------------*)
LEMMA WaveSizeKnown ==
  ASSUME SelectionTyped
  PROVE  K!WaveSize \in Int /\ K!WaveSize <= args.workers /\ K!WaveSize <= Len(selected)
<1> DEFINE a == args.workers
           b == Len(selected)
           S == {a, b}
<1>1. a \in Int /\ b \in Int
  <2>1. Described /\ selected \in Seq(DOMAIN catalogue)
    BY DEF SelectionTyped
  <2>2. args.workers \in Workers
    BY <2>1 DEF Described
  <2>3. args.workers \in Int
    BY <2>2, SelectionAssumption
  <2>4. Len(selected) \in Nat
    BY <2>1
  <2>5. QED
    BY <2>3, <2>4
<1>2. \E x \in S : \A y \in S : x <= y
  <2> HIDE DEF a, b
  <2>1. QED
    BY <1>1
<1>3. K!WaveSize = CHOOSE x \in S : \A y \in S : x <= y
  BY DEF K!WaveSize, K!Min
<1> DEFINE n == CHOOSE x \in S : \A y \in S : x <= y
<1>4. n \in S /\ \A y \in S : n <= y
  <2> HIDE DEF S
  <2>1. QED
    BY <1>2
<1> HIDE DEF n
<1>5. n \in Int /\ n <= a /\ n <= b
  <2> HIDE DEF a, b
  <2>1. QED
    BY <1>1, <1>4
<1>6. K!WaveSize = n
  BY <1>3 DEF n
<1>7. QED
  BY <1>5, <1>6

(* What is said of waves depends on the inputs and the batch only.         *)
LEMMA WavesStay ==
  ASSUME UNCHANGED <<catalogue, args, selected>>
  PROVE  /\ K!WaveSize' = K!WaveSize
         /\ Kept(wave', remaining', waves') => Kept(wave, remaining, waves)'
<1>1. K!WaveSize' = K!WaveSize
  BY DEF K!WaveSize
<1>2. \A t, u : K!Score(t, u)' = K!Score(t, u)
  BY InputsStay
<1>3. args' = args /\ selected' = selected
  OBVIOUS
<1>4. Disjoint(wave, remaining)' <=> Disjoint(wave', remaining')
  BY DEF Disjoint, K!Range, K!IsInjective
<1>5. AllKept(wave, remaining, waves)' <=> AllKept(wave', remaining', waves')
  BY DEF AllKept, K!Range
<1>6. \A s : Apart(s)' <=> Apart(s)
  BY <1>1, <1>2, <1>3 DEF Apart, K!Range, K!IsInjective
<1>7. \A t, s : Refused(t, s)' <=> Refused(t, s)
  BY <1>1, <1>2, <1>3 DEF Refused, K!Range
<1>8. EachApart(wave, waves)' <=> EachApart(wave', waves')
  <2>1. Apart(wave)' <=> Apart(wave')
    BY <1>1, <1>2, <1>3 DEF Apart, K!Range, K!IsInjective
  <2>2. (\A w \in DOMAIN waves : Apart(waves[w]))' <=> \A w \in DOMAIN waves' : Apart(waves'[w])
    <3>1. ASSUME NEW w \in DOMAIN waves' PROVE Apart(waves[w])' <=> Apart(waves'[w])
      BY <1>1, <1>2, <1>3 DEF Apart, K!Range, K!IsInjective
    <3>2. QED
      BY <3>1
  <2>3. QED
    BY <2>1, <2>2 DEF EachApart
<1>9. NoneFits(wave, remaining, waves)' <=> NoneFits(wave', remaining', waves')
  <2>1. \A t, w : Refused(t, waves[w])' <=> Refused(t, waves'[w])
    BY <1>1, <1>2, <1>3 DEF Refused, K!Range
  <2>2. QED
    BY <2>1 DEF NoneFits, K!Range
<1>10. QED
  BY <1>1, <1>4, <1>5, <1>8, <1>9 DEF Kept

(* A task that moves from what remains to the wave stays ahead.            *)
LEMMA MovesAhead ==
  ASSUME NEW Known, NEW i, NEW a, NEW r, Moved(Known, wave, remaining, i, a, r),
         Kept(wave, remaining, waves), Apart(a)
  PROVE  Kept(a, r, waves)
<1>1. K!Range(a) \cup K!Range(r) = K!Range(wave) \cup K!Range(remaining)
  BY DEF Moved
<1>2. Disjoint(a, r)
  BY DEF Moved, Kept
<1>3. AllKept(a, r, waves)
  <2>1. \A S : S \cup K!Range(a) \cup K!Range(r) = S \cup K!Range(wave) \cup K!Range(remaining)
    BY <1>1
  <2>2. QED
    BY <2>1 DEF Kept, AllKept
<1>4. EachApart(a, waves)
  BY DEF Kept, EachApart
<1>5. NoneFits(a, r, waves)
  BY <1>1 DEF Kept, NoneFits
<1>6. QED
  BY <1>2, <1>3, <1>4, <1>5 DEF Kept

(* In a step of the waves, the rest is as before.                          *)
LEMMA BatchStays ==
  ASSUME SelectionInv, phase \in {"plan", "wave"}, phase' \in {"wave", "done"},
         UNCHANGED <<catalogue, args, quotas, groups, batch, selected>>,
         remaining' \in Seq(DOMAIN catalogue), wave' \in Seq(DOMAIN catalogue),
         waves' \in Seq(Seq(DOMAIN catalogue)), WavesGrow',
         phase' = "wave" \/ wave' = <<>>
  PROVE  SelectionInv'
<1> USE DEF SelectionInv
<1>1. SelectionTyped'
  BY InputsStay DEF SelectionTyped
<1>2. StagesFollow'
  BY DEF StagesFollow
<1>3. QuotasKnown'
  BY InputsStay DEF QuotasKnown, Shared
<1>4. GroupsRemain' /\ BatchGrows'
  BY DEF GroupsRemain, BatchGrows
<1>5. K!BatchIsAsAsked'
  <2>1. \A c : K!Cardinality(K!InCategory(selected, c))' = K!Cardinality(K!InCategory(selected, c))
    BY DEF K!InCategory
  <2>2. (K!Range(selected) \subseteq K!Counted)' = (K!Range(selected) \subseteq K!Counted)
    BY InputsStay DEF K!Range
  <2>3. (K!IsInjective(K!Candidates) => K!IsInjective(selected))'
          = (K!IsInjective(K!Candidates) => K!IsInjective(selected))
    BY InputsStay DEF K!IsInjective
  <2>4. K!BatchIsAsAsked /\ phase \in {"plan", "wave", "done"}
    OBVIOUS
  <2>5. QED
    BY <2>1, <2>2, <2>3, <2>4, InputsStay DEF K!BatchIsAsAsked, K!NoSize
<1>6. QED
  BY <1>1, <1>2, <1>3, <1>4, <1>5

LEMMA PlanKeeps == ASSUME SelectionInv, K!Plan PROVE SelectionInv'
<1>1. phase = "plan"
  BY DEF K!Plan
<1>2. /\ remaining = <<>> /\ batch = <<>> /\ wave = <<>> /\ waves = <<>>
      /\ selected \in Seq(DOMAIN catalogue) /\ SelectionTyped
  BY <1>1 DEF SelectionInv, StagesFollow, SelectionTyped
<1>3. CASE K!Fail
  BY <1>1, <1>2, <1>3, FailKeeps
<1>4. CASE /\ K!WaveSize <= 1 \/ ~args.diverse
           /\ waves' = <<selected>> /\ phase' = "done" /\ UNCHANGED remaining
           /\ UNCHANGED <<catalogue, args, quotas, groups, batch, selected, wave>>
  <2>1. waves' \in Seq(Seq(DOMAIN catalogue)) /\ <<>> \in Seq(DOMAIN catalogue)
    <3>1. \A S, x : x \in S => <<x>> \in Seq(S)
      OBVIOUS
    <3>2. QED
      BY <1>2, <1>4, <3>1
  <2>2. WavesGrow'
    <3>1. K!WaveSize' = K!WaveSize
      BY <1>4, WavesStay
    <3>2. ~(K!WaveSize > 1 /\ args.diverse)
      BY <1>2, <1>4, WaveSizeKnown
    <3>3. QED
      BY <1>4, <3>1, <3>2 DEF WavesGrow
  <2>3. QED
    BY <1>1, <1>2, <1>4, <2>1, <2>2, BatchStays
<1>5. CASE /\ K!WaveSize > 1 /\ args.diverse /\ K!IsInjective(selected)
           /\ remaining' = selected /\ phase' = "wave" /\ UNCHANGED waves
           /\ UNCHANGED <<catalogue, args, quotas, groups, batch, selected, wave>>
  <2>1. K!WaveSize' = K!WaveSize
    BY <1>5, WavesStay
  <2>2. K!Range(wave) = {} /\ K!IsInjective(wave) /\ Len(wave) = 0 /\ wave' = wave /\ waves' = <<>>
    BY <1>2, <1>5 DEF K!Range, K!IsInjective
  <2>3. Apart(wave)
    BY <1>2, <1>5, <2>2, WaveSizeKnown DEF Apart
  <2>4. Disjoint(wave, selected) /\ EachApart(wave, <<>>) /\ NoneFits(wave, selected, <<>>)
    BY <1>5, <2>2, <2>3 DEF Disjoint, EachApart, NoneFits
  <2>5. AllKept(wave, selected, <<>>)
    <3>1. UNION {K!Range(<<>>[w]) : w \in DOMAIN <<>>} = {}
      OBVIOUS
    <3>2. QED
      BY <2>2, <3>1 DEF AllKept
  <2>6. Kept(wave', remaining', waves')
    BY <1>5, <2>2, <2>4, <2>5 DEF Kept
  <2>7. Kept(wave, remaining, waves)'
    BY <1>5, <2>6, WavesStay
  <2>8. WavesGrow'
    BY <1>5, <2>1, <2>7 DEF WavesGrow
  <2>9. <<>> \in Seq(DOMAIN catalogue) /\ <<>> \in Seq(Seq(DOMAIN catalogue))
    OBVIOUS
  <2>10. QED
    BY <1>1, <1>2, <1>5, <2>2, <2>8, <2>9, BatchStays
<1>6. QED
  <2>1. CASE selected = <<>>
    BY <1>3, <2>1 DEF K!Plan
  <2>2. CASE selected # <<>> /\ K!WaveSize > 1 /\ args.diverse /\ ~K!IsInjective(selected)
             /\ phase' = "failed" /\ UNCHANGED <<remaining, waves>>
    <3>1. K!Fail
      BY <2>2 DEF K!Plan, K!Fail
    <3>2. QED
      BY <1>3, <3>1
  <2>3. QED
    BY <1>4, <1>5, <2>1, <2>2 DEF K!Plan

LEMMA AnchorKeeps == ASSUME SelectionInv, K!Anchor PROVE SelectionInv'
<1> DEFINE Known == DOMAIN catalogue
           a == wave'
           r == remaining'
<1>1. /\ phase = "wave" /\ wave = <<>> /\ remaining # <<>>
      /\ a = <<Head(remaining)>> /\ r = Tail(remaining)
      /\ UNCHANGED <<catalogue, args, phase, quotas, groups, batch, selected, waves>>
  BY DEF K!Anchor
<1>2. remaining \in Seq(Known) /\ wave \in Seq(Known) /\ waves \in Seq(Seq(Known)) /\ SelectionTyped
  BY DEF SelectionInv, SelectionTyped
<1>3. K!WaveSize > 1 /\ args.diverse /\ Kept(wave, remaining, waves)
  BY <1>1 DEF SelectionInv, WavesGrow
<1> HIDE DEF Known
<1>4. Tail(remaining) = K!RemoveAt(remaining, 1) /\ Head(remaining) = remaining[1]
      /\ 1 \in 1 .. Len(remaining)
  BY <1>1, <1>2, TailIsWithoutFirst
<1>5. <<Head(remaining)>> = Append(wave, remaining[1])
  BY <1>1, <1>4
<1> HIDE DEF a, r
<1>6. Moved(Known, wave, remaining, 1, a, r)
  <2>1. a = Append(wave, remaining[1]) /\ r = K!RemoveAt(remaining, 1)
    BY <1>1, <1>4, <1>5
  <2>2. QED
    BY <1>2, <1>4, <2>1, MovedToTheOther
<1>7. Apart(a)
  <2>1. Len(wave) = 0 /\ K!Range(wave) = {}
    BY <1>1 DEF K!Range
  <2>2. Disjoint(wave, remaining)
    BY <1>3 DEF Kept
  <2>3. Len(a) = 1 /\ K!Range(a) = {remaining[1]} /\ K!IsInjective(a)
    BY <1>6, <2>1, <2>2 DEF Moved, Disjoint
  <2>4. Len(a) <= K!WaveSize
    BY <1>2, <1>3, <2>3, WaveSizeKnown
  <2>5. QED
    BY <2>3, <2>4 DEF Apart
<1>8. Kept(a, r, waves)
  BY <1>3, <1>6, <1>7, MovesAhead
<1>9. WavesGrow'
  <2>1. Kept(wave', remaining', waves')
    BY <1>1, <1>8 DEF a, r
  <2>2. Kept(wave, remaining, waves)' /\ K!WaveSize' = K!WaveSize
    BY <1>1, <2>1, WavesStay
  <2>3. QED
    BY <1>1, <1>3, <2>2 DEF WavesGrow
<1>10. a \in Seq(Known) /\ r \in Seq(Known)
  BY <1>6 DEF Moved
<1>11. QED
  BY <1>1, <1>2, <1>9, <1>10, BatchStays DEF Known, a, r

(* The nearest of the tasks that remain: no other has a smaller penalty.   *)
LEMMA NearestIsFirst ==
  ASSUME SelectionTyped, wave # <<>>, remaining # <<>>
  PROVE  /\ K!Nearest \in 1 .. Len(remaining)
         /\ K!Penalty(remaining[K!Nearest], wave) = 1 =>
              \A j \in 1 .. Len(remaining) : K!Penalty(remaining[j], wave) = 1
<1> DEFINE Known == DOMAIN catalogue
           key == [k \in DOMAIN remaining |-> K!WaveKey(remaining[k])]
           i == K!Least(key)
<1>1. remaining \in Seq(Known)
  BY DEF SelectionTyped
<1>2. /\ DOMAIN remaining = 1 .. Len(remaining) /\ Len(remaining) \in Nat \ {0}
      /\ \A k \in 1 .. Len(remaining) : remaining[k] \in Known
  <2> HIDE DEF Known
  <2>1. QED
    BY <1>1
<1>3. \A k \in 1 .. Len(remaining) : key[k] \in Seq(Nat) /\ Len(key[k]) = 3
  BY <1>2, KeysAreNumbers
<1>4. \A k \in 1 .. Len(remaining) : /\ DOMAIN key[k] = 1 .. 3
                                     /\ key[k][1] = K!Penalty(remaining[k], wave)
  BY <1>2 DEF K!WaveKey
<1>5. DOMAIN key = 1 .. Len(remaining)
  BY <1>2
<1>6. K!Nearest = i
  BY DEF K!Nearest
<1>7. i \in 1 .. Len(remaining) /\ \A j \in 1 .. Len(remaining) : ~K!Less(key[j], key[i])
  <2> HIDE DEF key
  <2>1. key \in Seq(Seq(Nat)) /\ Len(key) = Len(remaining)
    <3>1. key = [k \in 1 .. Len(remaining) |-> key[k]]
      BY <1>5 DEF key
    <3>2. QED
      BY <1>2, <1>3, <1>5, <3>1
  <2>2. QED
    BY <1>2, <1>3, <2>1, LeastIsFirst
<1> HIDE DEF key, i
<1>8. ASSUME NEW j \in 1 .. Len(remaining), K!Penalty(remaining[i], wave) = 1
      PROVE  K!Penalty(remaining[j], wave) = 1
  <2> SUFFICES ASSUME K!Penalty(remaining[j], wave) = 0 PROVE FALSE
    BY PenaltyIsBinary
  <2>1. key[j][1] = 0 /\ key[i][1] = 1 /\ DOMAIN key[j] = 1 .. 3
    BY <1>4, <1>7, <1>8
  <2>2. K!Less(key[j], key[i])
    <3>1. 1 \in DOMAIN key[j] /\ key[j][1] < key[i][1] /\ \A k \in 1 .. 1 - 1 : FALSE
      BY <2>1
    <3>2. QED
      BY <3>1 DEF K!Less
  <2>3. QED
    BY <1>7, <2>2
<1>9. QED
  BY <1>6, <1>7, <1>8

(* The penalty says whether a task is too similar to one of the wave.      *)
LEMMA PenaltySays ==
  ASSUME SelectionTyped, wave # <<>>, NEW t \in DOMAIN catalogue
  PROVE  /\ K!Penalty(t, wave) = 0 => \A u \in K!Range(wave) : K!Score(t, u) <= args.threshold
         /\ K!Penalty(t, wave) = 1 => \E u \in K!Range(wave) : K!Score(t, u) > args.threshold
<1>1. Described /\ wave \in Seq(DOMAIN catalogue)
  BY DEF SelectionTyped
<1>2. args.threshold \in Int
  <2>1. args.threshold \in PoolThresholds
    BY <1>1 DEF Described
  <2>2. QED
    BY <2>1, SelectionAssumption
<1>3. /\ K!Closest(t, wave) \in Nat
      /\ \E i \in DOMAIN wave : K!Closest(t, wave) = K!Score(t, wave[i])
      /\ \A i \in DOMAIN wave : K!Score(t, wave[i]) <= K!Closest(t, wave)
  BY <1>1, ClosestIsMost
<1>4. \A i \in DOMAIN wave : K!Score(t, wave[i]) \in Nat
  <2>1. \A i \in DOMAIN wave : wave[i] \in DOMAIN catalogue
    BY <1>1
  <2>2. QED
    BY <1>1, <2>1, ScoreIsMutual
<1>5. ASSUME K!Penalty(t, wave) = 0 PROVE \A u \in K!Range(wave) : K!Score(t, u) <= args.threshold
  <2>1. ~(K!Closest(t, wave) > args.threshold)
    BY <1>5 DEF K!Penalty
  <2>2. \A i \in DOMAIN wave : K!Score(t, wave[i]) <= args.threshold
    BY <1>2, <1>3, <1>4, <2>1
  <2>3. QED
    BY <2>2 DEF K!Range
<1>6. ASSUME K!Penalty(t, wave) = 1 PROVE \E u \in K!Range(wave) : K!Score(t, u) > args.threshold
  <2>1. K!Closest(t, wave) > args.threshold
    BY <1>6 DEF K!Penalty
  <2>2. \E i \in DOMAIN wave : K!Score(t, wave[i]) > args.threshold
    BY <1>3, <2>1
  <2>3. QED
    BY <2>2 DEF K!Range
<1>7. QED
  BY <1>5, <1>6

LEMMA JoinKeeps == ASSUME SelectionInv, K!Join PROVE SelectionInv'
<1> DEFINE Known == DOMAIN catalogue
           i == K!Nearest
           a == wave'
           r == remaining'
<1>1. /\ phase = "wave" /\ wave # <<>> /\ remaining # <<>>
      /\ Len(wave) < K!WaveSize /\ K!Penalty(remaining[i], wave) = 0
      /\ a = Append(wave, remaining[i]) /\ r = K!RemoveAt(remaining, i)
      /\ UNCHANGED <<catalogue, args, phase, quotas, groups, batch, selected, waves>>
  BY DEF K!Join, K!Open
<1>2. remaining \in Seq(Known) /\ wave \in Seq(Known) /\ waves \in Seq(Seq(Known)) /\ SelectionTyped
  BY DEF SelectionInv, SelectionTyped
<1>3. K!WaveSize > 1 /\ args.diverse /\ Kept(wave, remaining, waves)
  BY <1>1 DEF SelectionInv, WavesGrow
<1>4. i \in 1 .. Len(remaining)
  BY <1>1, <1>2, NearestIsFirst
<1> HIDE DEF a, r, i, Known
<1>5. Moved(Known, wave, remaining, i, a, r)
  BY <1>1, <1>2, <1>4, MovedToTheOther
<1>6. remaining[i] \in Known /\ \A u \in K!Range(wave) : u \in Known
  BY <1>2, <1>4 DEF K!Range
<1>7. \A u \in K!Range(wave) : /\ K!Score(remaining[i], u) <= args.threshold
                               /\ K!Score(u, remaining[i]) <= args.threshold
  <2>1. Described
    BY <1>2 DEF SelectionTyped
  <2>2. \A u \in K!Range(wave) : K!Score(remaining[i], u) <= args.threshold
    BY <1>1, <1>2, <1>6, PenaltySays DEF Known
  <2>3. \A u \in K!Range(wave) : K!Score(remaining[i], u) = K!Score(u, remaining[i])
    BY <1>6, <2>1, ScoreIsMutual DEF Known
  <2>4. QED
    BY <2>2, <2>3
<1>8. Apart(a)
  <2>1. Disjoint(wave, remaining) /\ Apart(wave)
    BY <1>3 DEF Kept, EachApart
  <2>2. Len(a) = Len(wave) + 1 /\ K!Range(a) = K!Range(wave) \cup {remaining[i]} /\ K!IsInjective(a)
    BY <1>5, <2>1 DEF Moved, Disjoint
  <2>3. Len(a) <= K!WaveSize
    <3>1. Len(wave) \in Nat
      BY <1>2
    <3>2. QED
      BY <1>1, <1>2, <2>2, <3>1, WaveSizeKnown
  <2>4. \A t, u \in K!Range(a) : t # u => K!Score(t, u) <= args.threshold
    BY <1>7, <2>1, <2>2 DEF Apart
  <2>5. QED
    BY <2>2, <2>3, <2>4 DEF Apart
<1>9. Kept(a, r, waves)
  BY <1>3, <1>5, <1>8, MovesAhead
<1>10. WavesGrow'
  <2>1. Kept(wave', remaining', waves')
    BY <1>1, <1>9 DEF a, r
  <2>2. Kept(wave, remaining, waves)' /\ K!WaveSize' = K!WaveSize
    BY <1>1, <2>1, WavesStay
  <2>3. QED
    BY <1>1, <1>3, <2>2 DEF WavesGrow
<1>11. a \in Seq(Known) /\ r \in Seq(Known)
  BY <1>5 DEF Moved
<1>12. QED
  BY <1>1, <1>2, <1>10, <1>11, BatchStays DEF Known, a, r

LEMMA CloseWaveKeeps == ASSUME SelectionInv, K!CloseWave PROVE SelectionInv'
<1> DEFINE Known == DOMAIN catalogue
           n == Len(waves)
           ws == waves'
<1>1. /\ phase = "wave" /\ wave # <<>> /\ ~K!Open
      /\ ws = Append(waves, wave) /\ wave' = <<>>
      /\ phase' = (IF remaining = <<>> THEN "done" ELSE "wave")
      /\ UNCHANGED <<catalogue, args, quotas, groups, remaining, batch, selected>>
  BY DEF K!CloseWave
<1>2. remaining \in Seq(Known) /\ wave \in Seq(Known) /\ waves \in Seq(Seq(Known)) /\ SelectionTyped
  BY DEF SelectionInv, SelectionTyped
<1>3. K!WaveSize > 1 /\ args.diverse /\ Kept(wave, remaining, waves)
  BY <1>1 DEF SelectionInv, WavesGrow
<1>4. /\ Disjoint(wave, remaining) /\ AllKept(wave, remaining, waves) /\ Apart(wave)
      /\ \A w \in DOMAIN waves : Apart(waves[w])
      /\ \A w \in DOMAIN waves :
           /\ \A t \in K!Range(wave) \cup K!Range(remaining) : Refused(t, waves[w])
           /\ \A v \in w + 1 .. Len(waves) : \A t \in K!Range(waves[v]) : Refused(t, waves[w])
  BY <1>3 DEF Kept, EachApart, NoneFits
<1> HIDE DEF ws, Known
<1>5. /\ n \in Nat /\ DOMAIN waves = 1 .. n /\ ws \in Seq(Seq(Known)) /\ Len(ws) = n + 1
      /\ DOMAIN ws = 1 .. n + 1 /\ ws[n + 1] = wave /\ \A k \in 1 .. n : ws[k] = waves[k]
  BY <1>1, <1>2
<1> HIDE DEF n
<1>6. \A k \in 1 .. n + 1 : k \in 1 .. n \/ k = n + 1
  BY <1>5
<1>7. \A k \in 1 .. n : k \in 1 .. n + 1
  BY <1>5
<1>8. K!Range(<<>>) = {} /\ K!IsInjective(<<>>) /\ Len(<<>>) = 0
  BY DEF K!Range, K!IsInjective
<1>9. Disjoint(<<>>, remaining)
  BY <1>4, <1>8 DEF Disjoint
<1>10. AllKept(<<>>, remaining, ws)
  <2> DEFINE U == UNION {K!Range(waves[w]) : w \in DOMAIN waves}
             Held == UNION {K!Range(ws[w]) : w \in DOMAIN ws}
  <2>1. Held = U \cup K!Range(wave)
    <3>1. ASSUME NEW t \in Held PROVE t \in U \cup K!Range(wave)
      <4>1. PICK w \in 1 .. n + 1 : t \in K!Range(ws[w])
        BY <1>5
      <4>2. QED
        BY <1>5, <1>6, <4>1
    <3>2. ASSUME NEW t \in U PROVE t \in Held
      <4>1. PICK w \in 1 .. n : t \in K!Range(waves[w])
        BY <1>5
      <4>2. QED
        BY <1>5, <1>7, <4>1
    <3>3. ASSUME NEW t \in K!Range(wave) PROVE t \in Held
      <4>1. n + 1 \in 1 .. n + 1
        BY <1>5
      <4>2. QED
        BY <1>5, <4>1
    <3>4. QED
      BY <3>1, <3>2, <3>3
  <2>2. U \cup K!Range(wave) \cup K!Range(remaining) = K!Range(selected)
    BY <1>4 DEF AllKept
  <2> HIDE DEF U, Held
  <2>3. Held \cup K!Range(<<>>) \cup K!Range(remaining) = K!Range(selected)
    BY <1>8, <2>1, <2>2
  <2>4. QED
    BY <2>3 DEF AllKept, Held
<1>11. EachApart(<<>>, ws)
  <2>1. Apart(<<>>)
    BY <1>2, <1>3, <1>8, WaveSizeKnown DEF Apart
  <2>2. \A w \in DOMAIN ws : Apart(ws[w])
    BY <1>4, <1>5, <1>6
  <2>3. QED
    BY <2>1, <2>2 DEF EachApart
<1>12. ASSUME NEW t \in K!Range(remaining) PROVE Refused(t, wave)
  <2>1. t \notin K!Range(wave)
    BY <1>4, <1>12 DEF Disjoint
  <2>2. ASSUME Len(wave) < K!WaveSize PROVE \E u \in K!Range(wave) : K!Score(t, u) > args.threshold
    <3>1. PICK j \in 1 .. Len(remaining) : t = remaining[j]
      BY <1>2, <1>12 DEF K!Range
    <3>2. remaining # <<>> /\ t \in Known
      BY <1>2, <3>1
    <3>3. K!Penalty(remaining[K!Nearest], wave) = 1
      BY <1>1, <2>2, <3>2, PenaltyIsBinary DEF K!Open
    <3>4. K!Penalty(t, wave) = 1
      BY <1>1, <1>2, <3>1, <3>2, <3>3, NearestIsFirst
    <3>5. QED
      BY <1>1, <1>2, <3>2, <3>4, PenaltySays DEF Known
  <2>3. QED
    BY <2>1, <2>2 DEF Refused
<1>13. NoneFits(<<>>, remaining, ws)
  <2> SUFFICES ASSUME NEW w \in 1 .. n + 1
               PROVE  /\ \A t \in K!Range(remaining) : Refused(t, ws[w])
                      /\ \A v \in w + 1 .. n + 1 : \A t \in K!Range(ws[v]) : Refused(t, ws[w])
    BY <1>5, <1>8 DEF NoneFits
  <2>1. CASE w = n + 1
    <3>1. w + 1 .. n + 1 = {}
      BY <1>5, <2>1
    <3>2. QED
      BY <1>5, <1>12, <2>1, <3>1
  <2>2. CASE w \in 1 .. n
    <3>1. ws[w] = waves[w] /\ w \in DOMAIN waves
      BY <1>5, <2>2
    <3>2. \A t \in K!Range(remaining) : Refused(t, ws[w])
      BY <1>4, <3>1
    <3>3. ASSUME NEW v \in w + 1 .. n + 1, NEW t \in K!Range(ws[v]) PROVE Refused(t, ws[w])
      <4>1. CASE v = n + 1
        BY <1>4, <1>5, <3>1, <4>1
      <4>2. CASE v # n + 1
        <5>1. v \in w + 1 .. n /\ v \in 1 .. n
          BY <1>5, <2>2, <4>2
        <5>2. t \in K!Range(waves[v])
          BY <1>5, <5>1
        <5>3. QED
          BY <1>4, <3>1, <5>1, <5>2 DEF n
      <4>3. QED
        BY <4>1, <4>2
    <3>4. QED
      BY <3>2, <3>3
  <2>3. QED
    BY <1>6, <2>1, <2>2
<1>14. Kept(<<>>, remaining, ws)
  BY <1>9, <1>10, <1>11, <1>13 DEF Kept
<1>15. WavesGrow'
  <2>1. Kept(wave', remaining', waves')
    BY <1>1, <1>14 DEF ws
  <2>2. Kept(wave, remaining, waves)' /\ K!WaveSize' = K!WaveSize
    BY <1>1, <2>1, WavesStay
  <2>3. QED
    BY <1>1, <1>3, <2>2 DEF WavesGrow
<1>16. <<>> \in Seq(Known)
  OBVIOUS
<1>17. QED
  BY <1>1, <1>2, <1>5, <1>15, <1>16, BatchStays DEF Known, ws

(* ------------------------------------------------------------------------*)
(* Every step, and what the invariant says.                                *)
(* ------------------------------------------------------------------------*)
LEMMA SelectionStays == ASSUME SelectionInv, UNCHANGED K!vars PROVE SelectionInv'
<1> USE DEF SelectionInv
<1>1. UNCHANGED <<catalogue, args, phase, quotas, groups, remaining, batch, selected, wave, waves>>
  BY DEF K!vars
<1>2. SelectionTyped'
  BY <1>1, InputsStay DEF SelectionTyped
<1>3. StagesFollow'
  BY <1>1 DEF StagesFollow, K!NoSize
<1>4. QuotasKnown'
  BY <1>1, InputsStay DEF QuotasKnown, Shared
<1>5. GroupsRemain' /\ BatchGrows'
  <2>1. GroupsRemain'
    BY <1>1, GroupsStay
  <2>2. BatchGrows'
    <3>1. /\ K!IsInjective(batch)' = K!IsInjective(batch)
          /\ K!IsInjective(remaining)' = K!IsInjective(remaining)
          /\ K!IsInjective(groups[1].tasks)' = K!IsInjective(groups[1].tasks)
      BY <1>1 DEF K!IsInjective
    <3>2. /\ K!Range(batch)' = K!Range(batch) /\ K!Range(remaining)' = K!Range(remaining)
          /\ K!Range(groups[1].tasks)' = K!Range(groups[1].tasks)
      BY <1>1 DEF K!Range
    <3>3. QED
      BY <1>1, <3>1, <3>2 DEF BatchGrows
  <2>3. QED
    BY <2>1, <2>2
<1>6. K!BatchIsAsAsked'
  <2>1. \A c : K!Cardinality(K!InCategory(selected, c))' = K!Cardinality(K!InCategory(selected, c))
    BY <1>1 DEF K!InCategory
  <2>2. (K!Range(selected) \subseteq K!Counted)' = (K!Range(selected) \subseteq K!Counted)
    BY <1>1, InputsStay DEF K!Range
  <2>3. (K!IsInjective(K!Candidates) => K!IsInjective(selected))'
          = (K!IsInjective(K!Candidates) => K!IsInjective(selected))
    BY <1>1, InputsStay DEF K!IsInjective
  <2>4. QED
    BY <1>1, <2>1, <2>2, <2>3, InputsStay DEF K!BatchIsAsAsked, K!NoSize
<1>7. WavesGrow'
  <2>1. K!WaveSize' = K!WaveSize
    BY <1>1, WavesStay
  <2>2. Kept(wave, remaining, waves) => Kept(wave, remaining, waves)'
    BY <1>1, WavesStay
  <2>3. QED
    BY <1>1, <2>1, <2>2 DEF WavesGrow
<1>8. QED
  BY <1>2, <1>3, <1>4, <1>5, <1>6, <1>7

LEMMA StepSelection == SelectionInv /\ [K!Next]_(K!vars) => SelectionInv'
  BY ChooseKeeps, QuotasKeep, BeginBatchKeeps, PickKeeps, EndBatchKeeps, BatchesDoneKeeps, PlanKeeps,
     AnchorKeeps, JoinKeeps, CloseWaveKeeps, SelectionStays DEF K!Next

LEMMA BatchFits ==
  ASSUME SelectionTyped, StagesFollow, GroupsRemain, BatchGrows
  PROVE  Len(batch) <= Len(K!Candidates)
<1>1. Described /\ K!Candidates \in Seq(DOMAIN catalogue) /\ Len(K!Candidates) \in Nat
  <2>1. Described
    BY DEF SelectionTyped
  <2>2. K!Candidates \in Seq(DOMAIN catalogue)
    BY <2>1, CandidatesKnown
  <2>3. QED
    BY <2>1, <2>2
<1>2. CASE batch = <<>>
  <2>1. Len(batch) = 0
    BY <1>2
  <2>2. QED
    BY <1>1, <2>1
<1>3. CASE batch # <<>>
  <2> DEFINE g == groups[1]
             Known == DOMAIN catalogue
             Batches == [tasks : Seq(Known), size : Int]
  <2>1. phase = "batch"
    BY <1>3 DEF StagesFollow
  <2>2. groups # <<>> /\ Len(batch) + Len(remaining) = Len(g.tasks)
    BY <1>3, <2>1 DEF BatchGrows
  <2>3. 1 \in DOMAIN groups
    <3>1. groups \in Seq(Batches)
      BY DEF SelectionTyped
    <3> HIDE DEF Batches
    <3>2. QED
      BY <2>2, <3>1
  <2>4. Len(batch) \in Nat /\ Len(remaining) \in Nat
    <3>1. batch \in Seq(Known) /\ remaining \in Seq(Known)
      BY DEF SelectionTyped
    <3> HIDE DEF Known
    <3>2. QED
      BY <3>1
  <2>5. CASE args.stratified
    <3>1. PICK c \in K!Wanted : g = K!Group(c)
      BY <2>1, <2>3, <2>5 DEF GroupsRemain
    <3>2. Len(g.tasks) <= Len(K!Candidates) /\ g.tasks \in Seq(Known)
      BY <1>1, <3>1, GroupKnown
    <3> HIDE DEF g, Known
    <3>3. QED
      BY <1>1, <2>2, <2>4, <3>2
  <2>6. CASE ~args.stratified
    <3>1. g.tasks = K!Candidates
      BY <2>1, <2>2, <2>6 DEF GroupsRemain
    <3>2. QED
      BY <1>1, <2>2, <2>4, <3>1
  <2>7. QED
    BY <2>5, <2>6
<1>4. QED
  BY <1>2, <1>3

LEMMA SelectionFollows == SelectionInv => K!TypeOK /\ K!SelectionIsSound
<1> SUFFICES ASSUME SelectionInv PROVE K!TypeOK /\ K!SelectionIsSound
  OBVIOUS
<1>1. SelectionTyped /\ Described
  BY DEF SelectionInv, SelectionTyped
<1>2. K!QuotasAreProportional
  <2> SUFFICES ASSUME quotas # <<>>
               PROVE  /\ K!Total(quotas) = args.size
                      /\ \A c \in DOMAIN quotas :
                           /\ quotas[c] <= K!Count(c)
                           /\ quotas[c] * K!Cardinality(K!Counted) - args.size * K!Count(c)
                                \in 1 - K!Cardinality(K!Counted) .. K!Cardinality(K!Counted) - 1
    BY DEF K!QuotasAreProportional
  <2>1. SizeFits /\ quotas = [c \in K!Categories |-> K!Quota(c)]
    BY DEF SelectionInv, QuotasKnown, Shared
  <2>2. Total(quotas) = args.size
    BY <1>1, <2>1, QuotasAddUp
  <2>3. \A c \in K!Categories :
          /\ K!Quota(c) <= K!Count(c)
          /\ K!Quota(c) * Cardinality(K!Counted) - args.size * K!Count(c)
               \in 1 - Cardinality(K!Counted) .. Cardinality(K!Counted) - 1
    BY <1>1, <2>1, QuotasAddUp
  <2>4. K!Total(quotas) = Total(quotas) /\ K!Cardinality(K!Counted) = Cardinality(K!Counted)
    BY SelectionCounts
  <2>5. QED
    BY <2>1, <2>2, <2>3, <2>4
<1>3. K!WavesKeepApart
  <2> SUFFICES ASSUME phase = "done", K!WaveSize > 1, args.diverse
               PROVE  /\ UNION {K!Range(waves[w]) : w \in DOMAIN waves} = K!Range(selected)
                      /\ \A w \in DOMAIN waves :
                           /\ Len(waves[w]) <= args.workers /\ K!IsInjective(waves[w])
                           /\ \A t, u \in K!Range(waves[w]) : t # u => K!Score(t, u) <= args.threshold
                           /\ \A v \in w + 1 .. Len(waves) : \A t \in K!Range(waves[v]) :
                                Refused(t, waves[w])
    BY DEF K!WavesKeepApart, Refused
  <2>1. remaining = <<>> /\ wave = <<>> /\ Kept(wave, remaining, waves)
    BY DEF SelectionInv, WavesGrow, StagesFollow
  <2>2. K!Range(remaining) = {} /\ K!Range(wave) = {}
    BY <2>1 DEF K!Range
  <2>3. UNION {K!Range(waves[w]) : w \in DOMAIN waves} = K!Range(selected)
    <3>1. \A S : S \cup {} \cup {} = S
      OBVIOUS
    <3>2. QED
      BY <2>1, <2>2, <3>1 DEF Kept, AllKept
  <2>4. \A w \in DOMAIN waves :
          /\ Apart(waves[w])
          /\ \A v \in w + 1 .. Len(waves) : \A t \in K!Range(waves[v]) : Refused(t, waves[w])
    BY <2>1 DEF Kept, EachApart, NoneFits
  <2>5. \A w \in DOMAIN waves : Len(waves[w]) <= args.workers
    <3> SUFFICES ASSUME NEW w \in DOMAIN waves PROVE Len(waves[w]) <= args.workers
      OBVIOUS
    <3>1. Len(waves[w]) <= K!WaveSize
      BY <2>4 DEF Apart
    <3>2. waves \in Seq(Seq(DOMAIN catalogue))
      BY <1>1 DEF SelectionTyped
    <3>3. Len(waves[w]) \in Nat
      BY <3>2
    <3>4. args.workers \in Int
      <4>1. args.workers \in Workers
        BY <1>1 DEF Described
      <4>2. QED
        BY <4>1, SelectionAssumption
    <3>5. QED
      BY <1>1, <3>1, <3>3, <3>4, WaveSizeKnown
  <2>6. QED
    BY <2>3, <2>4, <2>5 DEF Apart
<1>4. K!TypeOK
  <2>1. phase \in {"choose", "quotas", "batch", "plan", "wave", "done", "failed"}
    BY <1>1 DEF SelectionTyped
  <2>2. K!Range(remaining) \cup K!Range(selected) \subseteq DOMAIN catalogue
    <3>1. \A Known : \A s \in Seq(Known) : K!Range(s) \subseteq Known
      BY DEF K!Range
    <3>2. QED
      BY <1>1, <3>1 DEF SelectionTyped
  <2>3. Len(batch) <= Len(K!Candidates)
    BY BatchFits DEF SelectionInv
  <2>4. Len(wave) <= Len(selected)
    <3>1. Len(wave) \in Nat /\ Len(selected) \in Nat
      BY <1>1 DEF SelectionTyped
    <3>2. CASE phase # "wave"
      <4>1. wave = <<>> /\ Len(wave) = 0
        BY <3>2 DEF SelectionInv, StagesFollow
      <4>2. QED
        BY <3>1, <4>1
    <3>3. CASE phase = "wave"
      <4>1. Len(wave) <= K!WaveSize
        BY <3>3 DEF SelectionInv, WavesGrow, Kept, EachApart, Apart
      <4>2. QED
        BY <1>1, <3>1, <4>1, WaveSizeKnown
    <3>4. QED
      BY <3>2, <3>3
  <2>5. QED
    BY <2>1, <2>2, <2>3, <2>4 DEF K!TypeOK
<1>5. QED
  BY <1>2, <1>3, <1>4 DEF K!SelectionIsSound, SelectionInv

(* The choice of tasks serves its request: the quotas share it out in      *)
(* proportion, the batch is as asked, and the waves keep apart.            *)
THEOREM SelectionServes == K!Spec => [](K!TypeOK /\ K!SelectionIsSound)
<1>1. K!Init => SelectionInv
  BY InitSelection
<1>2. SelectionInv /\ [K!Next]_(K!vars) => SelectionInv'
  BY StepSelection
<1>3. SelectionInv => K!TypeOK /\ K!SelectionIsSound
  BY SelectionFollows
<1>4. QED
  BY <1>1, <1>2, <1>3, PTL DEF K!Spec
-----------------------------------------------------------------------------
CONSTANTS
  \* SkillCatalogue
  Shipped, Learned, Given, Policies, MaxRows, MaxWrites, MaxImports
VARIABLES
  rows, tab, bundle, clock, imports, did

D == INSTANCE SkillCatalogue

(* Bounds are naturals, the shipped skills are finitely many, and a name   *)
(* is not empty.                                                           *)
ASSUME CatalogueAssumption ==
  /\ {MaxRows, MaxWrites, MaxImports} \subseteq Nat /\ IsFiniteSet(Shipped)
  /\ D!None \notin Shipped

(* The table over many runs. What a row says of itself:                    *)
Names == Shipped \cup Learned \cup Given
Row ==
  [name : Names, version : Nat, status : D!Statuses \cup {"deleted"}, spec : D!Statuses,
   text : Nat, override : BOOLEAN, origin : Names \cup {D!None}, shipped : BOOLEAN,
   learned : BOOLEAN, by : {"ship", "run", "operator"}, seed : Shipped \cup {D!None}, stamp : Nat]
Parcel ==
  [name : Names, version : Nat, spec : D!Statuses, text : Nat, shipped : BOOLEAN,
   learned : BOOLEAN, by : {"ship", "run", "operator"}, seed : Shipped \cup {D!None}]

(* A row that descends from a shipped skill has its version, and a learned *)
(* one does not descend from any.                                          *)
Descended(r) ==
  /\ r.shipped => r.version = 1
  /\ r.learned => ~r.shipped /\ r.seed = D!None /\ r.name \in Learned \cup Given
Sound(r) ==
  /\ r.override => r.by = "operator"
  /\ D!Live(r) => r.status = r.spec
  /\ r.origin # D!None => r.version = 1
  /\ r.learned => r.origin = D!None
(* Without imports what an operator wrote is marked, unless a run promoted *)
(* it, and what descends from a shipped skill has it as its origin.        *)
Marked(r) ==
  /\ r.by = "operator" => r.override \/ r.learned
  /\ r.seed # D!None => r.origin = r.seed

RowsTyped ==
  /\ rows \in Seq(Row) /\ bundle \in Seq(Parcel)
  /\ clock \in 0 .. MaxWrites /\ imports \in 0 .. MaxImports

RowsSound ==
  \A i \in 1 .. Len(rows) :
    /\ rows[i].stamp \in 1 .. clock /\ Descended(rows[i]) /\ Sound(rows[i])
    /\ imports = 0 => Marked(rows[i])

(* Keys are unique in the table, and in a bundle.                          *)
Keyed(s) ==
  \A i, j \in 1 .. Len(s) : i # j => s[i].name # s[j].name \/ s[i].version # s[j].version

(* What the operator sees is the row, or the row has a later stamp.        *)
TabCurrent ==
  tab = D!Closed \/ /\ tab.row \in 1 .. Len(rows) /\ tab.stamp \in 0 .. clock
                    /\ rows[tab.row].stamp = tab.stamp => tab.seen = {rows[tab.row]}

BundleSound == Keyed(bundle) /\ \A k \in 1 .. Len(bundle) : Descended(bundle[k])

CatalogueInv == RowsTyped /\ RowsSound /\ Keyed(rows) /\ TabCurrent /\ BundleSound

LEMMA InitCatalogue == D!Init => CatalogueInv
<1> SUFFICES ASSUME D!Init PROVE CatalogueInv
  OBVIOUS
<1>1. rows = <<>> /\ tab = D!Closed /\ bundle = <<>> /\ clock = 0 /\ imports = 0
  BY DEF D!Init, D!NoFile
<1>2. RowsTyped
  BY <1>1, CatalogueAssumption DEF RowsTyped
<1>3. RowsSound /\ Keyed(rows) /\ TabCurrent /\ BundleSound
  BY <1>1 DEF RowsSound, Keyed, TabCurrent, BundleSound
<1>4. QED
  BY <1>2, <1>3 DEF CatalogueInv

(* A write replaces rows by rows with its stamp, and adds such rows.       *)
LEMMA Written ==
  ASSUME CatalogueInv, D!Write(did'), rows' \in Seq(Row), Len(rows) <= Len(rows'),
         imports' \in 0 .. MaxImports, imports' = 0 => imports = 0,
         \A i \in 1 .. Len(rows') :
           \/ i \in 1 .. Len(rows) /\ rows'[i] = rows[i]
           \/ /\ rows'[i].stamp = D!Stamp /\ Descended(rows'[i]) /\ Sound(rows'[i])
              /\ imports' = 0 => Marked(rows'[i]),
         Keyed(rows'), tab' \in {tab, D!Closed}, bundle' \in {bundle, <<>>}
  PROVE  CatalogueInv'
<1> USE DEF CatalogueInv
<1>1. clock' = clock + 1 /\ clock' \in 0 .. MaxWrites /\ D!Stamp = clock + 1 /\ clock \in Nat
  BY CatalogueAssumption DEF D!Write, D!Stamp, RowsTyped
<1>2. RowsTyped'
  <2>1. <<>> \in Seq(Parcel)
    OBVIOUS
  <2>2. bundle' \in Seq(Parcel)
    BY <2>1 DEF RowsTyped
  <2>3. QED
    BY <1>1, <2>2 DEF RowsTyped
<1>3. RowsSound'
  <2>1. SUFFICES ASSUME NEW i \in 1 .. Len(rows')
                 PROVE  /\ rows'[i].stamp \in 1 .. clock' /\ Descended(rows'[i]) /\ Sound(rows'[i])
                        /\ imports' = 0 => Marked(rows'[i])
    BY DEF RowsSound
  <2>2. CASE i \in 1 .. Len(rows) /\ rows'[i] = rows[i]
    <3>1. rows[i].stamp \in 1 .. clock /\ Descended(rows[i]) /\ Sound(rows[i])
          /\ (imports = 0 => Marked(rows[i]))
      BY <2>2 DEF RowsSound
    <3>2. QED
      BY <1>1, <2>2, <3>1
  <2>3. CASE /\ rows'[i].stamp = D!Stamp /\ Descended(rows'[i]) /\ Sound(rows'[i])
             /\ imports' = 0 => Marked(rows'[i])
    BY <1>1, <2>3
  <2>4. QED
    BY <2>2, <2>3
<1>4. TabCurrent'
  <2>1. CASE tab' = D!Closed
    BY <2>1 DEF TabCurrent
  <2>2. CASE tab' = tab /\ tab # D!Closed
    <3>1. tab.row \in 1 .. Len(rows) /\ tab.stamp \in 0 .. clock
          /\ (rows[tab.row].stamp = tab.stamp => tab.seen = {rows[tab.row]})
      BY <2>2 DEF TabCurrent
    <3>2. tab.row \in 1 .. Len(rows') /\ tab.stamp \in 0 .. clock'
      BY <1>1, <3>1 DEF RowsTyped
    <3>3. rows'[tab.row] = rows[tab.row] \/ rows'[tab.row].stamp = clock + 1
      BY <1>1, <3>2
    <3>4. rows'[tab.row].stamp = tab.stamp => tab.seen = {rows'[tab.row]}
      BY <1>1, <3>1, <3>3
    <3>5. QED
      BY <2>2, <3>2, <3>4 DEF TabCurrent
  <2>3. QED
    BY <2>1, <2>2
<1>5. BundleSound'
  BY DEF BundleSound, Keyed
<1>6. QED
  BY <1>2, <1>3, <1>4, <1>5

(* The rewriting of a single row, under the key it had or a free one.      *)
LEMMA RowWritten ==
  ASSUME CatalogueInv, D!Write(did'), UNCHANGED imports, tab' \in {tab, D!Closed}, UNCHANGED bundle,
         NEW i \in 1 .. Len(rows), NEW r \in Row, rows' = [rows EXCEPT ![i] = r],
         r.stamp = D!Stamp, Descended(r), Sound(r), imports = 0 => Marked(r),
         \A j \in 1 .. Len(rows) : j # i => r.name # rows[j].name \/ r.version # rows[j].version
  PROVE  CatalogueInv'
<1> USE DEF CatalogueInv
<1>1. rows' \in Seq(Row) /\ Len(rows') = Len(rows) /\ rows'[i] = r
      /\ \A j \in 1 .. Len(rows) : j # i => rows'[j] = rows[j]
  BY DEF RowsTyped
<1>2. Keyed(rows')
  BY <1>1 DEF Keyed
<1>3. imports' \in 0 .. MaxImports /\ Len(rows) \in Nat
  BY DEF RowsTyped
<1>4. \A j \in 1 .. Len(rows') :
           \/ j \in 1 .. Len(rows) /\ rows'[j] = rows[j]
           \/ /\ rows'[j].stamp = D!Stamp /\ Descended(rows'[j]) /\ Sound(rows'[j])
              /\ imports' = 0 => Marked(rows'[j])
  BY <1>1
<1>5. Len(rows) <= Len(rows') /\ bundle' \in {bundle, <<>>} /\ (imports' = 0 => imports = 0)
  BY <1>1, <1>3
<1>6. QED
  BY <1>1, <1>2, <1>3, <1>4, <1>5, Written

LEMMA EditedFields ==
  ASSUME NEW o \in Row, NEW e, e = D!Edited(o), D!Stamp \in Nat
  PROVE  /\ e \in Row /\ e.name = o.name /\ e.version = o.version /\ e.status = o.status
         /\ e.spec = o.spec /\ e.text = o.text /\ e.override /\ e.origin = D!OriginOf(o)
         /\ e.shipped = o.shipped /\ e.learned = o.learned /\ e.by = "operator" /\ e.seed = o.seed
         /\ e.stamp = D!Stamp
<1> DEFINE g == D!OriginOf(o)
<1> DEFINE s == D!Stamp
<1>1. g \in Names \cup {D!None} /\ s \in Nat
  BY DEF D!OriginOf, Row
<1>2. e = [o EXCEPT !.override = TRUE, !.origin = g, !.by = "operator", !.stamp = s]
  BY DEF D!Edited
<1> HIDE DEF g, s
<1>3. e \in Row
  BY <1>1, <1>2 DEF Row
<1>4. /\ e.name = o.name /\ e.version = o.version /\ e.status = o.status
      /\ e.spec = o.spec /\ e.text = o.text /\ e.override /\ e.origin = g
      /\ e.shipped = o.shipped /\ e.learned = o.learned /\ e.by = "operator" /\ e.seed = o.seed
      /\ e.stamp = s
  BY <1>2 DEF Row
<1>5. QED
  BY <1>3, <1>4 DEF g, s

(* A row as the operator leaves it.                                        *)
LEMMA EditedRow ==
  ASSUME CatalogueInv, NEW i \in 1 .. Len(rows), NEW e, e = D!Edited(rows[i]), NEW r \in Row,
         r.version = e.version, r.override = e.override, r.origin = e.origin, r.shipped = e.shipped,
         r.learned = e.learned, r.by = e.by, r.seed = e.seed, r.stamp = e.stamp,
         r.status = "deleted" \/ r.status = r.spec,
         r.name = rows[i].name \/ r.name \in Given
  PROVE  /\ r.stamp = D!Stamp /\ Descended(r) /\ Sound(r) /\ (imports = 0 => Marked(r))
         /\ r.version = rows[i].version
<1> DEFINE o == rows[i]
<1>1. o \in Row /\ Descended(o) /\ Sound(o) /\ (imports = 0 => Marked(o)) /\ clock + 1 \in Nat
  BY CatalogueAssumption DEF CatalogueInv, RowsTyped, RowsSound
<1> HIDE DEF o
<1> DEFINE g == D!OriginOf(o)
<1>2. g = IF o.origin # D!None THEN o.origin ELSE IF o.shipped THEN o.name ELSE D!None
  BY DEF D!OriginOf
<1>3. o.shipped \in BOOLEAN /\ o.learned \in BOOLEAN
  BY <1>1 DEF Row
<1> HIDE DEF g
<1>4. /\ r.version = o.version /\ r.override /\ r.origin = g /\ r.shipped = o.shipped
      /\ r.learned = o.learned /\ r.by = "operator" /\ r.seed = o.seed /\ r.stamp = D!Stamp
  BY <1>1, EditedFields DEF o, g, D!Stamp
<1>5. Descended(r)
  BY <1>1, <1>4 DEF Descended, o
<1>6. Sound(r)
  <2>1. o.learned => g = D!None
    BY <1>1, <1>2 DEF Sound, Descended
  <2>2. g # D!None => o.version = 1
    BY <1>1, <1>2, <1>3 DEF Sound, Descended
  <2>3. QED
    BY <1>4, <2>1, <2>2 DEF Sound, D!Live
<1>7. imports = 0 => Marked(r)
  <2>1. imports = 0 /\ o.seed # D!None => g = o.seed
    BY <1>1, <1>2 DEF Marked
  <2>2. QED
    BY <1>4, <2>1 DEF Marked
<1>8. QED
  BY <1>4, <1>5, <1>6, <1>7 DEF o

LEMMA SubmitKeeps ==
  ASSUME CatalogueInv, NEW what, D!Submit(what), NEW e, e = D!Edited(rows[tab.row]), NEW r \in Row, D!Put(r),
         did' = what,
         r.version = e.version, r.override = e.override, r.origin = e.origin, r.shipped = e.shipped,
         r.learned = e.learned, r.by = e.by, r.seed = e.seed, r.stamp = e.stamp,
         r.status = "deleted" \/ r.status = r.spec,
         \/ r.name = rows[tab.row].name
         \/ r.name \in Given /\ \A j \in DOMAIN rows \ {tab.row} :
                                  rows[j].name # r.name \/ rows[j].version # rows[tab.row].version
  PROVE  CatalogueInv'
<1> DEFINE i == tab.row
<1>1. i \in 1 .. Len(rows) /\ DOMAIN rows = 1 .. Len(rows)
  BY DEF D!Submit, CatalogueInv, TabCurrent, RowsTyped
<1>2. rows' = [rows EXCEPT ![i] = r] /\ UNCHANGED <<bundle, imports>> /\ tab' = D!Closed
      /\ D!Write(did')
  BY DEF D!Put, D!Submit
<1>3. /\ r.stamp = D!Stamp /\ Descended(r) /\ Sound(r) /\ (imports = 0 => Marked(r))
      /\ r.version = rows[i].version
  <2> HIDE DEF i
  <2>1. e = D!Edited(rows[i]) /\ (r.name = rows[i].name \/ r.name \in Given)
    BY DEF i
  <2>2. QED
    BY <1>1, <2>1, EditedRow
<1>4. \A j \in 1 .. Len(rows) : j # i => r.name # rows[j].name \/ r.version # rows[j].version
  BY <1>1, <1>3 DEF CatalogueInv, Keyed
<1> HIDE DEF i
<1>5. QED
  BY <1>1, <1>2, <1>3, <1>4, RowWritten

LEMMA OperatorKeeps ==
  ASSUME CatalogueInv, D!Save \/ D!Delete \/ D!Promote \/ D!Deprecate PROVE CatalogueInv'
<1> DEFINE o == rows[tab.row]
<1> DEFINE e == D!Edited(o)
<1>1. PICK what : D!Submit(what) /\ did' = what
  BY DEF D!Save, D!Delete, D!Promote, D!Deprecate, D!Submit, D!Write
<1>2. o \in Row /\ D!Stamp \in Nat
  BY <1>1, CatalogueAssumption DEF CatalogueInv, RowsTyped, TabCurrent, D!Submit, D!Stamp
<1> HIDE DEF o
<1>3. /\ e \in Row /\ e.name = o.name /\ e.status = o.status /\ e.spec = o.spec
  BY <1>2, EditedFields
<1> HIDE DEF e
<1>4. CASE D!Save
  <2>1. PICK n \in Given :
          /\ \A j \in DOMAIN rows \ {tab.row} : rows[j].name # n \/ rows[j].version # o.version
          /\ D!Put([e EXCEPT !.name = n, !.text = D!Stamp])
    BY <1>4 DEF D!Save, e, o
  <2> DEFINE r == [e EXCEPT !.name = n, !.text = D!Stamp]
  <2>2. /\ r \in Row /\ r.version = e.version /\ r.override = e.override /\ r.origin = e.origin
        /\ r.shipped = e.shipped /\ r.learned = e.learned /\ r.by = e.by /\ r.seed = e.seed
        /\ r.stamp = e.stamp /\ r.status = e.status /\ r.spec = e.spec /\ r.name = n
    BY <1>2, <1>3 DEF Row, Names
  <2> HIDE DEF r
  <2>3. r.status = "deleted" \/ r.status = r.spec
    <3>1. Sound(o)
      BY <1>1 DEF CatalogueInv, RowsSound, TabCurrent, D!Submit, o
    <3>2. QED
      BY <1>3, <2>2, <3>1 DEF Sound, D!Live
  <2>4. D!Put(r) /\ e = D!Edited(rows[tab.row])
    BY <2>1 DEF r, e, o
  <2>5. \A j \in DOMAIN rows \ {tab.row} : rows[j].name # r.name \/ rows[j].version # rows[tab.row].version
    BY <2>1, <2>2 DEF o
  <2>6. QED
    BY <1>1, <2>2, <2>3, <2>4, <2>5, SubmitKeeps
<1>5. CASE D!Delete \/ D!Promote \/ D!Deprecate
  <2>1. PICK a \in D!Statuses \cup {"deleted"}, b \in D!Statuses :
          /\ a = "deleted" \/ a = b
          /\ D!Put([e EXCEPT !.status = a, !.spec = b])
    <3>1. CASE D!Delete
      <4>1. [e EXCEPT !.status = "deleted"] = [e EXCEPT !.status = "deleted", !.spec = e.spec]
        BY <1>3 DEF Row
      <4>2. e.spec \in D!Statuses
        BY <1>3 DEF Row
      <4>3. D!Put([e EXCEPT !.status = "deleted"])
        BY <3>1 DEF D!Delete, e, o
      <4>4. QED
        BY <4>1, <4>2, <4>3
    <3>2. CASE D!Promote
      BY <3>2 DEF D!Promote, e, o, D!Statuses
    <3>3. CASE D!Deprecate
      BY <3>3 DEF D!Deprecate, e, o, D!Statuses
    <3>4. QED
      BY <1>5, <3>1, <3>2, <3>3
  <2> DEFINE r == [e EXCEPT !.status = a, !.spec = b]
  <2>2. /\ r \in Row /\ r.version = e.version /\ r.override = e.override /\ r.origin = e.origin
        /\ r.shipped = e.shipped /\ r.learned = e.learned /\ r.by = e.by /\ r.seed = e.seed
        /\ r.stamp = e.stamp /\ r.status = a /\ r.spec = b /\ r.name = e.name
    BY <1>2, <1>3 DEF Row
  <2> HIDE DEF r
  <2>3. D!Put(r) /\ e = D!Edited(rows[tab.row]) /\ r.name = rows[tab.row].name
    BY <1>3, <2>1, <2>2 DEF r, e, o
  <2>4. r.status = "deleted" \/ r.status = r.spec
    BY <2>1, <2>2
  <2>5. QED
    BY <1>1, <2>2, <2>3, <2>4, SubmitKeeps
<1>6. QED
  BY <1>4, <1>5

(* Runs add drafts and promote them.                                       *)
LEMMA PromotedDraftKeeps == ASSUME CatalogueInv, D!PromoteDraft PROVE CatalogueInv'
<1>1. PICK i \in DOMAIN rows :
        /\ rows[i].learned /\ D!Live(rows[i])
        /\ rows' = [rows EXCEPT ![i].status = "promoted", ![i].spec = "promoted", ![i].override = FALSE,
                                ![i].origin = D!None, ![i].stamp = D!Stamp]
  BY DEF D!PromoteDraft
<1> DEFINE o == rows[i]
<1> DEFINE r == [o EXCEPT !.status = "promoted", !.spec = "promoted", !.override = FALSE,
                          !.origin = D!None, !.stamp = D!Stamp]
<1>2. D!Write(did') /\ UNCHANGED <<tab, bundle, imports>> /\ rows' = [rows EXCEPT ![i] = r]
      /\ i \in 1 .. Len(rows)
  <2>1. D!Write(did') /\ UNCHANGED <<tab, bundle, imports>>
    BY DEF D!PromoteDraft, D!Write
  <2>2. rows \in Seq(Row) /\ DOMAIN rows = 1 .. Len(rows)
    BY DEF CatalogueInv, RowsTyped
  <2> DEFINE g1 == [rows EXCEPT ![i] = [rows[i] EXCEPT !.status = "promoted"]]
             g2 == [g1 EXCEPT ![i] = [g1[i] EXCEPT !.spec = "promoted"]]
             g3 == [g2 EXCEPT ![i] = [g2[i] EXCEPT !.override = FALSE]]
             g4 == [g3 EXCEPT ![i] = [g3[i] EXCEPT !.origin = D!None]]
             g5 == [g4 EXCEPT ![i] = [g4[i] EXCEPT !.stamp = D!Stamp]]
  <2>3. rows' = g5
    BY <1>1
  <2>4. g5 = [rows EXCEPT ![i] = r]
    OBVIOUS
  <2>5. QED
    BY <1>1, <2>1, <2>2, <2>3, <2>4
<1>3. o \in Row /\ Descended(o) /\ o.learned /\ D!Stamp \in Nat
  BY <1>1, <1>2, CatalogueAssumption DEF CatalogueInv, RowsTyped, RowsSound, D!Stamp
<1> HIDE DEF o
<1>4. /\ r \in Row /\ r.name = o.name /\ r.version = o.version /\ r.status = "promoted"
      /\ r.spec = "promoted" /\ ~r.override /\ r.origin = D!None /\ r.shipped = o.shipped
      /\ r.learned = o.learned /\ r.by = o.by /\ r.seed = o.seed /\ r.stamp = D!Stamp
  BY <1>3 DEF Row, D!Statuses
<1> HIDE DEF r
<1>5. Descended(r) /\ Sound(r) /\ Marked(r)
  BY <1>3, <1>4 DEF Descended, Sound, Marked
<1>6. \A j \in 1 .. Len(rows) : j # i => r.name # rows[j].name \/ r.version # rows[j].version
  BY <1>2, <1>4 DEF CatalogueInv, Keyed, o
<1>7. QED
  BY <1>2, <1>4, <1>5, <1>6, RowWritten

(* A write that replaces rows under their keys and adds rows under keys    *)
(* that neither the table nor another added row has.                       *)
LEMMA TableGrows ==
  ASSUME CatalogueInv, D!Write(did'), UNCHANGED tab, bundle' \in {bundle, <<>>},
         imports' \in 0 .. MaxImports, imports' = 0 => imports = 0,
         NEW f \in Seq(Row), NEW a \in Seq(Row), Len(f) = Len(rows), rows' = f \o a,
         \A i \in 1 .. Len(rows) :
           \/ f[i] = rows[i]
           \/ /\ f[i].name = rows[i].name /\ f[i].version = rows[i].version
              /\ f[i].stamp = D!Stamp /\ Descended(f[i]) /\ Sound(f[i])
              /\ imports' = 0 => Marked(f[i]),
         \A k \in 1 .. Len(a) :
           /\ a[k].stamp = D!Stamp /\ Descended(a[k]) /\ Sound(a[k])
           /\ imports' = 0 => Marked(a[k])
           /\ \A i \in 1 .. Len(rows) : rows[i].name # a[k].name \/ rows[i].version # a[k].version,
         Keyed(a)
  PROVE  CatalogueInv'
<1> DEFINE n == Len(rows)
           m == Len(a)
<1>1. n \in Nat /\ m \in Nat /\ rows' \in Seq(Row) /\ Len(rows') = n + m
  <2>1. rows \in Seq(Row)
    BY DEF CatalogueInv, RowsTyped
  <2>2. n \in Nat /\ m \in Nat /\ Len(f) = n
    BY <2>1
  <2>3. f \o a \in Seq(Row) /\ Len(f \o a) = Len(f) + Len(a)
    BY ConcatProperties
  <2>4. QED
    BY <2>2, <2>3
<1>2. ASSUME NEW i \in 1 .. n + m
      PROVE  \/ i \in 1 .. n /\ rows'[i] = f[i]
             \/ i \notin 1 .. n /\ i - n \in 1 .. m /\ rows'[i] = a[i - n]
  <2>1. rows'[i] = IF i <= n THEN f[i] ELSE a[i - n]
    BY <1>1
  <2>2. QED
    BY <1>1, <2>1
<1>3. \A i \in 1 .. n : f[i].name = rows[i].name /\ f[i].version = rows[i].version
  OBVIOUS
<1> HIDE DEF n, m
<1>4. Keyed(rows')
  <2>1. SUFFICES ASSUME NEW i \in 1 .. n + m, NEW j \in 1 .. n + m, i # j
                 PROVE  rows'[i].name # rows'[j].name \/ rows'[i].version # rows'[j].version
    BY <1>1 DEF Keyed
  <2>2. CASE i \in 1 .. n /\ j \in 1 .. n
    <3>1. rows[i].name # rows[j].name \/ rows[i].version # rows[j].version
      BY <2>1, <2>2 DEF CatalogueInv, Keyed, n
    <3>2. rows'[i] = f[i] /\ rows'[j] = f[j]
      BY <1>2, <2>2
    <3>3. QED
      BY <1>3, <2>2, <3>1, <3>2
  <2>3. CASE i \in 1 .. n /\ j \notin 1 .. n
    <3>1. rows'[i] = f[i] /\ j - n \in 1 .. m /\ rows'[j] = a[j - n]
      BY <1>2, <2>3
    <3>2. rows[i].name # a[j - n].name \/ rows[i].version # a[j - n].version
      BY <2>3, <3>1 DEF n, m
    <3>3. QED
      BY <1>3, <2>3, <3>1, <3>2
  <2>4. CASE i \notin 1 .. n /\ j \in 1 .. n
    <3>1. rows'[j] = f[j] /\ i - n \in 1 .. m /\ rows'[i] = a[i - n]
      BY <1>2, <2>4
    <3>2. rows[j].name # a[i - n].name \/ rows[j].version # a[i - n].version
      BY <2>4, <3>1 DEF n, m
    <3>3. QED
      BY <1>3, <2>4, <3>1, <3>2
  <2>5. CASE i \notin 1 .. n /\ j \notin 1 .. n
    <3>1. i - n \in 1 .. m /\ j - n \in 1 .. m /\ rows'[i] = a[i - n] /\ rows'[j] = a[j - n]
      BY <1>2, <2>5
    <3>2. i - n # j - n
      BY <1>1, <2>1
    <3>3. QED
      BY <3>1, <3>2 DEF Keyed, m
  <2>6. QED
    BY <2>2, <2>3, <2>4, <2>5
<1>5. \A i \in 1 .. Len(rows') :
           \/ i \in 1 .. Len(rows) /\ rows'[i] = rows[i]
           \/ /\ rows'[i].stamp = D!Stamp /\ Descended(rows'[i]) /\ Sound(rows'[i])
              /\ imports' = 0 => Marked(rows'[i])
  <2>1. SUFFICES ASSUME NEW i \in 1 .. n + m
                 PROVE  \/ i \in 1 .. n /\ rows'[i] = rows[i]
                        \/ /\ rows'[i].stamp = D!Stamp /\ Descended(rows'[i]) /\ Sound(rows'[i])
                           /\ imports' = 0 => Marked(rows'[i])
    BY <1>1 DEF n
  <2>2. CASE i \in 1 .. n /\ rows'[i] = f[i]
    BY <2>2 DEF n
  <2>3. CASE i - n \in 1 .. m /\ rows'[i] = a[i - n]
    BY <2>3 DEF m
  <2>4. QED
    BY <1>2, <2>2, <2>3
<1>6. Len(rows) <= Len(rows') /\ tab' \in {tab, D!Closed}
  BY <1>1 DEF n
<1>7. QED
  BY <1>1, <1>4, <1>5, <1>6, Written

(* Its number is higher than that of every version of the name.            *)
LEMMA NextIsNew ==
  ASSUME CatalogueInv, NEW n
  PROVE  /\ D!NextVersion(n) \in Nat
         /\ \A i \in 1 .. Len(rows) : rows[i].name = n => rows[i].version # D!NextVersion(n)
<1> DEFINE J == {j \in DOMAIN rows : rows[j].name = n}
           Known == {0} \cup D!Versions(n)
           v == [j \in J |-> rows[j].version]
<1>1. rows \in Seq(Row) /\ DOMAIN rows = 1 .. Len(rows) /\ Len(rows) \in Nat
  BY DEF CatalogueInv, RowsTyped
<1>2. IsFiniteSet(J)
  <2>1. IsFiniteSet(1 .. Len(rows))
    BY <1>1, FS_Interval
  <2>2. J \in SUBSET (1 .. Len(rows))
    BY <1>1
  <2>3. QED
    BY <2>1, <2>2, FS_Subset
<1>3. D!Versions(n) = {rows[j].version : j \in J}
  BY DEF D!Versions
<1>4. v \in Surjection(J, D!Versions(n))
  BY <1>3 DEF Surjection
<1>5. IsFiniteSet(D!Versions(n))
  <2> HIDE DEF v, J
  <2>1. QED
    BY <1>2, <1>4, FS_Surjection
<1>6. \A j \in J : rows[j].version \in Nat
  <2>1. \A j \in J : rows[j] \in Row
    BY <1>1
  <2>2. QED
    BY <2>1 DEF Row
<1>7. Known \in SUBSET Nat /\ Known # {}
  BY <1>3, <1>6
<1>8. IsFiniteSet(Known)
  <2>1. IsFiniteSet({0})
    BY FS_Singleton
  <2>2. QED
    BY <1>5, <2>1, FS_Union
<1>9. \A i \in 1 .. Len(rows) : rows[i].name = n => rows[i].version \in Known
  BY <1>1, <1>3
<1> HIDE DEF Known
<1>10. \E m \in Known : \A w \in Known : w <= m
  BY <1>7, <1>8, NaturalsHaveMaximum
<1>11. D!Max(Known) \in Known /\ \A w \in Known : w <= D!Max(Known)
  <2>1. \E m \in Known : \A w \in Known : m >= w
    BY <1>7, <1>10
  <2>2. D!Max(Known) \in Known /\ \A w \in Known : D!Max(Known) >= w
    BY <2>1 DEF D!Max
  <2>3. QED
    BY <1>7, <2>2
<1>12. D!NextVersion(n) = 1 + D!Max(Known)
  BY DEF D!NextVersion, Known
<1> DEFINE x == D!Max(Known)
<1>13. x \in Nat /\ \A i \in 1 .. Len(rows) : rows[i].name = n => rows[i].version \in Nat /\ rows[i].version <= x
  BY <1>7, <1>9, <1>11
<1> HIDE DEF x
<1>14. 1 + x \in Nat /\ \A i \in 1 .. Len(rows) : rows[i].name = n => rows[i].version # 1 + x
  BY <1>13
<1>15. QED
  BY <1>12, <1>14 DEF x

LEMMA LearnKeeps == ASSUME CatalogueInv, D!Learn PROVE CatalogueInv'
<1>1. PICK n \in Learned : rows' = Append(rows, D!Draft(n))
  BY DEF D!Learn
<1> DEFINE r == D!Draft(n)
           v == D!NextVersion(n)
           s == D!Stamp
<1>2. /\ D!Write(did') /\ UNCHANGED <<tab, bundle, imports>> /\ rows \in Seq(Row)
      /\ s \in Nat /\ imports \in 0 .. MaxImports
  BY CatalogueAssumption DEF D!Learn, D!Write, CatalogueInv, RowsTyped, D!Stamp
<1>3. v \in Nat /\ \A i \in 1 .. Len(rows) : rows[i].name = n => rows[i].version # v
  BY NextIsNew
<1>4. r = [name |-> n, version |-> v, status |-> "draft", spec |-> "draft", text |-> s,
           override |-> FALSE, origin |-> D!None, shipped |-> FALSE, learned |-> TRUE,
           by |-> "run", seed |-> D!None, stamp |-> s]
  BY DEF D!Draft
<1> HIDE DEF r, v, s
<1>5. r \in Row /\ Descended(r) /\ Sound(r) /\ Marked(r) /\ r.stamp = s /\ r.name = n /\ r.version = v
  BY <1>2, <1>3, <1>4 DEF Row, Names, D!Statuses, Descended, Sound, Marked, D!Live
<1> DEFINE a == <<r>>
<1>6. a \in Seq(Row) /\ Len(a) = 1 /\ a[1] = r /\ rows' = rows \o a
  BY <1>1, <1>2, <1>5 DEF r
<1>7. Keyed(a)
  BY <1>6 DEF Keyed
<1>8. \A k \in 1 .. Len(a) :
           /\ a[k].stamp = D!Stamp /\ Descended(a[k]) /\ Sound(a[k])
           /\ imports' = 0 => Marked(a[k])
           /\ \A i \in 1 .. Len(rows) : rows[i].name # a[k].name \/ rows[i].version # a[k].version
  BY <1>3, <1>5, <1>6 DEF s
<1> HIDE DEF a
<1>9. QED
  BY <1>2, <1>6, <1>7, <1>8, TableGrows

(* A set of names as a sequence has each once.                             *)
LEMMA EachOnce ==
  ASSUME NEW S, IsFiniteSet(S)
  PROVE  /\ D!SetToSeq(S) \in Seq(S)
         /\ \A k, l \in 1 .. Len(D!SetToSeq(S)) : k # l => D!SetToSeq(S)[k] # D!SetToSeq(S)[l]
<1>1. D!Cardinality(S) = Cardinality(S) /\ Cardinality(S) \in Nat
  BY FS_CardinalityType DEF D!Cardinality, Cardinality
<1>2. PICK f \in Bijection(1 .. Cardinality(S), S) : TRUE
  BY FS_CardinalityType DEF ExistsBijection
<1>3. f \in [1 .. Cardinality(S) -> S] /\ D!IsInjective(f)
  BY <1>2 DEF Bijection, Injection, IsInjective, D!IsInjective
<1> DEFINE g == D!SetToSeq(S)
<1>4. g \in [1 .. Cardinality(S) -> S] /\ D!IsInjective(g)
  BY <1>1, <1>3 DEF D!SetToSeq
<1> HIDE DEF g
<1>5. g \in Seq(S) /\ Len(g) = Cardinality(S)
  BY <1>1, <1>4
<1>6. \A k, l \in 1 .. Len(g) : k # l => g[k] # g[l]
  BY <1>4, <1>5 DEF D!IsInjective
<1>7. QED
  BY <1>5, <1>6 DEF g

(* Which row a shipped skill is in.                                        *)
LEMMA RowFound ==
  ASSUME CatalogueInv, NEW n \in Shipped
  PROVE  \/ /\ D!RowOf(n) = 0
            /\ \A i \in 1 .. Len(rows) : /\ rows[i].name # n \/ rows[i].version # 1
                                         /\ rows[i].origin # n
         \/ /\ D!RowOf(n) \in 1 .. Len(rows) /\ rows[D!RowOf(n)].version = 1
            /\ rows[D!RowOf(n)].name = n \/ rows[D!RowOf(n)].origin = n
<1>1. rows \in Seq(Row) /\ DOMAIN rows = 1 .. Len(rows) /\ Len(rows) \in Nat
  BY DEF CatalogueInv, RowsTyped
<1>2. D!OfName(n) = {i \in 1 .. Len(rows) : rows[i].name = n /\ rows[i].version = 1}
      /\ D!OfOrigin(n) = {i \in 1 .. Len(rows) : rows[i].origin = n}
  BY <1>1 DEF D!OfName, D!OfOrigin
<1>3. ASSUME NEW S \in SUBSET (1 .. Len(rows)), S # {} PROVE D!Min(S) \in S
  <2>1. S \in SUBSET Nat
    BY <1>1
  <2>2. \E m \in S : \A x \in S : m =< x
    BY <1>3, <2>1, NaturalsHaveMinimum
  <2>3. QED
    BY <2>2 DEF D!Min
<1>4. CASE D!OfName(n) # {}
  <2>1. D!RowOf(n) = D!Min(D!OfName(n))
    BY <1>4 DEF D!RowOf
  <2>2. D!OfName(n) \in SUBSET (1 .. Len(rows))
    BY <1>2
  <2>3. D!RowOf(n) \in D!OfName(n)
    BY <1>3, <1>4, <2>1, <2>2
  <2>4. QED
    BY <1>2, <2>3
<1>5. CASE D!OfName(n) = {} /\ D!OfOrigin(n) # {}
  <2>1. D!RowOf(n) = D!Min(D!OfOrigin(n))
    BY <1>5 DEF D!RowOf
  <2>2. D!OfOrigin(n) \in SUBSET (1 .. Len(rows))
    BY <1>2
  <2>3. D!RowOf(n) \in D!OfOrigin(n)
    BY <1>3, <1>5, <2>1, <2>2
  <2>4. rows[D!RowOf(n)].version = 1
    BY <1>2, <2>3, CatalogueAssumption DEF CatalogueInv, RowsSound, Sound
  <2>5. QED
    BY <1>2, <2>3, <2>4
<1>6. CASE D!OfName(n) = {} /\ D!OfOrigin(n) = {}
  <2>1. D!RowOf(n) = 0
    BY <1>6 DEF D!RowOf
  <2>2. QED
    BY <1>2, <1>6, <2>1
<1>7. QED
  BY <1>4, <1>5, <1>6

Reseeded(n, name) == [D!ShippedRow(n) EXCEPT !.name = name]

LEMMA ShippedFields ==
  ASSUME NEW n \in Shipped, D!Stamp \in Nat, NEW name \in Names
  PROVE  /\ Reseeded(n, name) \in Row /\ Reseeded(n, name).name = name
         /\ Reseeded(n, name).version = 1 /\ Reseeded(n, name).stamp = D!Stamp
         /\ Reseeded(n, name).seed = n /\ Descended(Reseeded(n, name))
         /\ Sound(Reseeded(n, name)) /\ Marked(Reseeded(n, name))
<1> DEFINE s == D!Stamp
           r == Reseeded(n, name)
<1>1. s \in Nat
  OBVIOUS
<1>2. r = [name |-> name, version |-> 1, status |-> "promoted", spec |-> "promoted", text |-> 0,
           override |-> FALSE, origin |-> n, shipped |-> TRUE, learned |-> FALSE,
           by |-> "ship", seed |-> n, stamp |-> s]
  <2> DEFINE q == D!ShippedRow(n)
  <2>1. q = [name |-> n, version |-> 1, status |-> "promoted", spec |-> "promoted", text |-> 0,
             override |-> FALSE, origin |-> n, shipped |-> TRUE, learned |-> FALSE,
             by |-> "ship", seed |-> n, stamp |-> s]
    BY DEF D!ShippedRow
  <2>2. r = [q EXCEPT !.name = name]
    BY DEF Reseeded
  <2> HIDE DEF q, r, s
  <2>3. QED
    BY <2>1, <2>2
<1> HIDE DEF s, r
<1>3. r \in Row
  <2>1. n \in Names \cup {D!None} /\ n \in Shipped \cup {D!None}
    BY DEF Names
  <2>2. "promoted" \in D!Statuses /\ "promoted" \in D!Statuses \cup {"deleted"}
    BY DEF D!Statuses
  <2>3. "ship" \in {"ship", "run", "operator"} /\ TRUE \in BOOLEAN /\ FALSE \in BOOLEAN
        /\ 1 \in Nat /\ 0 \in Nat
    OBVIOUS
  <2>4. QED
    BY <1>1, <1>2, <2>1, <2>2, <2>3 DEF Row
<1>4. /\ r.name = name /\ r.version = 1 /\ r.stamp = s /\ r.seed = n
      /\ Descended(r) /\ Sound(r) /\ Marked(r)
  BY <1>2 DEF Descended, Sound, Marked, D!Live
<1>5. QED
  BY <1>3, <1>4 DEF s, r

LEMMA SeedTable ==
  ASSUME CatalogueInv, D!Seed
  PROVE  /\ CatalogueInv'
         /\ \A i \in 1 .. Len(rows) :
              \/ rows'[i] = rows[i]
              \/ \E n \in D!Stale : D!RowOf(n) = i /\ rows'[i].name = rows[i].name
         /\ DOMAIN rows = 1 .. Len(rows)
         /\ \A k \in DOMAIN rows' \ DOMAIN rows :
              \E n \in Shipped : D!RowOf(n) = 0 /\ rows'[k].seed = n
<1> DEFINE New == {n \in Shipped : D!RowOf(n) = 0}
           Was(i) == \E n \in D!Stale : D!RowOf(n) = i
           Of(i) == CHOOSE n \in D!Stale : D!RowOf(n) = i
           Rewritten(i) == Reseeded(Of(i), rows[i].name)
           f == [i \in DOMAIN rows |-> IF Was(i) THEN Rewritten(i) ELSE rows[i]]
           m == D!SetToSeq(New)
           a == [k \in DOMAIN m |-> D!ShippedRow(m[k])]
<1>1. /\ D!Write(did') /\ UNCHANGED <<tab, bundle, imports>> /\ rows \in Seq(Row) /\ D!Stamp \in Nat
      /\ imports \in 0 .. MaxImports /\ DOMAIN rows = 1 .. Len(rows) /\ Len(rows) \in Nat
  BY CatalogueAssumption DEF D!Seed, D!Write, CatalogueInv, RowsTyped, D!Stamp
<1>2. rows' = f \o a
  BY DEF D!Seed, D!Missing, Reseeded
<1>3. m \in Seq(New) /\ \A k, l \in 1 .. Len(m) : k # l => m[k] # m[l]
  <2>1. IsFiniteSet(New)
    <3>1. New \in SUBSET Shipped
      OBVIOUS
    <3> HIDE DEF New
    <3>2. QED
      BY <3>1, CatalogueAssumption, FS_Subset
  <2> HIDE DEF New
  <2>2. QED
    BY <2>1, EachOnce
<1>4. ASSUME NEW i \in 1 .. Len(rows), Was(i)
      PROVE  /\ Rewritten(i) \in Row /\ Rewritten(i).name = rows[i].name /\ Rewritten(i).version = 1
             /\ rows[i].version = 1 /\ Rewritten(i).stamp = D!Stamp /\ Descended(Rewritten(i))
             /\ Sound(Rewritten(i)) /\ Marked(Rewritten(i))
  <2> DEFINE n == Of(i)
             name == rows[i].name
             r == Rewritten(i)
  <2>1. n \in D!Stale /\ D!RowOf(n) = i
    BY <1>4
  <2>2. n \in Shipped /\ D!RowOf(n) # 0
    BY <2>1 DEF D!Stale
  <2>3. rows[i].version = 1
    <3> HIDE DEF n
    <3>1. QED
      BY <2>1, <2>2, RowFound
  <2>4. rows[i] \in Row
    BY <1>1
  <2>5. name \in Names
    BY <2>4 DEF Row
  <2>6. r = Reseeded(n, name)
    OBVIOUS
  <2> HIDE DEF n, name, r
  <2>7. /\ r \in Row /\ r.name = name /\ r.version = 1 /\ r.stamp = D!Stamp
        /\ Descended(r) /\ Sound(r) /\ Marked(r)
    BY <1>1, <2>2, <2>5, <2>6, ShippedFields
  <2>8. QED
    BY <2>3, <2>7 DEF r, name
<1>5. ASSUME NEW k \in 1 .. Len(m)
      PROVE  /\ a[k] \in Row /\ a[k].name = m[k] /\ a[k].version = 1 /\ a[k].stamp = D!Stamp
             /\ a[k].seed = m[k] /\ Descended(a[k]) /\ Sound(a[k]) /\ Marked(a[k]) /\ m[k] \in New
  <2> DEFINE n == m[k]
             r == a[k]
  <2>1. n \in New /\ n \in Shipped
    BY <1>3
  <2>2. r = D!ShippedRow(n)
    BY <1>3
  <2>3. n \in Names
    BY <2>1 DEF Names
  <2>4. r = Reseeded(n, n)
    BY <2>2 DEF D!ShippedRow, Reseeded
  <2> HIDE DEF n, r
  <2>5. /\ r \in Row /\ r.name = n /\ r.version = 1 /\ r.stamp = D!Stamp /\ r.seed = n
        /\ Descended(r) /\ Sound(r) /\ Marked(r)
    BY <1>1, <2>1, <2>3, <2>4, ShippedFields
  <2>6. QED
    BY <2>1, <2>5 DEF n, r
<1>6. \A i \in 1 .. Len(rows) : f[i] = IF Was(i) THEN Rewritten(i) ELSE rows[i]
  BY <1>1
<1>7. f \in Seq(Row) /\ Len(f) = Len(rows)
  <2>1. \A i \in 1 .. Len(rows) : f[i] \in Row
    BY <1>1, <1>4, <1>6
  <2>2. f \in [1 .. Len(rows) -> Row]
    <3>1. f = [i \in 1 .. Len(rows) |-> f[i]]
      BY <1>1
    <3> HIDE DEF f
    <3>2. QED
      BY <2>1, <3>1
  <2> HIDE DEF f
  <2>3. QED
    BY <1>1, <2>2
<1>8. a \in Seq(Row) /\ Len(a) = Len(m) /\ Len(m) \in Nat
  <2>1. DOMAIN m = 1 .. Len(m) /\ Len(m) \in Nat
    BY <1>3
  <2>2. a \in [1 .. Len(m) -> Row]
    <3>1. a = [k \in 1 .. Len(m) |-> a[k]]
      BY <2>1
    <3> HIDE DEF a
    <3>2. QED
      BY <1>5, <3>1
  <2> HIDE DEF a, m
  <2>3. QED
    BY <2>1, <2>2
<1>9. \A k \in 1 .. Len(m) : m[k] \in Shipped /\ D!RowOf(m[k]) = 0
  BY <1>3
<1>10. \A i \in 1 .. Len(rows) : Was(i) <=> \E n \in D!Stale : D!RowOf(n) = i
  OBVIOUS
<1> DEFINE W == {i \in 1 .. Len(rows) : Was(i)}
<1>11. \A i \in 1 .. Len(rows) :
         \/ f[i] = rows[i]
         \/ /\ i \in W /\ f[i].name = rows[i].name /\ f[i].version = rows[i].version
            /\ f[i].stamp = D!Stamp /\ Descended(f[i]) /\ Sound(f[i]) /\ Marked(f[i])
  BY <1>4, <1>6
<1>12. \A i \in W : \E n \in D!Stale : D!RowOf(n) = i
  OBVIOUS
<1> HIDE DEF f, a, m, W, New, Was
<1>13. Keyed(a)
  BY <1>3, <1>5, <1>8 DEF Keyed
<1>14. \A k \in 1 .. Len(a) :
           /\ a[k].stamp = D!Stamp /\ Descended(a[k]) /\ Sound(a[k])
           /\ imports' = 0 => Marked(a[k])
           /\ \A i \in 1 .. Len(rows) : rows[i].name # a[k].name \/ rows[i].version # a[k].version
  <2>1. SUFFICES ASSUME NEW k \in 1 .. Len(m)
                 PROVE  \A i \in 1 .. Len(rows) : rows[i].name # m[k] \/ rows[i].version # 1
    BY <1>5, <1>8
  <2> DEFINE n == m[k]
  <2>2. n \in Shipped /\ D!RowOf(n) = 0
    BY <1>9
  <2> HIDE DEF n
  <2>3. \A i \in 1 .. Len(rows) : rows[i].name # n \/ rows[i].version # 1
    BY <1>1, <2>2, RowFound
  <2>4. QED
    BY <2>3 DEF n
<1>15. CatalogueInv'
  BY <1>1, <1>2, <1>7, <1>8, <1>11, <1>13, <1>14, TableGrows
<1>16. \A i \in 1 .. Len(rows) : rows'[i] = f[i]
  BY <1>1, <1>2, <1>7, <1>8
<1>17. ASSUME NEW k \in DOMAIN rows' \ DOMAIN rows
       PROVE  \E n \in Shipped : D!RowOf(n) = 0 /\ rows'[k].seed = n
  <2>1. DOMAIN rows' = 1 .. Len(rows) + Len(m)
    <3>1. DOMAIN (f \o a) = 1 .. Len(f) + Len(a)
      BY <1>7, <1>8
    <3>2. QED
      BY <1>2, <1>7, <1>8, <3>1
  <2> DEFINE l == k - Len(rows)
  <2>2. l \in 1 .. Len(m) /\ rows'[k] = a[l]
    <3>1. k \in 1 .. Len(rows) + Len(m) /\ k \notin 1 .. Len(rows)
      BY <1>1, <1>17, <2>1
    <3>2. l \in 1 .. Len(m)
      BY <1>1, <1>8, <3>1
    <3>3. QED
      BY <1>1, <1>2, <1>7, <1>8, <3>1, <3>2
  <2> HIDE DEF l
  <2>3. QED
    BY <1>5, <1>9, <2>2
<1>18. QED
  BY <1>1, <1>11, <1>12, <1>15, <1>16, <1>17

(* A bundle is part of the table.                                          *)
LEMMA ExportKeeps == ASSUME CatalogueInv, D!Export PROVE CatalogueInv'
<1>1. PICK S \in SUBSET DOMAIN rows :
        bundle' = [k \in DOMAIN D!Picked(rows, S) |-> D!Portable(D!Picked(rows, S)[k])]
  <2>1. PICK statuses \in {{"promoted"}, {"promoted", "draft", "deprecated"}}, learnedOnly \in BOOLEAN :
          LET chosen == {i \in DOMAIN rows : rows[i].status \in statuses}
              carried == D!Picked(rows, {i \in chosen : learnedOnly => rows[i].learned})
          IN bundle' = [k \in DOMAIN carried |-> D!Portable(carried[k])]
    BY DEF D!Export
  <2> DEFINE chosen == {i \in DOMAIN rows : rows[i].status \in statuses}
             S == {i \in chosen : learnedOnly => rows[i].learned}
  <2>2. bundle' = [k \in DOMAIN D!Picked(rows, S) |-> D!Portable(D!Picked(rows, S)[k])]
    BY <2>1
  <2>3. S \in SUBSET DOMAIN rows
    OBVIOUS
  <2> HIDE DEF S
  <2>4. QED
    BY <2>2, <2>3
<1> DEFINE p == D!Picked(rows, S)
           n == Cardinality(S)
<1>2. UNCHANGED <<rows, tab, clock, imports>> /\ rows \in Seq(Row) /\ DOMAIN rows = 1 .. Len(rows)
      /\ Len(rows) \in Nat
  BY DEF D!Export, CatalogueInv, RowsTyped
<1>3. IsFiniteSet(S) /\ S \in SUBSET Int
  <2>1. S \in SUBSET (1 .. Len(rows)) /\ IsFiniteSet(1 .. Len(rows))
    BY <1>2, FS_Interval
  <2>2. QED
    BY <1>2, <2>1, FS_Subset
<1>4. D!Picked(rows, S) = [k \in 1 .. n |-> rows[Nth(S, k)]]
  BY DEF D!Picked, D!Nth, Nth, D!Cardinality, Cardinality
<1>5. n \in Nat /\ (\A k \in 1 .. n : Nth(S, k) \in S) /\ \A k, l \in 1 .. n : k < l => Nth(S, k) < Nth(S, l)
  BY <1>3, PlacesInOrder
<1> DEFINE o == [k \in 1 .. n |-> rows[Nth(S, k)]]
<1> HIDE DEF n
<1>6. \A k \in 1 .. n : o[k] \in Row /\ Descended(o[k])
  BY <1>2, <1>5 DEF CatalogueInv, RowsSound
<1>7. \A k, l \in 1 .. n : k # l => o[k].name # o[l].name \/ o[k].version # o[l].version
  <2>1. SUFFICES ASSUME NEW k \in 1 .. n, NEW l \in 1 .. n, k # l
                 PROVE  o[k].name # o[l].name \/ o[k].version # o[l].version
    OBVIOUS
  <2> DEFINE i == Nth(S, k)
             j == Nth(S, l)
  <2>2. i \in 1 .. Len(rows) /\ j \in 1 .. Len(rows)
    BY <1>2, <1>5
  <2>3. i # j
    <3>1. k < l \/ l < k
      BY <1>5, <2>1
    <3>2. i < j \/ j < i
      BY <1>5, <3>1
    <3>3. QED
      BY <1>2, <2>2, <3>2
  <2>4. o[k] = rows[i] /\ o[l] = rows[j]
    OBVIOUS
  <2> HIDE DEF i, j
  <2>5. QED
    BY <2>2, <2>3, <2>4 DEF CatalogueInv, Keyed
<1>8. bundle' = [k \in 1 .. n |-> D!Portable(o[k])]
  BY <1>1, <1>4
<1> HIDE DEF o
<1>9. ASSUME NEW k \in 1 .. n
      PROVE  /\ D!Portable(o[k]) \in Parcel /\ Descended(D!Portable(o[k]))
             /\ D!Portable(o[k]).name = o[k].name /\ D!Portable(o[k]).version = o[k].version
  <2> DEFINE r == o[k]
  <2>1. r \in Row /\ Descended(r)
    BY <1>6
  <2> HIDE DEF r
  <2>2. D!Portable(r) \in Parcel
    BY <2>1 DEF D!Portable, Row, Parcel
  <2>3. Descended(D!Portable(r)) /\ D!Portable(r).name = r.name /\ D!Portable(r).version = r.version
    BY <2>1 DEF D!Portable, Descended
  <2>4. QED
    BY <2>2, <2>3 DEF r
<1>10. bundle' \in Seq(Parcel) /\ Len(bundle') = n
  <2>1. bundle' \in [1 .. n -> Parcel]
    BY <1>8, <1>9
  <2>2. QED
    BY <1>5, <2>1
<1>11. \A k \in 1 .. n : bundle'[k] = D!Portable(o[k])
  BY <1>8
<1>12. BundleSound'
  BY <1>7, <1>9, <1>10, <1>11 DEF BundleSound, Keyed
<1>13. RowsTyped'
  BY <1>2, <1>10 DEF CatalogueInv, RowsTyped
<1>14. RowsSound' /\ Keyed(rows)' /\ TabCurrent'
  BY <1>2 DEF CatalogueInv, RowsSound, Keyed, TabCurrent
<1>15. QED
  BY <1>12, <1>13, <1>14 DEF CatalogueInv

LEMMA AttachedFields ==
  ASSUME NEW p \in Parcel, Descended(p), D!Stamp \in Nat
  PROVE  /\ D!Attached(p) \in Row /\ D!Attached(p).name = p.name /\ D!Attached(p).version = p.version
         /\ D!Attached(p).stamp = D!Stamp /\ Descended(D!Attached(p)) /\ Sound(D!Attached(p))
<1> DEFINE s == D!Stamp
           r == D!Attached(p)
<1>1. s \in Nat
  OBVIOUS
<1>2. r = [name |-> p.name, version |-> p.version, status |-> p.spec, spec |-> p.spec, text |-> p.text,
           override |-> FALSE, origin |-> D!None, shipped |-> p.shipped, learned |-> p.learned,
           by |-> p.by, seed |-> p.seed, stamp |-> s]
  BY DEF D!Attached
<1> HIDE DEF s, r
<1>3. r \in Row
  BY <1>1, <1>2 DEF Row, Parcel
<1>4. /\ r.name = p.name /\ r.version = p.version /\ r.stamp = s /\ Descended(r) /\ Sound(r)
  BY <1>2 DEF Descended, Sound, D!Live
<1>5. QED
  BY <1>3, <1>4 DEF s, r

LEMMA ImportKeeps == ASSUME CatalogueInv, D!Import PROVE CatalogueInv'
<1>1. PICK policy \in Policies :
        LET new == D!Picked(bundle, {k \in DOMAIN bundle : D!Existing(bundle[k]) = {}})
            Replaces(i) == {k \in DOMAIN bundle : i \in D!Existing(bundle[k])}
        IN rows' = [i \in DOMAIN rows |->
                      IF policy = "replace" /\ Replaces(i) # {}
                      THEN D!Attached(bundle[D!Min(Replaces(i))]) ELSE rows[i]]
                   \o [k \in DOMAIN new |-> D!Attached(new[k])]
  BY DEF D!Import
<1> DEFINE S == {k \in DOMAIN bundle : D!Existing(bundle[k]) = {}}
           Replaces(i) == {k \in DOMAIN bundle : i \in D!Existing(bundle[k])}
           Taken(i) == policy = "replace" /\ Replaces(i) # {}
           Source(i) == bundle[D!Min(Replaces(i))]
           f == [i \in DOMAIN rows |-> IF Taken(i) THEN D!Attached(Source(i)) ELSE rows[i]]
           new == D!Picked(bundle, S)
           n == Cardinality(S)
           o == [k \in 1 .. n |-> bundle[Nth(S, k)]]
           a == [k \in 1 .. n |-> D!Attached(o[k])]
<1>2. /\ D!Write(did') /\ UNCHANGED tab /\ bundle' = <<>> /\ imports' = imports + 1
      /\ imports' \in 0 .. MaxImports /\ imports' # 0 /\ rows \in Seq(Row) /\ D!Stamp \in Nat
      /\ DOMAIN rows = 1 .. Len(rows) /\ Len(rows) \in Nat /\ bundle \in Seq(Parcel)
      /\ DOMAIN bundle = 1 .. Len(bundle) /\ Len(bundle) \in Nat
  BY CatalogueAssumption DEF D!Import, D!Write, D!NoFile, CatalogueInv, RowsTyped, D!Stamp
<1>3. new = o
  BY DEF D!Picked, D!Nth, Nth, D!Cardinality, Cardinality
<1>4. rows' = f \o a
  <2>1. rows' = f \o [k \in DOMAIN new |-> D!Attached(new[k])]
    BY <1>1
  <2>2. [k \in DOMAIN new |-> D!Attached(new[k])] = a
    <3> HIDE DEF new, n
    <3>1. DOMAIN new = 1 .. n
      BY <1>3
    <3>2. QED
      BY <1>3, <3>1
  <2> HIDE DEF f, new, a
  <2>3. QED
    BY <2>1, <2>2
<1>5. n \in Nat /\ (\A k \in 1 .. n : Nth(S, k) \in S) /\ \A k, l \in 1 .. n : k < l => Nth(S, k) < Nth(S, l)
  <2>1. S \in SUBSET (1 .. Len(bundle)) /\ IsFiniteSet(1 .. Len(bundle))
    BY <1>2, FS_Interval
  <2> HIDE DEF S
  <2>2. IsFiniteSet(S)
    BY <2>1, FS_Subset
  <2>3. S \in SUBSET Int
    BY <1>2, <2>1
  <2>4. QED
    BY <2>2, <2>3, PlacesInOrder DEF n
<1>6. \A k \in 1 .. Len(bundle) : bundle[k] \in Parcel /\ Descended(bundle[k])
  BY <1>2 DEF CatalogueInv, BundleSound
<1>7. \A k, i : k \in S /\ i \in 1 .. Len(rows)
                => k \in 1 .. Len(bundle)
                   /\ (rows[i].name # bundle[k].name \/ rows[i].version # bundle[k].version)
  BY <1>2 DEF D!Existing
<1>8. ASSUME NEW i \in 1 .. Len(rows), Taken(i)
      PROVE  /\ Source(i) \in Parcel /\ Descended(Source(i))
             /\ Source(i).name = rows[i].name /\ Source(i).version = rows[i].version
  <2> DEFINE R == Replaces(i)
  <2>1. R \in SUBSET Nat /\ R # {}
    BY <1>2, <1>8
  <2>2. \A k \in R : k \in 1 .. Len(bundle) /\ bundle[k].name = rows[i].name
                     /\ bundle[k].version = rows[i].version
    BY <1>2 DEF D!Existing
  <2>3. Source(i) = bundle[D!Min(R)]
    OBVIOUS
  <2> HIDE DEF R
  <2>4. \E m \in R : \A x \in R : m =< x
    BY <2>1, NaturalsHaveMinimum
  <2>5. D!Min(R) \in R
    BY <2>4 DEF D!Min
  <2>6. QED
    BY <1>6, <2>2, <2>3, <2>5
<1>9. \A i \in 1 .. Len(rows) : f[i] = IF Taken(i) THEN D!Attached(Source(i)) ELSE rows[i]
  BY <1>2
<1>10. f = [i \in 1 .. Len(rows) |-> f[i]]
  BY <1>2
<1>11. \A k \in 1 .. n : o[k] = bundle[Nth(S, k)] /\ a[k] = D!Attached(o[k])
  OBVIOUS
<1>12. a = [k \in 1 .. n |-> a[k]]
  OBVIOUS
<1> HIDE DEF S, Taken, Source, f, n, o, a
<1>13. ASSUME NEW k \in 1 .. n
       PROVE  /\ a[k] \in Row /\ a[k].name = o[k].name /\ a[k].version = o[k].version
              /\ a[k].stamp = D!Stamp /\ Descended(a[k]) /\ Sound(a[k])
  <2> DEFINE p == o[k]
  <2>1. Nth(S, k) \in S /\ Nth(S, k) \in 1 .. Len(bundle)
    <3>1. Nth(S, k) \in S
      BY <1>5
    <3>2. S \in SUBSET (1 .. Len(bundle))
      BY <1>2 DEF S
    <3>3. QED
      BY <3>1, <3>2
  <2>2. p \in Parcel /\ Descended(p) /\ a[k] = D!Attached(p)
    BY <1>6, <1>11, <2>1
  <2> HIDE DEF p
  <2>3. QED
    BY <1>2, <2>2, AttachedFields DEF p
<1>14. a \in Seq(Row) /\ Len(a) = n
  <2>1. a \in [1 .. n -> Row]
    BY <1>12, <1>13
  <2>2. QED
    BY <1>5, <2>1
<1>15. ASSUME NEW i \in 1 .. Len(rows)
       PROVE  /\ f[i] \in Row
              /\ \/ f[i] = rows[i]
                 \/ /\ f[i].name = rows[i].name /\ f[i].version = rows[i].version
                    /\ f[i].stamp = D!Stamp /\ Descended(f[i]) /\ Sound(f[i])
  <2>1. CASE Taken(i)
    <3> DEFINE p == Source(i)
    <3>1. p \in Parcel /\ Descended(p) /\ p.name = rows[i].name /\ p.version = rows[i].version
          /\ f[i] = D!Attached(p)
      BY <1>8, <1>9, <2>1
    <3> HIDE DEF p
    <3>2. QED
      BY <1>2, <3>1, AttachedFields
  <2>2. CASE ~Taken(i)
    BY <1>2, <1>9, <2>2
  <2>3. QED
    BY <2>1, <2>2
<1>16. f \in Seq(Row) /\ Len(f) = Len(rows)
  <2>1. f \in [1 .. Len(rows) -> Row]
    BY <1>10, <1>15
  <2>2. QED
    BY <1>2, <2>1
<1>17. Keyed(a)
  <2>1. SUFFICES ASSUME NEW k \in 1 .. n, NEW l \in 1 .. n, k # l
                 PROVE  a[k].name # a[l].name \/ a[k].version # a[l].version
    BY <1>14 DEF Keyed
  <2> DEFINE i == Nth(S, k)
             j == Nth(S, l)
  <2>2. i \in 1 .. Len(bundle) /\ j \in 1 .. Len(bundle)
    BY <1>2, <1>5 DEF S
  <2>3. i # j
    <3>1. k < l \/ l < k
      BY <1>5, <2>1
    <3>2. i < j \/ j < i
      BY <1>5, <3>1
    <3>3. QED
      BY <1>2, <2>2, <3>2
  <2>4. o[k] = bundle[i] /\ o[l] = bundle[j]
    BY <1>11
  <2> HIDE DEF i, j
  <2>5. o[k].name # o[l].name \/ o[k].version # o[l].version
    BY <2>2, <2>3, <2>4 DEF CatalogueInv, BundleSound, Keyed
  <2>6. QED
    BY <1>13, <2>5
<1>18. \A k \in 1 .. Len(a) :
           /\ a[k].stamp = D!Stamp /\ Descended(a[k]) /\ Sound(a[k])
           /\ imports' = 0 => Marked(a[k])
           /\ \A i \in 1 .. Len(rows) : rows[i].name # a[k].name \/ rows[i].version # a[k].version
  <2>1. SUFFICES ASSUME NEW k \in 1 .. n
                 PROVE  \A i \in 1 .. Len(rows) :
                          rows[i].name # a[k].name \/ rows[i].version # a[k].version
    BY <1>2, <1>13, <1>14
  <2> DEFINE l == Nth(S, k)
  <2>2. l \in S /\ o[k] = bundle[l]
    BY <1>5, <1>11
  <2> HIDE DEF l
  <2>3. \A i \in 1 .. Len(rows) : rows[i].name # bundle[l].name \/ rows[i].version # bundle[l].version
    BY <1>7, <2>2
  <2>4. QED
    BY <1>13, <2>2, <2>3
<1>19. QED
  BY <1>2, <1>4, <1>14, <1>15, <1>16, <1>17, <1>18, TableGrows

(* A look at a skill, and a refusal.                                       *)
LEMMA LookKeeps == ASSUME CatalogueInv, D!Open \/ D!Refused PROVE CatalogueInv'
<1>1. UNCHANGED <<rows, bundle, clock, imports>> /\ DOMAIN rows = 1 .. Len(rows)
  BY DEF D!Open, D!Refused, CatalogueInv, RowsTyped
<1>2. TabCurrent'
  <2>1. CASE D!Refused
    BY <2>1 DEF D!Refused, TabCurrent
  <2>2. CASE D!Open
    <3>1. PICK i \in 1 .. Len(rows) : tab' = [row |-> i, stamp |-> rows[i].stamp, seen |-> {rows[i]}]
      BY <1>1, <2>2 DEF D!Open
    <3>2. rows[i].stamp \in 0 .. clock
      BY <3>1 DEF CatalogueInv, RowsSound, RowsTyped
    <3>3. tab'.row = i /\ tab'.stamp = rows[i].stamp /\ tab'.seen = {rows[i]}
      BY <3>1
    <3>4. QED
      BY <1>1, <3>2, <3>3 DEF TabCurrent
  <2>3. QED
    BY <2>1, <2>2
<1>3. RowsTyped' /\ RowsSound' /\ Keyed(rows)' /\ BundleSound'
  BY <1>1 DEF CatalogueInv, RowsTyped, RowsSound, Keyed, BundleSound
<1>4. QED
  BY <1>2, <1>3 DEF CatalogueInv

LEMMA StepCatalogue == ASSUME CatalogueInv, [D!Next]_(D!vars) PROVE CatalogueInv'
<1>1. CASE D!Next
  BY <1>1, SeedTable, LearnKeeps, PromotedDraftKeeps, LookKeeps, OperatorKeeps, ExportKeeps, ImportKeeps
     DEF D!Next
<1>2. CASE UNCHANGED D!vars
  BY <1>2 DEF D!vars, CatalogueInv, RowsTyped, RowsSound, Keyed, TabCurrent, BundleSound
<1>3. QED
  BY <1>1, <1>2

LEMMA CatalogueTyped == ASSUME CatalogueInv PROVE D!TypeOK
<1>1. rows \in Seq(Row) /\ DOMAIN rows = 1 .. Len(rows) /\ Len(rows) \in Nat
      /\ clock \in 0 .. MaxWrites /\ imports \in 0 .. MaxImports
  BY DEF CatalogueInv, RowsTyped
<1>2. ASSUME NEW i \in DOMAIN rows
      PROVE  /\ rows[i].status \in D!Statuses \cup {"deleted"} /\ rows[i].spec \in D!Statuses
             /\ rows[i].origin \in Shipped \cup Learned \cup Given \cup {D!None}
             /\ rows[i].stamp \in 1 .. clock
             /\ rows[i].override => rows[i].by = "operator"
  <2>1. rows[i] \in Row
    BY <1>1
  <2>2. rows[i].stamp \in 1 .. clock /\ Sound(rows[i])
    BY <1>1 DEF CatalogueInv, RowsSound
  <2>3. QED
    BY <2>1, <2>2 DEF Row, Names, Sound
<1>3. tab.row \in 0 .. Len(rows) /\ tab.stamp \in 0 .. clock
  BY <1>1, CatalogueAssumption DEF CatalogueInv, TabCurrent, D!Closed
<1>4. QED
  BY <1>1, <1>2, <1>3 DEF D!TypeOK

(* Seeding rewrites a row that is alive and not marked. What an operator   *)
(* wrote is marked, or it is a draft of a run's and then of no shipped     *)
(* name: the names that runs and operators give are not the shipped ones.  *)
NamesAreTheirOwn == (Learned \cup Given) \cap Shipped = {}

LEMMA SeedReversesNothing ==
  ASSUME CatalogueInv, D!Seed, imports' = 0, NamesAreTheirOwn
  PROVE  D!SeedingKeeps
<1>1. UNCHANGED imports /\ rows \in Seq(Row) /\ DOMAIN rows = 1 .. Len(rows)
  BY DEF D!Seed, CatalogueInv, RowsTyped
<1>2. ASSUME NEW i \in 1 .. Len(rows), NEW n \in D!Stale, D!RowOf(n) = i
      PROVE  rows[i].by # "operator" /\ D!Live(rows[i])
  <2>1. n \in Shipped /\ D!RowOf(n) # 0 /\ D!Live(rows[i]) /\ ~rows[i].override
    BY <1>2 DEF D!Stale, D!Kept
  <2>2. rows[i].name = n \/ rows[i].origin = n
    BY <1>2, <2>1, RowFound
  <2>3. Descended(rows[i]) /\ Sound(rows[i]) /\ Marked(rows[i])
    BY <1>1 DEF CatalogueInv, RowsSound
  <2>4. ~rows[i].learned
    BY <2>1, <2>2, <2>3, CatalogueAssumption DEF Descended, Sound, NamesAreTheirOwn
  <2>5. QED
    BY <2>1, <2>3, <2>4 DEF Marked
<1>3. D!SeedingReversesNothing
  <2>1. SUFFICES ASSUME NEW i \in 1 .. Len(rows), rows[i].by = "operator" \/ ~D!Live(rows[i])
                 PROVE  D!Content(rows'[i]) = D!Content(rows[i])
    BY <1>1 DEF D!SeedingReversesNothing
  <2>2. rows'[i] = rows[i]
    BY <1>2, <2>1, SeedTable
  <2>3. QED
    BY <2>2
<1>4. ASSUME NEW i \in DOMAIN rows, NEW k \in DOMAIN rows' \ DOMAIN rows
      PROVE  rows[i].seed # rows'[k].seed
  <2>1. PICK n \in Shipped : D!RowOf(n) = 0 /\ rows'[k].seed = n
    BY <1>4, SeedTable
  <2>2. rows[i].origin # n
    BY <1>1, <2>1, RowFound
  <2>3. Marked(rows[i]) /\ n # D!None
    BY <1>1, CatalogueAssumption DEF CatalogueInv, RowsSound
  <2>4. QED
    BY <2>1, <2>2, <2>3 DEF Marked
<1>5. QED
  BY <1>3, <1>4 DEF D!SeedingKeeps

LEMMA CatalogueStep ==
  ASSUME NamesAreTheirOwn, CatalogueInv, D!Next
  PROVE  D!CatalogueIsKeptStep
<1>1. D!SeedingKeepsEditsStep
  <2>1. SUFFICES ASSUME did' = "seed", imports = 0 PROVE D!SeedingKeeps
    BY DEF D!SeedingKeepsEditsStep
  <2>2. D!Seed
    BY <2>1 DEF D!Next, D!Seed, D!Learn, D!PromoteDraft, D!Open, D!Refused, D!Save, D!Delete,
                D!Promote, D!Deprecate, D!Export, D!Import, D!Submit, D!Write
  <2>3. imports' = 0
    BY <2>1, <2>2 DEF D!Seed
  <2>4. QED
    BY <2>2, <2>3, SeedReversesNothing
<1>2. D!EditsBuildOnWhatWasSeenStep
  <2>1. SUFFICES ASSUME did' \in {"save", "delete", "decide"} PROVE tab.seen = {rows[tab.row]}
    BY DEF D!EditsBuildOnWhatWasSeenStep
  <2>2. tab # D!Closed /\ D!IsCurrent
    BY <2>1 DEF D!Next, D!Seed, D!Learn, D!PromoteDraft, D!Open, D!Refused, D!Save, D!Delete,
                D!Promote, D!Deprecate, D!Export, D!Import, D!Submit, D!Write
  <2>3. QED
    BY <2>2 DEF CatalogueInv, TabCurrent, D!IsCurrent
<1>3. D!CatalogueIsSound'
  <2>1. CatalogueInv'
    BY StepCatalogue
  <2>2. DOMAIN rows' = 1 .. Len(rows')
    BY <2>1 DEF CatalogueInv, RowsTyped
  <2>3. QED
    BY <2>1, <2>2 DEF CatalogueInv, Keyed, RowsSound, Sound, D!CatalogueIsSound
<1>4. QED
  BY <1>1, <1>2, <1>3 DEF D!CatalogueIsKeptStep

LEMMA CatalogueInvariant == D!Spec => []CatalogueInv
<1>1. CatalogueInv /\ [D!Next]_(D!vars) => CatalogueInv'
  BY StepCatalogue
<1>2. QED
  BY InitCatalogue, <1>1, PTL DEF D!Spec

(* Seeding reverses nothing that an operator wrote, an edit replaces what  *)
(* the operator saw, and a name and version is of one row: for any names,  *)
(* policies and bounds.                                                    *)
THEOREM CatalogueServes ==
  /\ D!Spec => []D!TypeOK
  /\ NamesAreTheirOwn => (D!Spec => D!CatalogueIsKept)
<1>1. ASSUME NamesAreTheirOwn PROVE D!Spec => D!CatalogueIsKept
  <2>1. CatalogueInv /\ [D!Next]_(D!vars) => [D!CatalogueIsKeptStep]_(D!vars)
    BY <1>1, CatalogueStep
  <2>2. QED
    BY CatalogueInvariant, <2>1, PTL DEF D!Spec, D!CatalogueIsKept
<1>2. D!Spec => []D!TypeOK
  BY CatalogueInvariant, CatalogueTyped, PTL
<1>3. QED
  BY <1>1, <1>2
-----------------------------------------------------------------------------
CONSTANTS
  \* SkillAuthoring
  AuthoredTasks, Deeds, AuthoredSteps, AuthoredRuns, MinRelevance
VARIABLES
  task, steps, status, cited, lessons, proven, skills, runs, taken

A == INSTANCE SkillAuthoring WITH
  Tasks <- AuthoredTasks, Kinds <- Deeds, MaxSteps <- AuthoredSteps, MaxRuns <- AuthoredRuns

(* Tasks and steps are finitely many, relevance is a part of a hundred,    *)
(* and there is a run.                                                     *)
ASSUME AuthoringAssumption ==
  /\ IsFiniteSet(AuthoredTasks) /\ IsFiniteSet(Deeds)
  /\ MinRelevance \in 0 .. 100 /\ AuthoredSteps \in Nat /\ AuthoredRuns \in Nat \ {0}

(* The words that a skill may consist of, except the names of entities     *)
(* that actions on entities have.                                          *)
Fixed == A!Durable \cup {"defeat", "skill", "selected", ""}
WordsOfTask(t) == {t.id, t.category, t.item}
WordsOfDeed(k) == {k.type, k.item} \cup IF k.type \in A!EntityActions THEN {} ELSE {k.entity}
WordsOfTasks == UNION {WordsOfTask(t) : t \in AuthoredTasks}
WordsOfDeeds == UNION {WordsOfDeed(k) : k \in Deeds}
OtherWords == Fixed \cup WordsOfTasks \cup WordsOfDeeds
Words ==
  OtherWords \cup {t.entity : t \in AuthoredTasks} \cup {k.entity : k \in Deeds}

(* Those of a skill for a task: if it is about an entity, no other one.    *)
Own(t) == IF t.entity # "" THEN OtherWords \cup {t.entity} ELSE Words

(* What a lesson is, and what is true of it.                               *)
LessonStatuses == {"observed", "hypothesized", "corroborated", "validated", "promoted"}
LessonKinds ==
  {"navigation_recovery", "combat_adaptation", "processing_recovery", "resource_strategy",
   "tactical_recovery"}
LessonRecord ==
  [scope : {A!Scope(t) : t \in AuthoredTasks}, type : {k.type : k \in Deeds}, failure : A!Durable,
   kind : LessonKinds, status : LessonStatuses, support : Int,
   recovery : SUBSET [by : SUBSET Int, steps : Seq(Deeds)],
   from : {"succeeded", "failed", "task_timeout"}, steps : Seq(Deeds)]
StallRepeated(l) ==
  l.from = "task_timeout" \/ l.failure = "timeout_no_progress" =>
    \E i, j \in DOMAIN l.steps :
      /\ i # j /\ A!Near(l.steps[i].place, l.steps[j].place)
      /\ \A h \in {i, j} : /\ l.steps[h].type = "move_to" /\ l.steps[h].stalled
                           /\ l.steps[h].status = "timeout_no_progress"
FollowedUp(l, r) ==
  \A i \in DOMAIN r.steps :
    /\ r.steps[i].type = l.type /\ r.steps[i].status = l.failure
    /\ l.failure # "timeout_no_progress"
    /\ \A j \in DOMAIN r.steps : j > i => r.steps[j].status \notin A!Durable
    => \E j \in r.by : j > i
LessonEarned(l) == l \in LessonRecord /\ StallRepeated(l) /\ \A r \in l.recovery : FollowedUp(l, r)

(* What is true of a skill by itself.                                      *)
OfOwnWords(s) ==
  /\ s.task \in AuthoredTasks /\ s.source \in Seq(Deeds) /\ s.plan \in Seq(Deeds)
  /\ A!SemanticTokens(s) \subseteq Own(s.task)
  /\ \A i \in DOMAIN s.plan : {s.plan[i].type, s.plan[i].entity, s.plan[i].item} \subseteq Own(s.task)
EarnedAlone(s) ==
  Len(s.plan) = 1 =>
     \/ s.lessons # {}
     \/ \E i \in DOMAIN s.source : /\ ~s.source[i].ok
                                   /\ \/ s.task.entity = ""
                                      \/ s.source[i].entity \in {"", s.task.entity}
                                      \/ s.source[i].type \notin A!EntityActions
SkillSound(s) ==
  /\ s.status \in {"draft", "promoted"} /\ OfOwnWords(s) /\ EarnedAlone(s)
  /\ s.task.id \in s.triggers /\ \E p, q \in Words : s.name = <<p, q>>

AuthoringTyped ==
  /\ task \in AuthoredTasks /\ steps \in Seq(Deeds) /\ cited \in BOOLEAN
  /\ runs \in 1 .. AuthoredRuns /\ taken \in 0 .. AuthoredSteps
  /\ status \in {"running", "succeeded", "failed", "task_timeout", "settling", "done"}
ProvenOfTask == \A l \in proven : l \in LessonRecord /\ l.scope = A!Scope(task)
SkillsAreSound ==
  (\E S : skills \in Seq(S)) /\ \A k \in DOMAIN skills : SkillSound(skills[k])

AuthoringInv ==
  /\ AuthoringTyped /\ ProvenOfTask /\ \A l \in lessons : LessonEarned(l)
  /\ SkillsAreSound /\ A!NamesArePromotedOnce

LEMMA InitAuthoring == A!Init => AuthoringInv
<1> SUFFICES ASSUME A!Init PROVE AuthoringInv
  OBVIOUS
<1>1. /\ task \in AuthoredTasks /\ steps = <<>> /\ status = "running" /\ cited \in BOOLEAN
      /\ lessons = {} /\ proven = {} /\ skills = <<>> /\ runs = 1 /\ taken = 0
  BY DEF A!Init
<1>2. AuthoringTyped /\ ProvenOfTask
  BY <1>1, AuthoringAssumption DEF AuthoringTyped, ProvenOfTask
<1>3. SkillsAreSound /\ A!NamesArePromotedOnce
  <2>1. skills \in Seq({}) /\ DOMAIN skills = {}
    BY <1>1
  <2>2. QED
    BY <2>1 DEF SkillsAreSound, A!NamesArePromotedOnce
<1>4. QED
  BY <1>1, <1>2, <1>3 DEF AuthoringInv

(* The values of a function on a finite set are finitely many.             *)
LEMMA ValuesAreFinite ==
  ASSUME NEW f, IsFiniteSet(DOMAIN f)
  PROVE  IsFiniteSet({f[x] : x \in DOMAIN f})
<1> DEFINE T == {f[x] : x \in DOMAIN f}
           g == [x \in DOMAIN f |-> f[x]]
<1>1. g \in Surjection(DOMAIN f, T)
  BY DEF Surjection
<1> HIDE DEF T, g
<1>2. IsFiniteSet(T)
  BY <1>1, FS_Surjection
<1>3. QED
  BY <1>2 DEF T

LEMMA KindIsKnown == ASSUME NEW type, NEW failure PROVE A!Kind(type, failure) \in LessonKinds
<1> DEFINE navigation == type = "move_to" \/ failure = "no_path"
           combat == failure # "no_path" /\ type \in {"equip_item", "scan_entities"} \cup A!Engagement
           processing == failure # "no_path" /\ type \in {"process_item", "craft_item", "place_block"}
           other == IF failure = "missing_station" THEN "resource_strategy" ELSE "tactical_recovery"
<1>1. A!Kind(type, failure) =
        CASE navigation -> "navigation_recovery" [] combat -> "combat_adaptation"
          [] processing -> "processing_recovery" [] OTHER -> other
  BY DEF A!Kind
<1>2. other \in LessonKinds
  BY DEF LessonKinds
<1> HIDE DEF other, navigation, combat, processing
<1>3. QED
  BY <1>1, <1>2 DEF LessonKinds

(* The latest durable failure of a run.                                    *)
LEMMA LatestIsLast ==
  ASSUME AuthoringTyped, A!LatestFailure # 0
  PROVE  /\ A!LatestFailure \in A!DurableFailures
         /\ \A i \in A!DurableFailures : i <= A!LatestFailure
<1> DEFINE F == A!DurableFailures
<1>1. DOMAIN steps = 1 .. Len(steps) /\ Len(steps) \in Nat
  BY DEF AuthoringTyped
<1>2. F \in SUBSET (1 .. Len(steps)) /\ IsFiniteSet(1 .. Len(steps))
  BY <1>1, FS_Interval DEF A!DurableFailures
<1>3. F # {} /\ A!LatestFailure = A!Max(F)
  BY DEF A!LatestFailure
<1> HIDE DEF F
<1>4. IsFiniteSet(F)
  BY <1>2, FS_Subset
<1>5. F \in SUBSET Nat
  BY <1>1, <1>2
<1>6. PICK m \in F : \A x \in F : x <= m
  BY <1>3, <1>4, <1>5, NaturalsHaveMaximum
<1>7. \E y \in F : \A x \in F : y >= x
  BY <1>5, <1>6
<1>8. A!Max(F) \in F /\ \A x \in F : A!Max(F) >= x
  BY <1>7 DEF A!Max
<1>9. QED
  BY <1>3, <1>5, <1>8 DEF F

(* Two failures at nearly the same place are two.                          *)
LEMMA SufficientIsTwo ==
  ASSUME AuthoringTyped, NEW i \in DOMAIN steps, A!Sufficient(i)
  PROVE  \E j \in DOMAIN steps :
           /\ i # j /\ A!Near(steps[i].place, steps[j].place)
           /\ \A h \in {i, j} : /\ steps[h].type = "move_to" /\ steps[h].stalled
                                /\ steps[h].status = "timeout_no_progress"
<1> DEFINE S == A!Stalls(steps[i])
<1>1. A!Stalled(steps[i]) /\ A!Cardinality(S) >= 2
  BY DEF A!Sufficient
<1>2. A!Cardinality(S) = Cardinality(S)
  BY DEF A!Cardinality, Cardinality
<1>3. \E j \in S : j # i
  <2>1. SUFFICES ASSUME S \subseteq {i} PROVE FALSE
    OBVIOUS
  <2> HIDE DEF S
  <2>2. S = {} \/ S = {i}
    BY <2>1
  <2>3. Cardinality(S) \in {0, 1}
    BY <2>2, FS_EmptySet, FS_Singleton
  <2>4. QED
    BY <1>1, <1>2, <2>3
<1>4. PICK j \in S : j # i
  BY <1>3
<1>5. j \in DOMAIN steps /\ A!Stalled(steps[j]) /\ A!Near(steps[i].place, steps[j].place)
  BY DEF A!Stalls
<1>6. QED
  BY <1>1, <1>4, <1>5 DEF A!Stalled

(* What a run teaches by its latest failure.                               *)
LEMMA LessonTaught ==
  ASSUME AuthoringInv, A!LatestFailure # 0, status \in {"succeeded", "failed", "task_timeout"},
         status = "task_timeout" => A!Classified
  PROVE  LET l == A!Lesson(A!LatestFailure)
         IN /\ LessonEarned(l) /\ l.scope = A!Scope(task) /\ l.recovery = {}
            /\ l.type = steps[A!LatestFailure].type /\ l.failure = steps[A!LatestFailure].status
<1> DEFINE i == A!LatestFailure
           l == A!Lesson(i)
           kind == A!Kind(steps[i].type, steps[i].status)
           scope == A!Scope(task)
           state == IF cited THEN "hypothesized" ELSE "observed"
<1>1. AuthoringTyped
  BY DEF AuthoringInv
<1>2. i \in DOMAIN steps /\ steps[i].status \in A!Durable
      /\ (steps[i].status = "timeout_no_progress" => A!Sufficient(i))
  BY <1>1, LatestIsLast DEF A!DurableFailures
<1>3. steps \in Seq(Deeds) /\ steps[i] \in Deeds
  BY <1>1, <1>2 DEF AuthoringTyped
<1>4. l = [scope |-> scope, type |-> steps[i].type, failure |-> steps[i].status, kind |-> kind,
           status |-> state, support |-> 1, recovery |-> {}, from |-> status, steps |-> steps]
  BY DEF A!Lesson
<1>5. kind \in LessonKinds
  BY KindIsKnown
<1>6. scope \in {A!Scope(t) : t \in AuthoredTasks}
  BY <1>1 DEF AuthoringTyped
<1>7. state \in LessonStatuses
  BY DEF LessonStatuses
<1>8. status = "task_timeout" => steps[i].status = "timeout_no_progress"
  BY DEF A!Classified, A!Excluded
<1>9. steps[i].status = "timeout_no_progress" =>
        \E j \in DOMAIN steps :
          /\ i # j /\ A!Near(steps[i].place, steps[j].place)
          /\ \A h \in {i, j} : /\ steps[h].type = "move_to" /\ steps[h].stalled
                               /\ steps[h].status = "timeout_no_progress"
  <2> HIDE DEF i
  <2>1. QED
    BY <1>1, <1>2, SufficientIsTwo
<1> HIDE DEF i, l, kind, scope, state
<1>10. l \in LessonRecord
  BY <1>2, <1>3, <1>4, <1>5, <1>6, <1>7 DEF LessonRecord
<1>11. /\ l.scope = scope /\ l.type = steps[i].type /\ l.failure = steps[i].status
       /\ l.recovery = {} /\ l.from = status /\ l.steps = steps
  BY <1>4
<1>12. StallRepeated(l)
  BY <1>2, <1>8, <1>9, <1>11 DEF StallRepeated
<1>13. LessonEarned(l)
  BY <1>10, <1>11, <1>12 DEF LessonEarned
<1>14. QED
  BY <1>11, <1>13 DEF i, l, scope

(* A change of its status or support leaves a lesson earned.               *)
LEMMA StillEarned ==
  ASSUME NEW l, LessonEarned(l), NEW m \in LessonRecord,
         m.type = l.type, m.failure = l.failure, m.from = l.from, m.steps = l.steps,
         \A r \in m.recovery : r \in l.recovery \/ FollowedUp(l, r)
  PROVE  LessonEarned(m)
<1>1. StallRepeated(m)
  BY DEF LessonEarned, StallRepeated
<1>2. \A r \in m.recovery : FollowedUp(m, r)
  <2>1. \A r \in m.recovery : FollowedUp(l, r)
    BY DEF LessonEarned
  <2>2. QED
    BY <2>1 DEF FollowedUp
<1>3. QED
  BY <1>1, <1>2 DEF LessonEarned

LEMMA MergedEarned ==
  ASSUME NEW l, LessonEarned(l)
  PROVE  LessonEarned(A!Merged(l)) /\ A!Merged(l).scope = l.scope
<1> DEFINE m == A!Merged(l)
           state == IF l.status \in {"validated", "promoted"} THEN l.status ELSE "corroborated"
           more == l.support + 1
<1>1. l \in LessonRecord
  BY DEF LessonEarned
<1>2. m = [l EXCEPT !.support = more, !.status = state]
  BY DEF A!Merged
<1>3. state \in LessonStatuses /\ more \in Int
  BY <1>1 DEF LessonRecord, LessonStatuses
<1> HIDE DEF m, state, more
<1>4. m \in LessonRecord
  BY <1>1, <1>2, <1>3 DEF LessonRecord
<1>5. /\ m.scope = l.scope /\ m.type = l.type /\ m.failure = l.failure /\ m.from = l.from
      /\ m.steps = l.steps /\ m.recovery = l.recovery
  BY <1>1, <1>2 DEF LessonRecord
<1>6. LessonEarned(m)
  BY <1>4, <1>5, StillEarned
<1>7. QED
  BY <1>5, <1>6 DEF m

LEMMA KnownAreEarned ==
  ASSUME AuthoringInv, A!LatestFailure # 0, status \in {"succeeded", "failed", "task_timeout"},
         status = "task_timeout" => A!Classified
  PROVE  \A l \in A!WithFailure(A!LatestFailure) : LessonEarned(l)
<1> DEFINE new == A!Lesson(A!LatestFailure)
<1>1. LessonEarned(new)
  BY LessonTaught
<1>2. \A l \in lessons : LessonEarned(l) /\ LessonEarned(A!Merged(l))
  BY MergedEarned DEF AuthoringInv
<1>3. \A l \in A!WithFailure(A!LatestFailure) :
        l \in lessons \/ l = new \/ \E m \in lessons : l = A!Merged(m)
  BY DEF A!WithFailure
<1>4. QED
  BY <1>1, <1>2, <1>3

(* A proof of a lesson is about what followed its failure: the failure that*)
(* the lesson is about, if it is the last one, is the latest one, and the  *)
(* recovery is then sought behind it.                                      *)
LEMMA ProofEarned ==
  ASSUME AuthoringTyped, NEW l, LessonEarned(l), l.scope = A!Scope(task), NEW by,
         by = A!Recovery(l.type, A!After(l)), by # {},
         NEW m, m = [l EXCEPT !.status = "validated", !.recovery = @ \cup {[by |-> by, steps |-> steps]}]
  PROVE  LessonEarned(m) /\ m.scope = A!Scope(task)
<1> DEFINE r == [by |-> by, steps |-> steps]
           all == l.recovery \cup {r}
<1>1. l \in LessonRecord
  BY DEF LessonEarned
<1>2. steps \in Seq(Deeds) /\ DOMAIN steps = 1 .. Len(steps) /\ Len(steps) \in Nat
  BY DEF AuthoringTyped
<1>3. by \in SUBSET Int /\ \A j \in by : j > A!After(l)
  BY <1>2 DEF A!Recovery
<1>4. FollowedUp(l, r)
  <2>1. SUFFICES ASSUME NEW i \in DOMAIN steps, steps[i].type = l.type, steps[i].status = l.failure,
                        l.failure # "timeout_no_progress",
                        \A j \in DOMAIN steps : j > i => steps[j].status \notin A!Durable
                 PROVE  \E j \in by : j > i
    BY DEF FollowedUp
  <2>2. i \in A!DurableFailures
    BY <1>1, <2>1 DEF A!DurableFailures, LessonRecord
  <2>3. A!LatestFailure # 0
    <3>1. A!DurableFailures # {}
      BY <2>2
    <3>2. A!LatestFailure = A!Max(A!DurableFailures)
      BY <3>1 DEF A!LatestFailure
    <3> DEFINE F == A!DurableFailures
    <3>3. F \in SUBSET (1 .. Len(steps)) /\ F # {} /\ IsFiniteSet(1 .. Len(steps))
      BY <1>2, <3>1, FS_Interval DEF A!DurableFailures
    <3>4. F \in SUBSET Nat
      BY <1>2, <3>3
    <3> HIDE DEF F
    <3>5. IsFiniteSet(F)
      BY <3>3, FS_Subset
    <3>6. \E y \in F : \A x \in F : x <= y
      BY <3>3, <3>4, <3>5, NaturalsHaveMaximum
    <3>7. \E y \in F : \A x \in F : y >= x
      BY <3>4, <3>6
    <3>8. A!Max(F) \in F
      BY <3>7 DEF A!Max
    <3>9. QED
      BY <1>2, <3>2, <3>3, <3>8 DEF F
  <2>4. A!LatestFailure \in A!DurableFailures /\ i <= A!LatestFailure
    BY <2>2, <2>3, LatestIsLast
  <2>5. A!LatestFailure = i
    <3>1. A!LatestFailure \in DOMAIN steps /\ steps[A!LatestFailure].status \in A!Durable
      BY <2>4 DEF A!DurableFailures
    <3>2. ~(A!LatestFailure > i)
      BY <2>1, <3>1
    <3>3. QED
      BY <1>2, <2>4, <3>1, <3>2
  <2>6. A!SameLesson(l, A!Lesson(A!LatestFailure))
    BY <2>1, <2>5 DEF A!SameLesson, A!Lesson
  <2>7. A!After(l) = i
    BY <2>3, <2>5, <2>6 DEF A!After
  <2>8. QED
    BY <1>3, <2>7
<1>5. m = [l EXCEPT !.status = "validated", !.recovery = all]
  OBVIOUS
<1>6. r \in [by : SUBSET Int, steps : Seq(Deeds)]
  BY <1>2, <1>3
<1>7. all \in SUBSET [by : SUBSET Int, steps : Seq(Deeds)] /\ "validated" \in LessonStatuses
  BY <1>1, <1>6 DEF LessonRecord, LessonStatuses
<1>8. \A x \in all : x \in l.recovery \/ FollowedUp(l, x)
  BY <1>4
<1> HIDE DEF r, all
<1>9. m \in LessonRecord
  BY <1>1, <1>5, <1>7 DEF LessonRecord
<1>10. /\ m.scope = l.scope /\ m.type = l.type /\ m.failure = l.failure /\ m.from = l.from
       /\ m.steps = l.steps /\ m.recovery = all
  BY <1>1, <1>5 DEF LessonRecord
<1>11. LessonEarned(m)
  BY <1>8, <1>9, <1>10, StillEarned
<1>12. QED
  BY <1>10, <1>11

LEMMA SuccessKeeps == ASSUME AuthoringInv, A!RecordSuccess PROVE AuthoringInv'
<1> DEFINE taught == IF A!LatestFailure = 0 THEN lessons ELSE A!WithFailure(A!LatestFailure)
           ValidatedNow(l) == /\ l.scope = A!Scope(task) /\ l.status # "promoted"
                              /\ A!Recovery(l.type, A!After(l)) # {}
           Proof(l) == [l EXCEPT !.status = "validated", !.recovery = @ \cup
                          {[by |-> A!Recovery(l.type, A!After(l)), steps |-> steps]}]
<1>1. /\ lessons' = {IF ValidatedNow(l) THEN Proof(l) ELSE l : l \in taught}
      /\ proven' = {Proof(l) : l \in {m \in taught : ValidatedNow(m)}}
      /\ status = "succeeded" /\ status' = "settling"
      /\ UNCHANGED <<task, steps, cited, skills, runs, taken>>
  BY DEF A!RecordSuccess
<1>2. \A l \in taught : LessonEarned(l)
  BY <1>1, KnownAreEarned DEF AuthoringInv
<1> HIDE DEF taught
<1>3. AuthoringTyped
  BY DEF AuthoringInv
<1>4. ASSUME NEW l \in taught, ValidatedNow(l)
      PROVE  LessonEarned(Proof(l)) /\ Proof(l).scope = A!Scope(task)
  <2> DEFINE by == A!Recovery(l.type, A!After(l))
             m == Proof(l)
  <2>1. LessonEarned(l) /\ l.scope = A!Scope(task) /\ by # {}
    BY <1>2, <1>4
  <2>2. m = [l EXCEPT !.status = "validated", !.recovery = @ \cup {[by |-> by, steps |-> steps]}]
    OBVIOUS
  <2>3. by = A!Recovery(l.type, A!After(l))
    OBVIOUS
  <2> HIDE DEF by, m
  <2>4. LessonEarned(m) /\ m.scope = A!Scope(task)
    BY <1>3, <2>1, <2>2, <2>3, ProofEarned
  <2>5. QED
    BY <2>4 DEF m
<1> HIDE DEF Proof, ValidatedNow
<1>5. \A l \in lessons' : LessonEarned(l)
  BY <1>1, <1>2, <1>4
<1>6. \A l \in proven' : LessonEarned(l) /\ l.scope = A!Scope(task)
  BY <1>1, <1>4
<1>7. ProvenOfTask'
  BY <1>1, <1>6 DEF ProvenOfTask, LessonEarned, A!Scope
<1>8. AuthoringTyped'
  BY <1>1, <1>3 DEF AuthoringTyped
<1>9. SkillsAreSound' /\ A!NamesArePromotedOnce'
  BY <1>1 DEF AuthoringInv, SkillsAreSound, A!NamesArePromotedOnce
<1>10. QED
  BY <1>5, <1>7, <1>8, <1>9 DEF AuthoringInv

(* The next run starts with nothing.                                       *)
LEMMA NextRunTyped ==
  ASSUME AuthoringTyped, A!NextRun
  PROVE  AuthoringTyped' /\ ProvenOfTask'
<1>1. steps' = <<>> /\ proven' = {} /\ UNCHANGED <<cited, taken>> /\ task' \in AuthoredTasks
      /\ runs' \in 1 .. AuthoredRuns /\ status' \in {"running", "done"}
  BY AuthoringAssumption DEF A!NextRun, AuthoringTyped
<1>2. AuthoringTyped'
  <2>1. <<>> \in Seq(Deeds)
    OBVIOUS
  <2>2. QED
    BY <1>1, <2>1 DEF AuthoringTyped
<1>3. QED
  BY <1>1, <1>2 DEF ProvenOfTask

LEMMA FailureKeeps == ASSUME AuthoringInv, A!RecordFailure PROVE AuthoringInv'
<1>1. /\ status \in {"failed", "task_timeout"} /\ A!NextRun /\ UNCHANGED skills
      /\ lessons' = IF A!Classified THEN A!WithFailure(A!LatestFailure) ELSE lessons
  BY DEF A!RecordFailure
<1>2. \A l \in lessons' : LessonEarned(l)
  <2>1. CASE A!Classified
    <3>1. A!LatestFailure # 0
      BY <2>1 DEF A!Classified
    <3>2. QED
      BY <1>1, <2>1, <3>1, KnownAreEarned
  <2>2. CASE ~A!Classified
    BY <1>1, <2>2 DEF AuthoringInv
  <2>3. QED
    BY <2>1, <2>2
<1>3. AuthoringTyped' /\ ProvenOfTask'
  BY <1>1, NextRunTyped DEF AuthoringInv
<1>4. SkillsAreSound' /\ A!NamesArePromotedOnce'
  BY <1>1 DEF AuthoringInv, SkillsAreSound, A!NamesArePromotedOnce
<1>5. QED
  BY <1>2, <1>3, <1>4 DEF AuthoringInv

LEMMA RunKeeps == ASSUME AuthoringInv, A!Act \/ A!Finish \/ A!Skip PROVE AuthoringInv'
<1>1. UNCHANGED <<lessons, skills>>
  BY DEF A!Act, A!Finish, A!Skip
<1>2. AuthoringTyped' /\ ProvenOfTask'
  <2>1. CASE A!Act
    <3>1. /\ taken < AuthoredSteps /\ taken' = taken + 1 /\ \E k \in Deeds : steps' = Append(steps, k)
          /\ UNCHANGED <<task, status, cited, proven, runs>>
      BY <2>1 DEF A!Act
    <3>2. AuthoringTyped'
      BY <3>1, AuthoringAssumption DEF AuthoringInv, AuthoringTyped
    <3>3. ProvenOfTask'
      BY <3>1 DEF AuthoringInv, ProvenOfTask, A!Scope
    <3>4. QED
      BY <3>2, <3>3
  <2>2. CASE A!Finish
    BY <2>2 DEF A!Finish, AuthoringInv, AuthoringTyped, ProvenOfTask, A!Scope
  <2>3. CASE A!Skip
    BY <2>3, NextRunTyped DEF A!Skip, AuthoringInv
  <2>4. QED
    BY <2>1, <2>2, <2>3
<1>3. SkillsAreSound' /\ A!NamesArePromotedOnce' /\ \A l \in lessons' : LessonEarned(l)
  BY <1>1 DEF AuthoringInv, SkillsAreSound, A!NamesArePromotedOnce
<1>4. QED
  BY <1>2, <1>3 DEF AuthoringInv

(* The words of tasks and steps.                                           *)
LEMMA WordsOfAll ==
  /\ Fixed \subseteq OtherWords /\ OtherWords \subseteq Words /\ A!Durable \subseteq OtherWords
  /\ \A t \in AuthoredTasks :
       /\ {t.id, t.category, t.item} \subseteq OtherWords /\ OtherWords \subseteq Own(t)
       /\ t.entity \in Own(t) /\ Own(t) \subseteq Words
  /\ \A k \in Deeds :
       /\ {k.type, k.item} \subseteq OtherWords /\ k.entity \in Words
       /\ k.type \notin A!EntityActions => k.entity \in OtherWords
<1>1. Fixed \subseteq OtherWords /\ OtherWords \subseteq Words /\ A!Durable \subseteq OtherWords
  BY DEF OtherWords, Words, Fixed
<1>2. ASSUME NEW t \in AuthoredTasks
      PROVE  /\ {t.id, t.category, t.item} \subseteq OtherWords /\ OtherWords \subseteq Own(t)
             /\ t.entity \in Own(t) /\ Own(t) \subseteq Words
  <2>1. {t.id, t.category, t.item} \subseteq OtherWords
    BY DEF OtherWords, WordsOfTasks, WordsOfTask
  <2>2. t.entity \in Words
    BY DEF Words
  <2>3. QED
    BY <1>1, <2>1, <2>2 DEF Own
<1>3. ASSUME NEW k \in Deeds
      PROVE  /\ {k.type, k.item} \subseteq OtherWords /\ k.entity \in Words
             /\ k.type \notin A!EntityActions => k.entity \in OtherWords
  <2>1. WordsOfDeed(k) \subseteq OtherWords
    <3>1. ASSUME NEW w \in WordsOfDeed(k) PROVE w \in UNION {WordsOfDeed(x) : x \in Deeds}
      <4>1. WordsOfDeed(k) \in {WordsOfDeed(x) : x \in Deeds}
        OBVIOUS
      <4>2. QED
        BY <4>1
    <3>2. QED
      BY <3>1 DEF OtherWords, WordsOfDeeds
  <2>2. {k.type, k.item} \subseteq WordsOfDeed(k)
        /\ (k.type \notin A!EntityActions => k.entity \in WordsOfDeed(k))
    BY DEF WordsOfDeed
  <2>3. k.entity \in Words
    BY DEF Words
  <2>4. QED
    BY <2>1, <2>2, <2>3
<1>4. QED
  BY <1>1, <1>2, <1>3

LEMMA WordsAreFinite == IsFiniteSet(Words)
<1>1. ASSUME NEW a, NEW b, NEW c PROVE IsFiniteSet({a, b, c})
  <2>1. IsFiniteSet({a}) /\ IsFiniteSet({b}) /\ IsFiniteSet({c})
    BY FS_Singleton
  <2>2. IsFiniteSet({a} \cup {b})
    BY <2>1, FS_Union
  <2>3. IsFiniteSet(({a} \cup {b}) \cup {c})
    BY <2>1, <2>2, FS_Union
  <2>4. ({a} \cup {b}) \cup {c} = {a, b, c}
    OBVIOUS
  <2>5. QED
    BY <2>3, <2>4
<1>2. IsFiniteSet(UNION {WordsOfTask(t) : t \in AuthoredTasks})
  <2> DEFINE f == [t \in AuthoredTasks |-> WordsOfTask(t)]
             Sets == {f[x] : x \in DOMAIN f}
  <2>1. DOMAIN f = AuthoredTasks /\ Sets = {WordsOfTask(t) : t \in AuthoredTasks}
    OBVIOUS
  <2>2. \A T \in Sets : IsFiniteSet(T)
    <3>1. ASSUME NEW t \in AuthoredTasks PROVE IsFiniteSet(WordsOfTask(t))
      <4>1. IsFiniteSet({t.id, t.category, t.item})
        BY <1>1
      <4>2. QED
        BY <4>1 DEF WordsOfTask
    <3>2. QED
      BY <2>1, <3>1
  <2> HIDE DEF f
  <2>3. IsFiniteSet(Sets)
    BY <2>1, AuthoringAssumption, ValuesAreFinite
  <2> HIDE DEF Sets
  <2>4. IsFiniteSet(UNION Sets)
    BY <2>2, <2>3, FS_UNION
  <2>5. QED
    BY <2>1, <2>4
<1>3. IsFiniteSet(UNION {WordsOfDeed(k) : k \in Deeds})
  <2> DEFINE f == [k \in Deeds |-> WordsOfDeed(k)]
             Sets == {f[x] : x \in DOMAIN f}
  <2>1. DOMAIN f = Deeds /\ Sets = {WordsOfDeed(k) : k \in Deeds}
    OBVIOUS
  <2>2. ASSUME NEW k \in Deeds PROVE IsFiniteSet(WordsOfDeed(k))
    <3>1. WordsOfDeed(k) = {k.type, k.item, k.item} \/ WordsOfDeed(k) = {k.type, k.item, k.entity}
      BY DEF WordsOfDeed
    <3>2. IsFiniteSet({k.type, k.item, k.item}) /\ IsFiniteSet({k.type, k.item, k.entity})
      BY <1>1
    <3>3. QED
      BY <3>1, <3>2
  <2>3. \A T \in Sets : IsFiniteSet(T)
    BY <2>1, <2>2
  <2> HIDE DEF f
  <2>4. IsFiniteSet(Sets)
    BY <2>1, AuthoringAssumption, ValuesAreFinite
  <2> HIDE DEF Sets
  <2>5. IsFiniteSet(UNION Sets)
    BY <2>3, <2>4, FS_UNION
  <2>6. QED
    BY <2>1, <2>5
<1>4. IsFiniteSet({t.entity : t \in AuthoredTasks})
  <2> DEFINE f == [t \in AuthoredTasks |-> t.entity]
  <2>1. DOMAIN f = AuthoredTasks /\ {f[x] : x \in DOMAIN f} = {t.entity : t \in AuthoredTasks}
    OBVIOUS
  <2> HIDE DEF f
  <2>2. IsFiniteSet({f[x] : x \in DOMAIN f})
    BY <2>1, AuthoringAssumption, ValuesAreFinite
  <2>3. QED
    BY <2>1, <2>2
<1>5. IsFiniteSet({k.entity : k \in Deeds})
  <2> DEFINE f == [k \in Deeds |-> k.entity]
  <2>1. DOMAIN f = Deeds /\ {f[x] : x \in DOMAIN f} = {k.entity : k \in Deeds}
    OBVIOUS
  <2> HIDE DEF f
  <2>2. IsFiniteSet({f[x] : x \in DOMAIN f})
    BY <2>1, AuthoringAssumption, ValuesAreFinite
  <2>3. QED
    BY <2>1, <2>2
<1>6. IsFiniteSet(Fixed)
  <2> DEFINE P == {"no_path", "target_lost", "missing_station"}
             Q == {"timeout_no_progress", "defeat", "skill"}
             R == {"selected", "", "skill"}
  <2>1. IsFiniteSet(P) /\ IsFiniteSet(Q) /\ IsFiniteSet(R)
    BY <1>1
  <2>2. Fixed = (P \cup Q) \cup R
    BY DEF Fixed, A!Durable
  <2> HIDE DEF P, Q, R
  <2>3. IsFiniteSet(P \cup Q)
    BY <2>1, FS_Union
  <2>4. QED
    BY <2>1, <2>2, <2>3, FS_Union
<1>7. IsFiniteSet(OtherWords)
  <2>1. IsFiniteSet(WordsOfTasks) /\ IsFiniteSet(WordsOfDeeds)
    BY <1>2, <1>3 DEF WordsOfTasks, WordsOfDeeds
  <2>2. IsFiniteSet(Fixed \cup WordsOfTasks)
    BY <1>6, <2>1, FS_Union
  <2>3. QED
    BY <2>1, <2>2, FS_Union DEF OtherWords
<1>8. IsFiniteSet(OtherWords \cup {t.entity : t \in AuthoredTasks})
  BY <1>4, <1>7, FS_Union
<1>9. QED
  BY <1>5, <1>8, FS_Union DEF Words

(* The evidence is some of the steps, and speaks of no other entity.       *)
LEMMA ProgressIsOwn ==
  ASSUME AuthoringTyped
  PROVE  /\ A!Progress \in Seq(Deeds) /\ DOMAIN A!Progress = 1 .. Len(A!Progress)
         /\ \A i \in DOMAIN A!Progress :
              {A!Progress[i].type, A!Progress[i].entity, A!Progress[i].item} \subseteq Own(task)
<1> DEFINE S == A!Successful
           n == Cardinality(S)
           p == A!Progress
<1>1. steps \in Seq(Deeds) /\ DOMAIN steps = 1 .. Len(steps) /\ Len(steps) \in Nat /\ task \in AuthoredTasks
  BY DEF AuthoringTyped
<1>2. S \in SUBSET (1 .. Len(steps)) /\ IsFiniteSet(1 .. Len(steps))
  <2>1. S \subseteq DOMAIN steps
    BY DEF A!Successful, A!Kept
  <2>2. IsFiniteSet(1 .. Len(steps))
    BY <1>1, FS_Interval
  <2>3. QED
    BY <1>1, <2>1, <2>2
<1>3. p = [k \in 1 .. n |-> steps[Nth(S, k)]]
  BY DEF A!Progress, A!Picked, A!Nth, Nth, A!Cardinality, Cardinality
<1>4. ASSUME NEW j \in S
      PROVE  {steps[j].type, steps[j].entity, steps[j].item} \subseteq Own(task) /\ steps[j] \in Deeds
  <2>1. j \in 1 .. Len(steps) /\ steps[j] \in Deeds
    BY <1>1, <1>2
  <2>2. {steps[j].type, steps[j].item} \subseteq Own(task)
    BY <1>1, <2>1, WordsOfAll
  <2>3. steps[j].entity \in Own(task)
    <3>1. CASE task.entity = ""
      BY <2>1, <3>1, WordsOfAll DEF Own
    <3>2. CASE task.entity # "" /\ steps[j].type \notin A!EntityActions
      BY <1>1, <2>1, <3>2, WordsOfAll
    <3>3. CASE task.entity # "" /\ steps[j].type \in A!EntityActions
      <4>1. steps[j].entity = "" \/ steps[j].entity = task.entity
        BY <1>4, <3>3 DEF A!Successful, A!Kept
      <4>2. "" \in OtherWords
        BY WordsOfAll DEF Fixed
      <4>3. QED
        BY <3>3, <4>1, <4>2 DEF Own
    <3>4. QED
      BY <3>1, <3>2, <3>3
  <2>4. QED
    BY <2>1, <2>2, <2>3
<1> HIDE DEF S, n, p
<1>5. IsFiniteSet(S)
  BY <1>2, FS_Subset
<1>6. S \in SUBSET Int
  BY <1>1, <1>2
<1>7. n \in Nat /\ \A k \in 1 .. n : Nth(S, k) \in S
  BY <1>5, <1>6, PlacesInOrder DEF n
<1>8. \A k \in 1 .. n : p[k] = steps[Nth(S, k)]
  BY <1>3
<1>9. \A k \in 1 .. n : p[k] \in Deeds /\ {p[k].type, p[k].entity, p[k].item} \subseteq Own(task)
  BY <1>4, <1>7, <1>8
<1>10. DOMAIN p = 1 .. n /\ p = [k \in 1 .. n |-> p[k]]
  BY <1>3
<1>11. p \in [1 .. n -> Deeds]
  BY <1>9, <1>10
<1>12. p \in Seq(Deeds) /\ Len(p) = n
  BY <1>7, <1>11
<1>13. QED
  BY <1>9, <1>10, <1>12 DEF p

(* So does the skill that is made of it.                                   *)
LEMMA CandidateIsOwn ==
  ASSUME AuthoringInv
  PROVE  /\ {A!Primary, A!Prefix(task.category)} \subseteq Own(task)
         /\ A!Triggers \subseteq Own(task) /\ A!ScopeTags \subseteq Own(task)
         /\ A!Dependencies \subseteq Own(task)
         /\ \A i \in DOMAIN A!ParameterizedPlan :
              {A!ParameterizedPlan[i].type, A!ParameterizedPlan[i].target} \subseteq Own(task)
<1> DEFINE W == Own(task)
           p == A!Progress
<1>1. task \in AuthoredTasks /\ {task.id, task.category, task.item, task.entity} \subseteq W
      /\ A!Durable \subseteq W /\ Fixed \subseteq W
  BY WordsOfAll DEF AuthoringInv, AuthoringTyped
<1>2. \A i \in DOMAIN p : {p[i].type, p[i].entity, p[i].item} \subseteq W
  BY ProgressIsOwn DEF AuthoringInv
<1> HIDE DEF W
<1>3. A!TypesOf(p) \subseteq W /\ A!NamesOf(p) \subseteq W
  BY <1>2 DEF A!TypesOf, A!NamesOf
<1> HIDE DEF p
<1>4. A!Targets \subseteq W
  BY <1>1, <1>3 DEF A!Targets, p
<1>5. A!Primary \in W
  <2> DEFINE other == IF A!Targets = {} THEN task.id ELSE CHOOSE n \in A!Targets : TRUE
  <2>1. other \in W
    BY <1>1, <1>4
  <2>2. A!Primary = CASE task.item # "" -> task.item [] task.item = "" /\ task.entity # "" -> task.entity
                      [] OTHER -> other
    BY DEF A!Primary
  <2> HIDE DEF other
  <2>3. QED
    BY <1>1, <2>1, <2>2
<1>6. A!Prefix(task.category) \in W
  <2>1. A!Prefix(task.category) \in {"defeat", "skill", task.category}
    BY DEF A!Prefix
  <2>2. QED
    BY <1>1, <2>1 DEF Fixed
<1>7. UNION {{l.failure, l.scope[2]} : l \in proven} \subseteq W
  <2>1. SUFFICES ASSUME NEW l \in proven PROVE l.failure \in W /\ l.scope[2] \in W
    OBVIOUS
  <2>2. l \in LessonRecord /\ l.scope = A!Scope(task)
    BY DEF AuthoringInv, ProvenOfTask
  <2>3. l.failure \in W
    BY <1>1, <2>2 DEF LessonRecord
  <2>4. l.scope[2] \in {task.entity, task.item}
    <3> DEFINE x == IF task.entity # "" THEN task.entity ELSE task.item
    <3>1. l.scope = <<task.category, x>>
      BY <2>2 DEF A!Scope
    <3> HIDE DEF x
    <3>2. l.scope[2] = x
      BY <3>1
    <3>3. QED
      BY <3>2 DEF x
  <2>5. QED
    BY <1>1, <2>3, <2>4
<1>8. A!Triggers \subseteq W /\ A!ScopeTags \subseteq W /\ A!Dependencies \subseteq W
  BY <1>1, <1>3, <1>4, <1>5, <1>7 DEF A!Triggers, A!ScopeTags, A!Dependencies, p
<1>9. ASSUME NEW i \in DOMAIN p
      PROVE  {A!PlanStep(p[i]).type, A!PlanStep(p[i]).target} \subseteq W
  <2> DEFINE k == p[i]
             atItem == k.type \in {"scan_blocks", "dig_block_at", "craft_item"}
             atEntity == k.type \in {"scan_entities"} \cup A!Engagement
             walk == k.type = "move_to"
             x == IF k.item # "" THEN k.item ELSE A!Primary
             y == IF k.entity # "" THEN k.entity ELSE A!Primary
             z == IF k.entity # "" THEN k.entity ELSE k.item
             target == CASE atItem -> x [] atEntity -> y [] walk -> "selected" [] OTHER -> z
  <2>1. A!PlanStep(k) = [type |-> k.type, target |-> target]
    BY DEF A!PlanStep
  <2>2. x \in W /\ y \in W /\ z \in W /\ k.type \in W /\ "selected" \in W
    BY <1>1, <1>2, <1>5 DEF Fixed
  <2> HIDE DEF x, y, z, atItem, atEntity, walk
  <2>3. target \in W
    BY <2>2
  <2> HIDE DEF target
  <2>4. QED
    BY <2>1, <2>2, <2>3
<1>10. \A i \in DOMAIN A!ParameterizedPlan :
         {A!ParameterizedPlan[i].type, A!ParameterizedPlan[i].target} \subseteq W
  BY <1>9 DEF A!ParameterizedPlan, p
<1>11. QED
  BY <1>5, <1>6, <1>8, <1>10 DEF W

(* A single step is earned by a failure that counts, or by a lesson.       *)
LEMMA AcceptedIsEarned ==
  ASSUME A!Accepts, Len(A!Progress) = 1
  PROVE  A!FailedBefore
<1> DEFINE one == A!Progress = <<>>
           two == A!SimpleRecipe
           three == ~A!SimpleRecipe /\ Len(A!Progress) = 1 /\ ~A!FailedBefore
           four == A!TypesOf(A!Progress) \cap A!Reusable # {} /\ (Len(A!Progress) > 1 \/ A!FailedBefore)
           v == IF A!FailedBefore THEN "recovered_failure_workflow" ELSE "reusable_workflow"
<1>1. A!Decision = CASE one -> "no_promotable_progress_action" [] two -> "covered_by_recipe_knowledge"
                     [] three -> "single_step_without_recovery" [] four -> v
                     [] OTHER -> "low_reuse_signal"
  BY DEF A!Decision
<1>2. SUFFICES ASSUME ~A!FailedBefore PROVE FALSE
  OBVIOUS
<1>3. ~four /\ (two \/ three)
  BY <1>2
<1> HIDE DEF one, two, three, four, v
<1>4. A!Decision \in {"no_promotable_progress_action", "covered_by_recipe_knowledge",
                      "single_step_without_recovery"}
  BY <1>1, <1>3
<1>5. QED
  BY <1>4 DEF A!Accepts

LEMMA CandidateSound ==
  ASSUME AuthoringInv, A!Accepts \/ proven # {}
  PROVE  SkillSound(A!Candidate)
<1> DEFINE c == A!Candidate
<1>1. /\ c.name = <<A!Prefix(task.category), A!Primary>> /\ c.task = task /\ c.status = "draft"
      /\ c.plan = A!Progress /\ c.source = steps /\ c.shown = A!ParameterizedPlan
      /\ c.lessons = {l.failure : l \in proven} /\ c.triggers = A!Triggers
      /\ c.scope = A!ScopeTags /\ c.dependencies = A!Dependencies
  BY DEF A!Candidate
<1> HIDE DEF c
<1>2. AuthoringTyped /\ task \in AuthoredTasks /\ steps \in Seq(Deeds)
  BY DEF AuthoringInv, AuthoringTyped
<1>3. OfOwnWords(c)
  <2> DEFINE W == Own(task)
  <2>1. A!Range(c.name) \subseteq W
    <3>1. A!Range(c.name) = {c.name[1], c.name[2]}
      BY <1>1 DEF A!Range
    <3>2. QED
      BY <1>1, <3>1, CandidateIsOwn
  <2>2. c.triggers \subseteq W /\ c.scope \subseteq W /\ c.dependencies \subseteq W
    BY <1>1, CandidateIsOwn
  <2>3. UNION {{c.shown[i].type, c.shown[i].target} : i \in DOMAIN c.shown} \subseteq W
    <3>1. \A i \in DOMAIN c.shown : {c.shown[i].type, c.shown[i].target} \subseteq W
      BY <1>1, CandidateIsOwn
    <3> HIDE DEF W
    <3>2. QED
      BY <3>1
  <2> HIDE DEF W
  <2>4. A!SemanticTokens(c) \subseteq W
    BY <2>1, <2>2, <2>3 DEF A!SemanticTokens
  <2>5. c.plan \in Seq(Deeds)
        /\ \A i \in DOMAIN c.plan : {c.plan[i].type, c.plan[i].entity, c.plan[i].item} \subseteq W
    BY <1>1, <1>2, ProgressIsOwn DEF W
  <2>6. QED
    BY <1>1, <1>2, <2>4, <2>5 DEF OfOwnWords, W
<1>4. EarnedAlone(c)
  <2>1. SUFFICES ASSUME Len(c.plan) = 1
                 PROVE  \/ c.lessons # {}
                        \/ \E i \in DOMAIN c.source :
                             /\ ~c.source[i].ok
                             /\ \/ c.task.entity = ""
                                \/ c.source[i].entity \in {"", c.task.entity}
                                \/ c.source[i].type \notin A!EntityActions
    BY DEF EarnedAlone
  <2>2. CASE proven # {}
    BY <1>1, <2>2
  <2>3. CASE A!Accepts
    <3>1. A!FailedBefore
      BY <1>1, <2>1, <2>3, AcceptedIsEarned
    <3>2. QED
      BY <1>1, <3>1 DEF A!FailedBefore, A!Kept
  <2>4. QED
    BY <2>2, <2>3
<1>5. task.id \in c.triggers
  BY <1>1 DEF A!Triggers
<1>6. A!Prefix(task.category) \in Words /\ A!Primary \in Words
  BY <1>2, CandidateIsOwn, WordsOfAll
<1>7. QED
  BY <1>1, <1>3, <1>4, <1>5, <1>6 DEF SkillSound, c

(* What is promoted and what not are the same skill but for its status.    *)
LEMMA PromotedSound ==
  ASSUME NEW c, SkillSound(c), c = A!Candidate, NEW s, s = [c EXCEPT !.status = "promoted"]
  PROVE  SkillSound(s) /\ s.status = "promoted" /\ s.name = c.name
<1>1. /\ s.name = c.name /\ s.task = c.task /\ s.plan = c.plan /\ s.source = c.source
      /\ s.shown = c.shown /\ s.lessons = c.lessons /\ s.triggers = c.triggers /\ s.scope = c.scope
      /\ s.dependencies = c.dependencies /\ s.status = "promoted"
  BY DEF A!Candidate
<1>2. A!SemanticTokens(s) = A!SemanticTokens(c)
  BY <1>1 DEF A!SemanticTokens
<1>3. OfOwnWords(s)
  BY <1>1, <1>2 DEF SkillSound, OfOwnWords
<1>4. EarnedAlone(s)
  BY <1>1 DEF SkillSound, EarnedAlone
<1>5. QED
  BY <1>1, <1>3, <1>4 DEF SkillSound

LEMMA JaccardIsNumber ==
  ASSUME NEW a \in SUBSET Words, NEW b \in SUBSET Words
  PROVE  A!Jaccard(a, b) \in Int
<1> DEFINE u == Cardinality(a \cup b)
           x == Cardinality(a \cap b)
<1>1. IsFiniteSet(a \cup b) /\ IsFiniteSet(a \cap b)
  <2>1. a \cup b \in SUBSET Words /\ a \cap b \in SUBSET Words
    OBVIOUS
  <2>2. QED
    BY <2>1, WordsAreFinite, FS_Subset
<1>2. A!Jaccard(a, b) = IF a \cup b = {} THEN 0 ELSE (60 * x) \div u
  BY DEF A!Jaccard, A!Unit, A!Cardinality, Cardinality
<1>3. x \in Nat /\ u \in Nat
  BY <1>1, FS_CardinalityType
<1>4. CASE a \cup b = {}
  BY <1>2, <1>4
<1>5. CASE a \cup b # {}
  <2>1. u # 0
    BY <1>1, <1>5, FS_EmptySet
  <2> HIDE DEF u, x
  <2> DEFINE y == 60 * x
  <2>2. y \in Int /\ u > 0
    BY <1>3, <2>1
  <2> HIDE DEF y
  <2>3. y \div u \in Int
    BY <1>3, <2>2
  <2>4. QED
    BY <1>2, <1>5, <2>3 DEF y
<1>6. QED
  BY <1>4, <1>5

LEMMA OwnAreWords ==
  ASSUME NEW s, OfOwnWords(s)
  PROVE  /\ A!TypesOf(s.plan) \subseteq Words /\ A!PlanTargets(s) \subseteq Words
         /\ s.triggers \subseteq Words /\ s.scope \subseteq Words /\ s.dependencies \subseteq Words
         /\ A!Range(s.name) \subseteq Words
<1>1. Own(s.task) \subseteq Words
  BY WordsOfAll DEF OfOwnWords
<1>2. /\ s.triggers \subseteq Words /\ s.scope \subseteq Words /\ s.dependencies \subseteq Words
      /\ A!Range(s.name) \subseteq Words
  BY <1>1 DEF OfOwnWords, A!SemanticTokens
<1>3. \A i \in DOMAIN s.plan : {s.plan[i].type, s.plan[i].entity, s.plan[i].item} \subseteq Words
  BY <1>1 DEF OfOwnWords
<1>4. A!TypesOf(s.plan) \subseteq Words /\ A!PlanTargets(s) \subseteq Words
  BY <1>3 DEF A!TypesOf, A!PlanTargets, A!NamesOf
<1>5. QED
  BY <1>2, <1>4

(* Skills of one name are alike, whatever else they consist of.            *)
LEMMA NamesakesAreTwins ==
  ASSUME NEW a, NEW b, OfOwnWords(a), OfOwnWords(b), a.name = b.name
  PROVE  A!Similarity(a, b) >= 82 * A!Unit
<1> DEFINE w == A!Weighted(a, b)
           j1 == A!Jaccard(A!TypesOf(a.plan), A!TypesOf(b.plan))
           j2 == A!Jaccard(A!PlanTargets(a), A!PlanTargets(b))
           j3 == A!Jaccard(a.triggers, b.triggers)
           j4 == A!Jaccard(a.scope, b.scope)
           j5 == A!Jaccard(a.dependencies, b.dependencies)
           j6 == A!Jaccard(A!Range(a.name), A!Range(b.name))
<1>1. j1 \in Int /\ j2 \in Int
  BY OwnAreWords, JaccardIsNumber
<1>2. j3 \in Int /\ j4 \in Int
  BY OwnAreWords, JaccardIsNumber
<1>3. j5 \in Int /\ j6 \in Int
  BY OwnAreWords, JaccardIsNumber
<1>4. w = 25 * j1 + 25 * j2 + 15 * j3 + 15 * j4 + 15 * j5 + 5 * j6
  BY DEF A!Weighted
<1> HIDE DEF w, j1, j2, j3, j4, j5, j6
<1>5. w \in Int
  BY <1>1, <1>2, <1>3, <1>4
<1>6. A!Similarity(a, b) = A!Max({w, 5400}) /\ 82 * A!Unit = 4920
  BY DEF A!Similarity, A!Unit, w
<1>7. \E x \in {w, 5400} : \A y \in {w, 5400} : x >= y
  BY <1>5
<1>8. A!Max({w, 5400}) \in {w, 5400} /\ A!Max({w, 5400}) >= 5400
  BY <1>7 DEF A!Max
<1>9. A!Max({w, 5400}) >= 4920
  BY <1>5, <1>8
<1>10. QED
  BY <1>6, <1>9

LEMMA AuthorKeeps == ASSUME AuthoringInv, A!Author PROVE AuthoringInv'
<1> DEFINE c == A!Candidate
           s == [c EXCEPT !.status = "promoted"]
           Seen(m) == \E l \in proven : A!SameLesson(l, m)
<1>1. /\ A!NextRun /\ (A!Accepts \/ proven # {})
      /\ \/ /\ A!Twins(c) = {} /\ skills' = Append(skills, s)
            /\ lessons' = {IF Seen(m) THEN [m EXCEPT !.status = "promoted"] ELSE m : m \in lessons}
         \/ skills' = Append(skills, c) /\ lessons' = lessons
  BY DEF A!Author
<1>2. SkillSound(c) /\ c.status = "draft" /\ c = A!Candidate
  <2>1. SkillSound(c)
    BY <1>1, CandidateSound
  <2>2. c.status = "draft"
    BY DEF A!Candidate
  <2>3. QED
    BY <2>1, <2>2
<1> HIDE DEF c
<1>3. s = [c EXCEPT !.status = "promoted"]
  OBVIOUS
<1> HIDE DEF s
<1>4. SkillSound(s) /\ s.status = "promoted" /\ s.name = c.name
  BY <1>2, <1>3, PromotedSound
<1>5. AuthoringTyped' /\ ProvenOfTask'
  BY <1>1, NextRunTyped DEF AuthoringInv
<1>6. \A l \in lessons' : LessonEarned(l)
  <2>1. ASSUME NEW l \in lessons PROVE LessonEarned([l EXCEPT !.status = "promoted"])
    <3> DEFINE m == [l EXCEPT !.status = "promoted"]
    <3>1. LessonEarned(l) /\ l \in LessonRecord
      BY DEF AuthoringInv, LessonEarned
    <3>2. m \in LessonRecord /\ m.type = l.type /\ m.failure = l.failure /\ m.from = l.from
          /\ m.steps = l.steps /\ m.recovery = l.recovery
      BY <3>1 DEF LessonRecord, LessonStatuses
    <3> HIDE DEF m
    <3>3. LessonEarned(m)
      BY <3>1, <3>2, StillEarned
    <3>4. QED
      BY <3>3 DEF m
  <2>2. \A l \in lessons : LessonEarned(l)
    BY DEF AuthoringInv
  <2> HIDE DEF Seen
  <2>3. QED
    BY <1>1, <2>1, <2>2
<1>7. PICK S : skills \in Seq(S)
  BY DEF AuthoringInv, SkillsAreSound
<1> DEFINE n == Len(skills)
<1>8. n \in Nat /\ DOMAIN skills = 1 .. n
  BY <1>7
<1>9. ASSUME NEW x, skills' = Append(skills, x), SkillSound(x)
      PROVE  /\ SkillsAreSound' /\ DOMAIN skills' = 1 .. n + 1 /\ skills'[n + 1] = x
             /\ \A k \in 1 .. n : skills'[k] = skills[k]
  <2>1. skills \in Seq(S \cup {x})
    BY <1>7
  <2>2. skills' \in Seq(S \cup {x}) /\ DOMAIN skills' = 1 .. n + 1 /\ skills'[n + 1] = x
        /\ \A k \in 1 .. n : skills'[k] = skills[k]
    BY <1>8, <1>9, <2>1
  <2>3. \A k \in 1 .. n : SkillSound(skills[k])
    BY <1>8 DEF AuthoringInv, SkillsAreSound
  <2>4. \A k \in DOMAIN skills' : SkillSound(skills'[k])
    <3>1. \A k \in 1 .. n + 1 : k = n + 1 \/ k \in 1 .. n
      BY <1>8
    <3>2. QED
      BY <1>9, <2>2, <2>3, <3>1
  <2>5. QED
    BY <2>2, <2>4 DEF SkillsAreSound
<1>10. CASE skills' = Append(skills, c) /\ lessons' = lessons
  <2>1. /\ SkillsAreSound' /\ DOMAIN skills' = 1 .. n + 1 /\ skills'[n + 1] = c
        /\ \A k \in 1 .. n : skills'[k] = skills[k]
    BY <1>2, <1>9, <1>10
  <2> HIDE DEF n
  <2>2. \A k \in 1 .. n + 1 : skills'[k].status = "promoted" => k \in 1 .. n /\ skills'[k] = skills[k]
    <3>1. \A k \in 1 .. n + 1 : k = n + 1 \/ k \in 1 .. n
      BY <1>8
    <3>2. QED
      BY <1>2, <2>1, <3>1
  <2>3. A!NamesArePromotedOnce'
    BY <1>8, <2>1, <2>2 DEF AuthoringInv, A!NamesArePromotedOnce
  <2>4. QED
    BY <1>5, <1>6, <2>1, <2>3 DEF AuthoringInv
<1>11. CASE A!Twins(c) = {} /\ skills' = Append(skills, s)
  <2>1. /\ SkillsAreSound' /\ DOMAIN skills' = 1 .. n + 1 /\ skills'[n + 1] = s
        /\ \A k \in 1 .. n : skills'[k] = skills[k]
    BY <1>4, <1>9, <1>11
  <2>2. ASSUME NEW k \in 1 .. n PROVE skills[k].name # s.name
    <3>1. SkillSound(skills[k])
      BY <1>8 DEF AuthoringInv, SkillsAreSound
    <3>2. ~(A!Similarity(c, skills[k]) >= 82 * A!Unit)
      BY <1>8, <1>11 DEF A!Twins
    <3> DEFINE o == skills[k]
    <3>3. OfOwnWords(c) /\ OfOwnWords(o) /\ ~(A!Similarity(c, o) >= 82 * A!Unit)
      BY <1>2, <3>1, <3>2 DEF SkillSound
    <3> HIDE DEF o
    <3>4. c.name # o.name
      BY <3>3, NamesakesAreTwins
    <3>5. QED
      BY <1>4, <3>4 DEF o
  <2> HIDE DEF n
  <2>3. \A k \in 1 .. n + 1 : k = n + 1 \/ k \in 1 .. n
    BY <1>8
  <2>4. A!NamesArePromotedOnce'
    <3>1. SUFFICES ASSUME NEW j \in 1 .. n + 1, NEW k \in 1 .. n + 1, j # k,
                          skills'[j].status = "promoted", skills'[k].status = "promoted"
                   PROVE  skills'[j].name # skills'[k].name
      BY <2>1 DEF A!NamesArePromotedOnce
    <3>2. CASE j \in 1 .. n /\ k \in 1 .. n
      BY <1>8, <2>1, <3>1, <3>2 DEF AuthoringInv, A!NamesArePromotedOnce
    <3>3. CASE j = n + 1 /\ k \in 1 .. n
      BY <2>1, <2>2, <3>3
    <3>4. CASE j \in 1 .. n /\ k = n + 1
      BY <2>1, <2>2, <3>4
    <3>5. QED
      BY <2>3, <3>1, <3>2, <3>3, <3>4
  <2>5. QED
    BY <1>5, <1>6, <2>1, <2>4 DEF AuthoringInv
<1>12. QED
  BY <1>1, <1>10, <1>11

LEMMA StepAuthoring == ASSUME AuthoringInv, [A!Next]_(A!vars) PROVE AuthoringInv'
<1>1. CASE A!Next
  BY <1>1, RunKeeps, FailureKeeps, SuccessKeeps, AuthorKeeps DEF A!Next
<1>2. CASE UNCHANGED A!vars
  BY <1>2 DEF A!vars, AuthoringInv, AuthoringTyped, ProvenOfTask, SkillsAreSound,
              A!NamesArePromotedOnce, A!Scope
<1>3. QED
  BY <1>1, <1>2

(* The words are of one sort each: what an action on an entity is aimed at *)
(* has a name that no task, category, item or other step has.              *)
NamesAreOfOneSort ==
  \A k \in Deeds : k.type \in A!EntityActions => k.entity \notin OtherWords \ {""}

LEMMA AuthoringSafe ==
  ASSUME AuthoringInv
  PROVE  /\ A!TypeOK /\ A!LessonsAreEarned /\ A!SingleStepsAreEarned
         /\ A!NamesArePromotedOnce /\ A!SkillsAreFoundAgain
         /\ NamesAreOfOneSort => A!AuthoringIsSound
<1>1. A!TypeOK
  <2>1. \A l \in lessons \cup proven : l.status \in LessonStatuses /\ l.failure \in A!Durable
    BY DEF AuthoringInv, LessonEarned, ProvenOfTask, LessonRecord
  <2>2. \A k \in DOMAIN skills : skills[k].status \in {"draft", "promoted"}
    BY DEF AuthoringInv, SkillsAreSound, SkillSound
  <2>3. QED
    BY <2>1, <2>2 DEF AuthoringInv, AuthoringTyped, A!TypeOK, LessonStatuses
<1>2. A!LessonsAreEarned
  BY DEF AuthoringInv, LessonEarned, StallRepeated, FollowedUp, A!LessonsAreEarned, A!StallsAreRepeated,
         A!RecoveryFollowsFailure
<1>3. A!SingleStepsAreEarned
  BY DEF AuthoringInv, SkillsAreSound, SkillSound, EarnedAlone, A!SingleStepsAreEarned
<1>4. A!NamesArePromotedOnce
  BY DEF AuthoringInv
<1>5. A!SkillsAreFoundAgain
  <2>1. SUFFICES ASSUME NEW k \in DOMAIN skills, skills[k].status = "promoted"
                 PROVE  k \in A!Eligible(skills[k].task, {})
    BY DEF A!SkillsAreFoundAgain
  <2> DEFINE s == skills[k]
  <2>2. s.task.id \in A!SemanticTokens(s)
    BY DEF AuthoringInv, SkillsAreSound, SkillSound, A!SemanticTokens
  <2>3. A!Relevance(s, s.task, {}) = 100
    BY <2>2 DEF A!Relevance
  <2>4. A!Relevance(s, s.task, {}) >= MinRelevance
    BY <2>3, AuthoringAssumption
  <2>5. QED
    BY <2>1, <2>4 DEF A!Eligible
<1>6. ASSUME NamesAreOfOneSort PROVE A!SelfDefenceStaysOut
  <2>1. SUFFICES ASSUME NEW k \in DOMAIN skills, skills[k].task.entity # ""
                 PROVE  /\ \A i \in DOMAIN skills[k].plan :
                             skills[k].plan[i].entity \notin A!Strangers(skills[k])
                        /\ A!SemanticTokens(skills[k]) \cap A!Strangers(skills[k]) = {}
    BY DEF A!SelfDefenceStaysOut
  <2> DEFINE s == skills[k]
  <2>2. OfOwnWords(s) /\ s.task.entity # ""
    BY <2>1 DEF AuthoringInv, SkillsAreSound, SkillSound
  <2> HIDE DEF s
  <2>3. Own(s.task) = OtherWords \cup {s.task.entity}
    BY <2>2 DEF Own
  <2>4. \A j \in DOMAIN s.source : s.source[j] \in Deeds
    <3> DEFINE q == s.source
    <3>1. q \in Seq(Deeds)
      BY <2>2 DEF OfOwnWords
    <3> HIDE DEF q
    <3>2. \A j \in DOMAIN q : q[j] \in Deeds
      BY <3>1
    <3>3. QED
      BY <3>2 DEF q
  <2>5. \A x \in A!Strangers(s) : x \notin Own(s.task)
    BY <1>6, <2>3, <2>4 DEF A!Strangers, NamesAreOfOneSort
  <2>6. \A i \in DOMAIN s.plan : s.plan[i].entity \in Own(s.task)
    BY <2>2 DEF OfOwnWords
  <2>7. A!SemanticTokens(s) \subseteq Own(s.task)
    BY <2>2 DEF OfOwnWords
  <2>8. QED
    BY <2>5, <2>6, <2>7 DEF s
<1>7. QED
  BY <1>1, <1>2, <1>3, <1>4, <1>5, <1>6 DEF A!AuthoringIsSound, A!SkillsAreEarned

(* Lessons rest on what they should, single steps are earned, names are    *)
(* promoted once and found again; and if names are of one sort, a skill    *)
(* speaks of the entity of its task only: for any tasks and steps.         *)
THEOREM AuthoringServes ==
  /\ A!Spec => [](/\ A!TypeOK /\ A!LessonsAreEarned /\ A!SingleStepsAreEarned
                  /\ A!NamesArePromotedOnce /\ A!SkillsAreFoundAgain)
  /\ NamesAreOfOneSort => (A!Spec => []A!AuthoringIsSound)
<1>1. A!Spec => []AuthoringInv
  BY InitAuthoring, StepAuthoring, PTL DEF A!Spec
<1>2. A!Spec => [](/\ A!TypeOK /\ A!LessonsAreEarned /\ A!SingleStepsAreEarned
                   /\ A!NamesArePromotedOnce /\ A!SkillsAreFoundAgain)
  BY <1>1, AuthoringSafe, PTL
<1>3. ASSUME NamesAreOfOneSort PROVE A!Spec => []A!AuthoringIsSound
  <2>1. AuthoringInv => A!AuthoringIsSound
    BY <1>3, AuthoringSafe
  <2>2. QED
    BY <1>1, <2>1, PTL
<1>4. QED
  BY <1>2, <1>3
-----------------------------------------------------------------------------
CONSTANTS
  \* CreativeEvaluation
  ClipLength, Clips, Frames, ScoreThresholds, Whole, Responses, Prompts, MaxWrong
VARIABLES
  setup, started, windows, trend, scorer, result, events

E == INSTANCE CreativeEvaluation WITH
  Policies <- Clips, Thresholds <- ScoreThresholds

(* A clip has frames; a recording has a number of them; a policy has a     *)
(* stride, a limit and a number of key frames, each at least one, as       *)
(* FrameSamplingPolicy.from_verifier makes them, and any length.           *)
ASSUME EvaluationAssumption ==
  /\ ClipLength \in Nat \ {0} /\ Whole \in Nat /\ Frames \subseteq Nat
  /\ Clips \subseteq [clip : Int, stride : Nat \ {0}, windows : Nat \ {0}, keys : Nat \ {0}]

(* The windows of a recording. Python rounds an index to the nearest one,  *)
(* and indexes that are more than one apart never meet.                    *)
LEMMA RoundIsNearest ==
  ASSUME NEW a \in Nat, NEW b \in Nat \ {0}
  PROVE  /\ E!Round(a, b) \in Nat
         /\ 2 * a <= (2 * E!Round(a, b) + 1) * b /\ (2 * E!Round(a, b) - 1) * b <= 2 * a
<1> DEFINE q == a \div b
<1> DEFINE r == a % b
<1>1. q \in Nat /\ r \in 0 .. b - 1 /\ a = b * q + r
  BY Divided
<1>2. \/ E!Round(a, b) = q /\ 2 * r <= b
      \/ E!Round(a, b) = q + 1 /\ 2 * r >= b
  <2>1. E!Round(a, b) = IF 2 * r < b \/ (2 * r = b /\ q % 2 = 0) THEN q ELSE q + 1
    BY DEF E!Round
  <2> HIDE DEF q, r
  <2>2. QED
    BY <1>1, <2>1
<1> HIDE DEF q, r
<1>3. CASE E!Round(a, b) = q /\ 2 * r <= b
  <2>1. (2 * q + 1) * b = 2 * (b * q) + b /\ (2 * q - 1) * b = 2 * (b * q) - b /\ b * q \in Nat
    BY <1>1
  <2>2. QED
    BY <1>1, <1>3, <2>1
<1>4. CASE E!Round(a, b) = q + 1 /\ 2 * r >= b
  <2>1. (2 * (q + 1) + 1) * b = 2 * (b * q) + 3 * b /\ (2 * (q + 1) - 1) * b = 2 * (b * q) + b
        /\ b * q \in Nat
    BY <1>1
  <2>2. QED
    BY <1>1, <1>4, <2>1
<1>5. QED
  BY <1>2, <1>3, <1>4

LEMMA RoundGrows ==
  ASSUME NEW a \in Nat, NEW c \in Nat, NEW b \in Nat \ {0}, a + b < c
  PROVE  E!Round(a, b) < E!Round(c, b)
<1> DEFINE m == E!Round(a, b)
<1> DEFINE k == E!Round(c, b)
<1>1. m \in Nat /\ k \in Nat /\ (2 * m - 1) * b <= 2 * a /\ 2 * c <= (2 * k + 1) * b
  BY RoundIsNearest
<1> HIDE DEF m, k
<1>2. (2 * m + 1) * b = (2 * m - 1) * b + 2 * b /\ (2 * m - 1) * b \in Int /\ (2 * k + 1) * b \in Int
  BY <1>1
<1>3. (2 * m + 1) * b < (2 * k + 1) * b
  BY <1>1, <1>2
<1>4. ASSUME k <= m PROVE FALSE
  <2>1. (2 * k + 1) * b <= (2 * m + 1) * b
    <3>1. m - k \in Nat /\ (2 * m + 1) * b = (2 * k + 1) * b + (2 * (m - k)) * b
          /\ (2 * (m - k)) * b \in Nat
      BY <1>1, <1>4
    <3>2. QED
      BY <3>1, <1>2
  <2>2. QED
    BY <1>2, <1>3, <2>1
<1>5. QED
  BY <1>1, <1>4 DEF m, k

LEMMA RoundIsExact ==
  ASSUME NEW k \in Nat, NEW b \in Nat \ {0}
  PROVE  E!Round(b * k, b) = k
<1> DEFINE m == E!Round(b * k, b)
<1>1. b * k \in Nat
  OBVIOUS
<1>2. m \in Nat /\ 2 * (b * k) <= (2 * m + 1) * b /\ (2 * m - 1) * b <= 2 * (b * k)
  BY <1>1, RoundIsNearest
<1> HIDE DEF m
<1>3. ASSUME k > m PROVE FALSE
  <2>1. (2 * k) * b = (2 * m + 1) * b + (2 * (k - m) - 1) * b /\ (2 * (k - m) - 1) * b > 0
        /\ (2 * m + 1) * b \in Int /\ (2 * k) * b = 2 * (b * k)
    BY <1>2, <1>3
  <2>2. QED
    BY <1>2, <2>1
<1>4. ASSUME k < m PROVE FALSE
  <2>1. (2 * m - 1) * b = (2 * k) * b + (2 * (m - k) - 1) * b /\ (2 * (m - k) - 1) * b > 0
        /\ (2 * k) * b = 2 * (b * k) /\ b * k \in Int
    BY <1>2, <1>4
  <2>2. QED
    BY <1>2, <2>1
<1>5. QED
  BY <1>2, <1>3, <1>4 DEF m

LEMMA SelectedEvenly ==
  ASSUME NEW v \in Seq(Int), NEW c \in Nat \ {0}, Len(v) # 0, Rising(v)
  PROVE  /\ E!UniformSelect(v, c) \in Seq(Int) /\ Rising(E!UniformSelect(v, c))
         /\ Len(E!UniformSelect(v, c)) \in 1 .. c
         /\ E!UniformSelect(v, c)[Len(E!UniformSelect(v, c))] = v[Len(v)]
         /\ c > 1 => E!UniformSelect(v, c)[1] = v[1]
         /\ c >= Len(v) => E!UniformSelect(v, c) = v
<1> DEFINE w == E!UniformSelect(v, c)
<1>1. CASE c >= Len(v)
  <2>1. w = v
    BY <1>1 DEF E!UniformSelect
  <2>2. QED
    BY <1>1, <2>1
<1>2. CASE c < Len(v) /\ c = 1
  <2>1. w = <<v[Len(v)]>>
    BY <1>2 DEF E!UniformSelect, E!Last
  <2> HIDE DEF w
  <2>2. w \in Seq(Int) /\ Len(w) = 1 /\ w[1] = v[Len(v)]
    BY <2>1
  <2>3. Rising(w)
    BY <2>2 DEF Rising
  <2>4. QED
    BY <1>2, <2>2, <2>3 DEF w
<1>3. CASE c < Len(v) /\ c > 1
  <2> DEFINE l == Len(v)
  <2> DEFINE at(i) == 1 + E!Round((i - 1) * (l - 1), c - 1)
  <2>1. w = [i \in 1 .. c |-> v[at(i)]]
    BY <1>3 DEF E!UniformSelect
  <2>2. \A i \in 1 .. c : (i - 1) * (l - 1) \in Nat /\ at(i) \in Nat
    <3>1. TAKE i \in 1 .. c
    <3>2. (i - 1) * (l - 1) \in Nat /\ c - 1 \in Nat \ {0}
      BY <1>3
    <3> DEFINE x == (i - 1) * (l - 1)
    <3> DEFINE y == c - 1
    <3> HIDE DEF x, y
    <3>3. E!Round(x, y) \in Nat
      BY <3>2, RoundIsNearest DEF x, y
    <3>4. QED
      BY <3>2, <3>3 DEF x, y
  <2>3. ASSUME NEW i \in 1 .. c, NEW j \in 1 .. c, i < j PROVE at(i) < at(j)
    <3>1. (j - 1) * (l - 1) = (i - 1) * (l - 1) + (j - i) * (l - 1) /\ (j - i) * (l - 1) >= l - 1
      BY <2>3
    <3>2. (i - 1) * (l - 1) + (c - 1) < (j - 1) * (l - 1)
      BY <1>3, <2>2, <3>1
    <3> DEFINE x == (i - 1) * (l - 1)
    <3> DEFINE z == (j - 1) * (l - 1)
    <3> DEFINE y == c - 1
    <3>3. x \in Nat /\ z \in Nat /\ y \in Nat \ {0} /\ x + y < z
      BY <1>3, <2>2, <3>2
    <3> HIDE DEF x, y, z
    <3>4. E!Round(x, y) < E!Round(z, y) /\ E!Round(x, y) \in Nat /\ E!Round(z, y) \in Nat
      BY <3>3, RoundIsNearest, RoundGrows
    <3>5. 1 + E!Round(x, y) < 1 + E!Round(z, y)
      BY <3>4
    <3>6. QED
      BY <3>5 DEF x, y, z
  <2>4. at(c) = l
    <3>1. E!Round((c - 1) * (l - 1), c - 1) = l - 1
      BY <1>3, RoundIsExact
    <3>2. QED
      BY <3>1
  <2>5. at(1) = 1
    <3>1. E!Round((c - 1) * 0, c - 1) = 0
      BY <1>3, RoundIsExact
    <3>2. (1 - 1) * (l - 1) = (c - 1) * 0
      BY <1>3
    <3>3. QED
      BY <3>1, <3>2
  <2> HIDE DEF at
  <2>6. \A i \in 1 .. c : at(i) \in 1 .. l
    <3>1. TAKE i \in 1 .. c
    <3>2. i = 1 \/ at(1) < at(i)
      BY <1>3, <2>3
    <3>3. i = c \/ at(i) < at(c)
      BY <1>3, <2>3
    <3>4. QED
      BY <2>2, <2>4, <2>5, <3>2, <3>3
  <2> HIDE DEF w
  <2>7. w \in Seq(Int) /\ Len(w) = c /\ \A i \in 1 .. c : w[i] = v[at(i)]
    BY <2>1, <2>6
  <2>8. Rising(w)
    BY <2>3, <2>6, <2>7 DEF Rising
  <2>9. w[c] = v[l] /\ w[1] = v[1]
    BY <1>3, <2>4, <2>5, <2>7
  <2>10. QED
    BY <1>3, <2>7, <2>8, <2>9 DEF w
<1>4. QED
  BY <1>1, <1>2, <1>3

(* The starts before the limit is applied: from the first frame to the     *)
(* last window, no more than frames, and no further apart than the stride. *)
LEMMA WindowsFollow ==
  ASSUME NEW n \in Nat, NEW p \in Clips, p.clip \in Nat \ {0}, ~(n < p.clip)
  PROVE  \E v \in Seq(Int) :
           /\ E!Starts(n, p) = E!UniformSelect(v, p.windows)
           /\ Len(v) \in 1 .. n /\ Rising(v) /\ v[1] = 0 /\ v[Len(v)] = n - p.clip
           /\ p.stride <= p.clip =>
                \A f \in 0 .. n - 1 : \E i \in 1 .. Len(v) : f - v[i] \in 0 .. p.clip - 1
<1> DEFINE d == p.stride
<1> DEFINE m == n - p.clip
<1> DEFINE k == m \div d
<1> DEFINE s == E!Strided(n, p)
<1> DEFINE v == IF E!Last(s) = m THEN s ELSE Append(s, m)
<1>1. d \in Nat \ {0} /\ m \in Nat
  BY EvaluationAssumption
<1>2. k \in Nat /\ k * d <= m /\ m < k * d + d
  <2>1. k \in Nat /\ m % d \in 0 .. d - 1 /\ m = d * k + (m % d)
    BY <1>1, Divided
  <2> HIDE DEF d, m, k
  <2>2. d * k = k * d /\ k * d \in Nat
    BY <1>1, <2>1
  <2>3. QED
    BY <1>1, <2>1, <2>2
<1>3. s = [i \in 1 .. k + 1 |-> (i - 1) * d] /\ E!Starts(n, p) = E!UniformSelect(v, p.windows)
  BY DEF E!Strided, E!Starts
<1>0. m + p.clip = n /\ p.clip \in Nat \ {0} /\ n \in Nat
  BY <1>1
<1> HIDE DEF d, m, k, s
<1>4. s \in Seq(Int) /\ Len(s) = k + 1 /\ \A i \in 1 .. k + 1 : s[i] = (i - 1) * d
  BY <1>1, <1>2, <1>3
<1>5. \A i, j \in 1 .. k + 1 : i < j => (i - 1) * d < (j - 1) * d
  <2>1. SUFFICES ASSUME NEW i \in 1 .. k + 1, NEW j \in 1 .. k + 1, i < j
                 PROVE  (i - 1) * d < (j - 1) * d
    OBVIOUS
  <2> DEFINE x == (i - 1) * d
  <2> DEFINE y == (j - 1) * d
  <2> DEFINE z == (j - i) * d
  <2>2. y = x + z /\ z > 0 /\ x \in Int /\ z \in Int
    BY <1>1, <1>2, <2>1
  <2> HIDE DEF x, y, z
  <2>3. x < y
    BY <2>2
  <2>4. QED
    BY <2>3 DEF x, y
<1>6. \A i \in 1 .. k + 1 : (i - 1) * d <= k * d
  <2>1. TAKE i \in 1 .. k + 1
  <2> DEFINE x == (i - 1) * d
  <2> DEFINE y == k * d
  <2> DEFINE z == (k + 1 - i) * d
  <2>2. y = x + z /\ z >= 0 /\ x \in Int /\ z \in Int
    BY <1>1, <1>2
  <2> HIDE DEF x, y, z
  <2>3. x <= y
    BY <2>2
  <2>4. QED
    BY <2>3 DEF x, y
<1>7. k <= k * d /\ k * d \in Nat
  BY <1>1, <1>2
<1>8. s[1] = 0 /\ s[k + 1] = k * d /\ E!Last(s) = k * d
  BY <1>1, <1>2, <1>4 DEF E!Last
<1>9. Rising(s)
  BY <1>4, <1>5 DEF Rising
<1>10. /\ v \in Seq(Int) /\ Len(v) \in 1 .. n /\ Rising(v) /\ v[1] = 0 /\ v[Len(v)] = m
       /\ \A i \in 1 .. k + 1 : i \in 1 .. Len(v) /\ v[i] = (i - 1) * d
  <2>1. CASE k * d = m
    <3>1. v = s
      BY <1>8, <2>1
    <3>2. k + 1 \in 1 .. n
      BY <1>0, <1>1, <1>2, <1>7, <2>1
    <3>3. QED
      BY <1>4, <1>8, <1>9, <2>1, <3>1, <3>2
  <2>2. CASE k * d < m
    <3>1. v = Append(s, m)
      BY <1>7, <1>8, <2>2
    <3> HIDE DEF v
    <3>2. v \in Seq(Int) /\ Len(v) = k + 2 /\ v[k + 2] = m /\ \A i \in 1 .. k + 1 : v[i] = (i - 1) * d
      BY <1>1, <1>2, <1>4, <3>1
    <3>3. k + 2 \in 1 .. n
      BY <1>0, <1>1, <1>2, <1>7, <2>2
    <3>4. Rising(v)
      <4>1. SUFFICES ASSUME NEW i \in 1 .. k + 2, NEW j \in 1 .. k + 2, i < j PROVE v[i] < v[j]
        BY <3>2 DEF Rising
      <4>2. CASE j \in 1 .. k + 1
        <5>1. i \in 1 .. k + 1
          BY <1>2, <4>1, <4>2
        <5>2. (i - 1) * d < (j - 1) * d
          BY <1>5, <4>1, <4>2, <5>1
        <5>3. QED
          BY <3>2, <4>2, <5>1, <5>2
      <4>3. CASE j = k + 2
        <5>1. i \in 1 .. k + 1
          BY <1>2, <4>1, <4>3
        <5>2. v[i] <= k * d /\ v[i] \in Int
          BY <1>6, <3>2, <5>1
        <5>3. QED
          BY <1>1, <1>7, <2>2, <3>2, <4>3, <5>2
      <4>4. QED
        BY <1>2, <4>2, <4>3
    <3>5. QED
      BY <1>2, <1>4, <1>8, <3>2, <3>3, <3>4
  <2>3. QED
    BY <1>1, <1>2, <1>7, <2>1, <2>2
<1> HIDE DEF v
<1>11. ASSUME d <= p.clip, NEW f \in 0 .. n - 1
       PROVE  \E i \in 1 .. Len(v) : f - v[i] \in 0 .. p.clip - 1
  <2>1. CASE f >= m
    <3>1. f - v[Len(v)] \in 0 .. p.clip - 1
      BY <1>0, <1>1, <1>10, <2>1
    <3>2. QED
      BY <1>10, <3>1
  <2>2. CASE f < m
    <3> DEFINE q == f \div d
    <3>1. q \in Nat /\ q * d <= f /\ f < q * d + d
      <4>0. f \in Nat
        BY <1>0
      <4>1. q \in Nat /\ f % d \in 0 .. d - 1 /\ f = d * q + (f % d)
        BY <1>1, <4>0, Divided
      <4> HIDE DEF q
      <4>2. d * q = q * d /\ q * d \in Nat
        BY <1>1, <4>1
      <4>3. QED
        BY <1>1, <4>0, <4>1, <4>2
    <3> HIDE DEF q
    <3>2. q <= k
      <4>1. SUFFICES ASSUME k < q PROVE FALSE
        BY <1>2, <3>1
      <4>2. q * d = k * d + d + (q - k - 1) * d /\ (q - k - 1) * d >= 0 /\ q * d \in Int
        BY <1>1, <1>2, <3>1, <4>1
      <4>3. QED
        BY <1>1, <1>2, <1>7, <2>2, <3>1, <4>2
    <3>3. q + 1 \in 1 .. k + 1 /\ (q + 1 - 1) * d = q * d
      BY <1>2, <3>1, <3>2
    <3> DEFINE i == q + 1
    <3>9. i \in 1 .. k + 1 /\ i - 1 = q
      BY <3>1, <3>3
    <3>7. i \in 1 .. k + 1 /\ (i - 1) * d = q * d
      BY <3>9
    <3> HIDE DEF i
    <3>8. v[i] = (i - 1) * d /\ i \in 1 .. Len(v)
      BY <1>10, <3>7
    <3>4. v[q + 1] = q * d /\ q + 1 \in 1 .. Len(v)
      BY <3>7, <3>8 DEF i
    <3>5. f - q * d \in 0 .. p.clip - 1
      BY <1>0, <1>1, <1>11, <3>1
    <3>6. QED
      BY <3>4, <3>5
  <2>3. QED
    BY <1>0, <1>1, <2>1, <2>2
<1>12. QED
  BY <1>3, <1>10, <1>11 DEF m, d

(* The windows that are scored.                                            *)
LEMMA WindowsCover ==
  ASSUME setup.policy \in Clips, setup.frames \in Frames,
         windows # <<>> => /\ setup.policy.clip = ClipLength
                           /\ windows = E!Starts(setup.frames, setup.policy)
  PROVE  E!WindowsCoverTheRecording
<1> DEFINE p == setup.policy
<1> DEFINE n == setup.frames
<1>1. SUFFICES ASSUME windows # <<>>
               PROVE  /\ \A i \in 1 .. Len(windows) - 1 : windows[i] < windows[i + 1]
                      /\ E!Last(windows) + p.clip = n /\ Len(windows) <= p.windows
                      /\ p.windows > 1 => windows[1] = 0
                      /\ p.stride <= p.clip /\ p.windows >= n =>
                           \A f \in 0 .. n - 1 : \E i \in DOMAIN windows : f - windows[i] \in 0 .. p.clip - 1
  BY DEF E!WindowsCoverTheRecording
<1>2. p \in Clips /\ n \in Nat /\ p.clip = ClipLength /\ p.clip \in Nat \ {0}
      /\ windows = E!Starts(n, p) /\ p.windows \in Nat \ {0}
  BY <1>1, EvaluationAssumption
<1> HIDE DEF p, n
<1>3. ~(n < p.clip)
  BY <1>1, <1>2 DEF E!Starts
<1>4. PICK v \in Seq(Int) :
        /\ windows = E!UniformSelect(v, p.windows)
        /\ Len(v) \in 1 .. n /\ Rising(v) /\ v[1] = 0 /\ v[Len(v)] = n - p.clip
        /\ p.stride <= p.clip =>
             \A f \in 0 .. n - 1 : \E i \in 1 .. Len(v) : f - v[i] \in 0 .. p.clip - 1
  BY <1>2, <1>3, WindowsFollow
<1>5. /\ windows \in Seq(Int) /\ Rising(windows) /\ Len(windows) \in 1 .. p.windows
      /\ windows[Len(windows)] = v[Len(v)]
      /\ p.windows > 1 => windows[1] = v[1]
      /\ p.windows >= Len(v) => windows = v
  BY <1>2, <1>4, SelectedEvenly
<1>6. \A i \in 1 .. Len(windows) - 1 : windows[i] < windows[i + 1]
  <2>1. TAKE i \in 1 .. Len(windows) - 1
  <2>2. i \in 1 .. Len(windows) /\ i + 1 \in 1 .. Len(windows) /\ i < i + 1
    BY <1>5
  <2>3. QED
    BY <1>5, <2>2 DEF Rising
<1>7. E!Last(windows) + p.clip = n
  BY <1>2, <1>4, <1>5 DEF E!Last
<1>8. p.windows >= n => windows = v
  BY <1>2, <1>4, <1>5
<1>9. DOMAIN windows = 1 .. Len(windows)
  BY <1>5
<1>10. ASSUME p.stride <= p.clip, p.windows >= n, NEW f \in 0 .. n - 1
       PROVE  \E i \in DOMAIN windows : f - windows[i] \in 0 .. p.clip - 1
  BY <1>4, <1>8, <1>9, <1>10
<1>11. Len(windows) <= p.windows /\ (p.windows > 1 => windows[1] = 0)
  BY <1>2, <1>4, <1>5
<1>12. QED
  BY <1>6, <1>7, <1>10, <1>11 DEF p, n

(* The first key frame is from a window than which none is better.         *)
LEMMA ScoreCounts == E!Cardinality({}) = 0 /\ \A S : IsFiniteSet(S) => (E!Cardinality(S) = 0 <=> S = {})
<1>1. \A S : E!Cardinality(S) = Cardinality(S)
  BY DEF E!Cardinality, Cardinality
<1>2. QED
  BY <1>1, FS_EmptySet

LEMMA FirstKeyIsBest ==
  ASSUME trend \in Seq(0 .. Whole), Len(trend) # 0, NEW c \in Nat \ {0}
  PROVE  \E i \in 1 .. Len(trend) :
           /\ E!KeyFrames(c)[1] = windows[i] + (setup.policy.clip \div 2)
           /\ \A j \in 1 .. Len(trend) : trend[j] <= trend[i]
<1> DEFINE T == 1 .. Len(trend)
<1> DEFINE ranked == [k \in T |-> CHOOSE i \in T : E!Place(i) = k]
<1>0. Len(trend) \in Nat \ {0} /\ DOMAIN trend = T /\ Whole \in Nat
      /\ \A j \in T : trend[j] \in Nat /\ trend[j] <= Whole
  BY EvaluationAssumption
<1>1. \E i \in T : \A j \in T : ~E!Better(j, i)
  <2> DEFINE S == {Whole - trend[j] : j \in T}
  <2>1. S \subseteq Nat /\ S # {}
    BY <1>0
  <2> HIDE DEF S
  <2>3. PICK x \in S : \A y \in S : x <= y
    BY <2>1, NaturalsHaveMinimum
  <2> USE DEF S
  <2> DEFINE B == {j \in T : Whole - trend[j] = x}
  <2>4. B \subseteq Nat /\ B # {}
    BY <1>0
  <2> HIDE DEF B
  <2>6. PICK i \in B : \A j \in B : i <= j
    BY <2>4, NaturalsHaveMinimum
  <2> USE DEF B
  <2>7. ASSUME NEW j \in T, E!Better(j, i) PROVE FALSE
    <3>1. Whole - trend[i] = x /\ i \in T /\ Whole - trend[i] <= Whole - trend[j]
      BY <2>3
    <3>2. trend[j] <= trend[i]
      BY <1>0, <3>1
    <3>3. trend[j] = trend[i] /\ j < i
      BY <1>0, <2>7, <3>1, <3>2 DEF E!Better
    <3>4. j \in B
      BY <3>1, <3>3
    <3>5. QED
      BY <1>0, <2>6, <3>1, <3>3, <3>4
  <2>8. QED
    BY <2>7
<1>2. \A i \in T : IsFiniteSet({j \in T : E!Better(j, i)})
  <2>1. TAKE i \in T
  <2>2. IsFiniteSet(T) /\ {j \in T : E!Better(j, i)} \in SUBSET T
    BY <1>0, FS_Interval
  <2>3. QED
    BY <2>2, FS_Subset
<1>3. \A i \in T : E!Place(i) = 1 <=> \A j \in T : ~E!Better(j, i)
  <2>1. TAKE i \in T
  <2> DEFINE W == {j \in T : E!Better(j, i)}
  <2>2. E!Place(i) = E!Cardinality(W) + 1
    BY <1>0 DEF E!Place
  <2>3. E!Cardinality(W) \in Nat
    <3>1. E!Cardinality(W) = Cardinality(W)
      BY DEF E!Cardinality, Cardinality
    <3>2. QED
      BY <1>2, <3>1, FS_CardinalityType
  <2>4. E!Cardinality(W) = 0 <=> W = {}
    BY <1>2, ScoreCounts
  <2>5. QED
    BY <2>2, <2>3, <2>4
<1>4. 1 \in T /\ ranked[1] \in T /\ \A j \in T : ~E!Better(j, ranked[1])
  <2>1. 1 \in T /\ ranked[1] = CHOOSE i \in T : E!Place(i) = 1
    BY <1>0
  <2>2. \E i \in T : E!Place(i) = 1
    BY <1>1, <1>3
  <2> HIDE DEF T
  <2>3. ranked[1] \in T /\ E!Place(ranked[1]) = 1
    BY <2>1, <2>2
  <2>4. QED
    BY <2>1, <2>3, <1>3
<1> DEFINE i == ranked[1]
<1> DEFINE all == [k \in T |-> windows[ranked[k]] + (setup.policy.clip \div 2)]
<1> DEFINE most == IF Len(ranked) < c THEN Len(ranked) ELSE c
<1>5. E!KeyFrames(c) = SubSeq(all, 1, most)
  BY <1>0 DEF E!KeyFrames
<1>6. Len(ranked) = Len(trend) /\ most \in Nat \ {0} /\ most <= Len(trend)
  BY <1>0
<1>7. E!KeyFrames(c)[1] = all[1]
  <2> HIDE DEF ranked, most, all, T
  <2>1. SubSeq(all, 1, most)[1] = all[1]
    BY <1>6
  <2>2. QED
    BY <1>5, <2>1
<1>8. \A j \in T : trend[j] <= trend[i]
  <2>1. TAKE j \in T
  <2>2. ~(trend[j] > trend[i])
    BY <1>4 DEF E!Better
  <2>3. QED
    BY <1>0, <1>4, <2>2
<1>9. QED
  BY <1>0, <1>4, <1>7, <1>8

EvaluationTyped ==
  /\ setup.policy \in Clips /\ setup.frames \in Frames /\ setup.wrong \subseteq E!Faults
  /\ scorer \in {"down", "own", "external"} /\ started \in BOOLEAN
  /\ trend \in Seq(0 .. Whole) /\ windows \in Seq(Int) /\ Len(trend) <= Len(windows)
  /\ result.success \in BOOLEAN /\ result.inconclusive \in BOOLEAN

(* Windows are those of a sound recording, and are scored in one phase.    *)
WindowsSampled ==
  /\ windows # <<>> => /\ setup.wrong = {} /\ setup.policy.clip = ClipLength
                       /\ windows = E!Starts(setup.frames, setup.policy)
  /\ phase \in {"begin", "live", "start", "evaluate"} => windows = <<>>
  /\ phase = "score" => windows # <<>>

(* Before its end the evaluation has no result; a result is what the       *)
(* windows say.                                                            *)
ResultEarned ==
  /\ phase \in {"begin", "live", "start", "evaluate", "score"} => result = E!NoResult
  /\ E!SuccessIsEarned
  /\ phase \in {"record", "judged", "done"} /\ trend # <<>> =>
       \E i \in DOMAIN trend :
         /\ windows[i] + (setup.policy.clip \div 2) = result.keys[1]
         /\ \A j \in DOMAIN trend : trend[j] <= trend[i]

(* The script has started a scorer of its own or there is none.            *)
ScorerOwned ==
  setup.managed =>
    /\ phase \in {"live", "start"} => scorer = "down"
    /\ phase \notin {"begin", "failed", "done"} => (scorer = "own" => started)
    /\ phase \in {"done", "failed"} /\ ~setup.keep => scorer # "own"

EvaluationInv == EvaluationTyped /\ WindowsSampled /\ ResultEarned /\ ScorerOwned

LEMMA InitEvaluation == E!Init => EvaluationInv
<1> SUFFICES ASSUME E!Init PROVE EvaluationInv
  OBVIOUS
<1>1. setup.policy \in Clips /\ setup.frames \in Frames /\ setup.wrong \subseteq E!Faults
  BY DEF E!Init, E!kSubset
<1>2. phase = "begin" /\ scorer \in {"down", "own", "external"} /\ started = FALSE
      /\ windows = <<>> /\ trend = <<>> /\ result = E!NoResult
  BY DEF E!Init
<1>3. E!NoResult.success = FALSE /\ E!NoResult.inconclusive = TRUE
  BY DEF E!NoResult
<1>0. trend \in Seq(0 .. Whole) /\ windows \in Seq(Int) /\ Len(trend) <= Len(windows)
  BY <1>2
<1>4. EvaluationTyped
  BY <1>0, <1>1, <1>2, <1>3 DEF EvaluationTyped
<1>5. WindowsSampled /\ ResultEarned /\ ScorerOwned
  BY <1>2, <1>3 DEF WindowsSampled, ResultEarned, ScorerOwned, E!SuccessIsEarned
<1>6. QED
  BY <1>4, <1>5 DEF EvaluationInv

(* Steps of the workflow change neither the recording nor what it scored.  *)
LEMMA WorkflowKeeps ==
  ASSUME EvaluationInv, UNCHANGED <<setup, windows, trend, result>>,
         scorer' \in {"down", "own", "external"}, started' \in BOOLEAN,
         phase' \notin {"begin", "live", "start", "evaluate"} \/ windows = <<>>,
         phase' # "score" \/ phase = "score",
         phase' \notin {"begin", "live", "start", "evaluate", "score"} \/ result = E!NoResult,
         phase' \notin {"record", "judged", "done"} \/ phase \in {"record", "judged"} \/ trend = <<>>
  PROVE  EvaluationTyped' /\ WindowsSampled' /\ ResultEarned'
<1> USE DEF EvaluationInv
<1>1. EvaluationTyped'
  BY DEF EvaluationTyped
<1>2. WindowsSampled'
  BY DEF WindowsSampled
<1>3. ResultEarned'
  BY DEF ResultEarned, E!SuccessIsEarned, E!Threshold
<1>4. QED
  BY <1>1, <1>2, <1>3

LEMMA AcceptedIsSound ==
  ASSUME EvaluationTyped, E!Acceptable(setup.wrong) PROVE setup.wrong = {}
<1> DEFINE w == setup.wrong
<1>1. w \subseteq E!Faults /\ E!Reasons(w) = {} /\ E!Trusted(w)
  BY DEF EvaluationTyped, E!Acceptable
<1> HIDE DEF w
<1>2. E!VideoReasons(w) = {} /\ w \cap E!SessionFaults = {} /\ E!WindowReasons(w) = {}
  BY <1>1 DEF E!Reasons
<1>3. "titled" \notin w /\ "trusted" \notin w
  BY <1>1 DEF E!Trusted
<1>4. "file" \notin w /\ "probe" \notin w
  BY <1>2 DEF E!VideoReasons
<1>5. "metadata" \notin w
  BY <1>2, <1>4 DEF E!VideoReasons, E!VideoFaults
<1>6. w \cap E!VideoFaults = {}
  BY <1>2, <1>4, <1>5 DEF E!VideoReasons
<1>7. "postflight" \notin w
  BY <1>1, <1>2, <1>3 DEF E!WindowReasons
<1>8. E!WindowMoved(w) = {}
  BY <1>2, <1>3, <1>7 DEF E!WindowReasons
<1>9. "identity" \notin w /\ "bounds" \notin w
  BY <1>8 DEF E!WindowMoved
<1>10. w = {}
  BY <1>1, <1>2, <1>3, <1>4, <1>6, <1>7, <1>9 DEF E!Faults
<1>11. QED
  BY <1>10 DEF w

(* An evaluation without a verdict.                                        *)
LEMMA InconclusiveEnds ==
  ASSUME EvaluationInv, E!Inconclusive, UNCHANGED <<setup, scorer, started, windows, trend>>,
         phase \in {"evaluate", "score"}
  PROVE  EvaluationInv'
<1> USE DEF EvaluationInv
<1>1. phase' = "record" /\ result'.success = FALSE /\ result'.inconclusive = TRUE
      /\ result'.keys = E!KeyFrames(3)
  BY DEF E!Inconclusive, E!NoResult
<1>2. EvaluationTyped'
  BY <1>1 DEF EvaluationTyped
<1>3. WindowsSampled' /\ ScorerOwned'
  BY <1>1 DEF WindowsSampled, ScorerOwned
<1>4. E!SuccessIsEarned' /\ ResultEarned'
  <2>1. SUFFICES ASSUME trend # <<>>
                 PROVE  \E i \in DOMAIN trend :
                          /\ windows[i] + (setup.policy.clip \div 2) = result'.keys[1]
                          /\ \A j \in DOMAIN trend : trend[j] <= trend[i]
    BY <1>1 DEF ResultEarned, E!SuccessIsEarned
  <2>2. Len(trend) # 0 /\ DOMAIN trend = 1 .. Len(trend) /\ trend \in Seq(0 .. Whole)
    BY <2>1 DEF EvaluationTyped
  <2>3. \E i \in 1 .. Len(trend) :
          /\ E!KeyFrames(3)[1] = windows[i] + (setup.policy.clip \div 2)
          /\ \A j \in 1 .. Len(trend) : trend[j] <= trend[i]
    <3>1. \A c \in Nat \ {0} : \E i \in 1 .. Len(trend) :
            /\ E!KeyFrames(c)[1] = windows[i] + (setup.policy.clip \div 2)
            /\ \A j \in 1 .. Len(trend) : trend[j] <= trend[i]
      BY <2>2, FirstKeyIsBest
    <3>2. 3 \in Nat \ {0}
      OBVIOUS
    <3>3. QED
      BY <3>1, <3>2
  <2>4. QED
    BY <1>1, <2>2, <2>3
<1>5. QED
  BY <1>2, <1>3, <1>4

LEMMA StepEvaluation == EvaluationInv /\ [E!Next]_(E!vars) => EvaluationInv'
<1> SUFFICES ASSUME EvaluationInv, [E!Next]_(E!vars) PROVE EvaluationInv'
  OBVIOUS
<1> USE DEF EvaluationInv
<1>0. phase \in {"begin", "live", "start", "evaluate"} => windows = <<>> /\ trend = <<>> /\ result = E!NoResult
  BY DEF EvaluationTyped, WindowsSampled, ResultEarned
<1>1. CASE E!Begin
  <2>1. EvaluationTyped' /\ WindowsSampled' /\ ResultEarned'
    BY <1>0, <1>1, WorkflowKeeps DEF E!Begin, EvaluationTyped
  <2>2. ScorerOwned'
    BY <1>1 DEF E!Begin, ScorerOwned, EvaluationTyped
  <2>3. QED
    BY <2>1, <2>2
<1>2. CASE E!Live
  <2>1. phase = "live" /\ phase' \in {"failed", "start", "evaluate"}
        /\ UNCHANGED <<setup, scorer, started, windows, trend, result>>
    BY <1>2 DEF E!Live, E!Fail
  <2>2. EvaluationTyped' /\ WindowsSampled' /\ ResultEarned'
    BY <1>0, <2>1, WorkflowKeeps DEF EvaluationTyped
  <2>3. ScorerOwned'
    BY <2>1 DEF ScorerOwned
  <2>4. QED
    BY <2>2, <2>3
<1>3. CASE E!StartScorer
  <2>1. phase = "start" /\ phase' \in {"evaluate", "broken"} /\ UNCHANGED <<setup, windows, trend, result>>
        /\ \/ scorer' = "own" /\ started' = TRUE
           \/ scorer' = scorer /\ started' = started
    BY <1>3 DEF E!StartScorer
  <2>2. EvaluationTyped' /\ WindowsSampled' /\ ResultEarned'
    BY <1>0, <2>1, WorkflowKeeps DEF EvaluationTyped
  <2>3. ScorerOwned'
    BY <2>1 DEF ScorerOwned
  <2>4. QED
    BY <2>2, <2>3
<1>4. CASE E!Finally
  <2>1. phase \in {"judged", "broken"} /\ UNCHANGED <<setup, started, windows, trend, result>>
        /\ scorer' = (IF started /\ ~setup.keep THEN "down" ELSE scorer)
        /\ phase' = (IF phase = "judged" THEN "done" ELSE "failed")
    BY <1>4 DEF E!Finally, E!Leave
  <2>2. scorer' \in {"down", "own", "external"} /\ started' \in BOOLEAN
    BY <2>1 DEF EvaluationTyped
  <2>3. EvaluationTyped' /\ WindowsSampled' /\ ResultEarned'
    BY <2>1, <2>2, WorkflowKeeps
  <2>4. ScorerOwned'
    BY <2>1 DEF ScorerOwned
  <2>5. QED
    BY <2>3, <2>4
<1>5. CASE E!Evaluate
  <2>1. phase = "evaluate" /\ UNCHANGED <<setup, scorer, started, trend>>
    BY <1>5 DEF E!Evaluate
  <2>2. CASE E!Inconclusive /\ UNCHANGED windows
    BY <2>1, <2>2, InconclusiveEnds
  <2>3. CASE phase' = "broken" /\ UNCHANGED <<windows, result>>
    <3>1. EvaluationTyped' /\ WindowsSampled' /\ ResultEarned'
      BY <1>0, <2>1, <2>3, WorkflowKeeps DEF EvaluationTyped
    <3>2. ScorerOwned'
      BY <2>1, <2>3 DEF ScorerOwned
    <3>3. QED
      BY <3>1, <3>2
  <2>4. CASE /\ E!Acceptable(setup.wrong) /\ windows' = <<>>
             /\ result' = E!NoResult /\ phase' = "record"
    <3>1. UNCHANGED <<windows, result>>
      BY <1>0, <2>1, <2>4
    <3>2. EvaluationTyped' /\ WindowsSampled' /\ ResultEarned'
      BY <1>0, <2>1, <2>4, <3>1, WorkflowKeeps DEF EvaluationTyped
    <3>3. ScorerOwned'
      BY <2>1, <2>4 DEF ScorerOwned
    <3>4. QED
      BY <3>2, <3>3
  <2>5. CASE /\ E!Acceptable(setup.wrong) /\ setup.policy.clip = ClipLength
             /\ windows' = E!Starts(setup.frames, setup.policy)
             /\ windows' # <<>> /\ phase' = "score" /\ UNCHANGED result
    <3>1. setup.wrong = {}
      BY <2>5, AcceptedIsSound
    <3> DEFINE p == setup.policy
    <3> DEFINE n == setup.frames
    <3>2. p \in Clips /\ n \in Nat /\ p.clip \in Nat \ {0} /\ p.windows \in Nat \ {0}
          /\ windows' = E!Starts(n, p)
      BY <2>5, EvaluationAssumption DEF EvaluationTyped
    <3> HIDE DEF p, n
    <3>3. ~(n < p.clip)
      BY <2>5, <3>2 DEF E!Starts
    <3>4. PICK v \in Seq(Int) : /\ windows' = E!UniformSelect(v, p.windows)
                                /\ Len(v) \in 1 .. n /\ Rising(v)
      BY <3>2, <3>3, WindowsFollow
    <3>5. windows' \in Seq(Int)
      BY <3>2, <3>4, SelectedEvenly
    <3>6. EvaluationTyped'
      BY <1>0, <2>1, <2>5, <3>5 DEF EvaluationTyped
    <3>7. WindowsSampled'
      BY <2>1, <2>5, <3>1 DEF WindowsSampled
    <3>8. ResultEarned'
      BY <1>0, <2>1, <2>5 DEF ResultEarned, E!SuccessIsEarned, E!NoResult
    <3>9. ScorerOwned'
      BY <2>1, <2>5 DEF ScorerOwned
    <3>10. QED
      BY <3>6, <3>7, <3>8, <3>9
  <2>6. QED
    BY <1>5, <2>2, <2>3, <2>4, <2>5 DEF E!Evaluate
<1>6. CASE E!Score
  <2>1. phase = "score" /\ Len(trend) < Len(windows) /\ UNCHANGED <<setup, scorer, started, windows>>
    BY <1>6 DEF E!Score
  <2>2. CASE E!Inconclusive /\ UNCHANGED trend
    BY <2>1, <2>2, InconclusiveEnds
  <2>3. CASE \E r \in Responses : E!IsScore(r) /\ trend' = Append(trend, r.target)
                                  /\ UNCHANGED <<phase, result>>
    <3>1. PICK x \in 0 .. Whole : trend' = Append(trend, x)
      BY <2>3 DEF E!IsScore
    <3>2. trend' \in Seq(0 .. Whole) /\ Len(trend') = Len(trend) + 1
      BY <3>1 DEF EvaluationTyped
    <3>3. EvaluationTyped'
      BY <2>1, <2>3, <3>2 DEF EvaluationTyped
    <3>4. WindowsSampled' /\ ScorerOwned'
      BY <2>1, <2>3 DEF WindowsSampled, ScorerOwned
    <3>5. ResultEarned'
      BY <2>1, <2>3 DEF ResultEarned, E!SuccessIsEarned, E!NoResult
    <3>6. QED
      BY <3>3, <3>4, <3>5
  <2>4. QED
    BY <1>6, <2>2, <2>3 DEF E!Score
<1>7. CASE E!Judge
  <2>1. phase = "score" /\ Len(trend) = Len(windows) /\ phase' = "record"
        /\ UNCHANGED <<setup, scorer, started, windows, trend>>
        /\ result'.success = (E!Threshold # E!None /\ E!Exceeds)
        /\ result'.inconclusive = (E!Threshold = E!None)
        /\ result'.keys = E!KeyFrames(setup.policy.keys)
    BY <1>7 DEF E!Judge
  <2>2. EvaluationTyped'
    BY <2>1 DEF EvaluationTyped
  <2>3. WindowsSampled' /\ ScorerOwned'
    BY <2>1 DEF WindowsSampled, ScorerOwned
  <2>4. Len(trend) # 0 /\ trend # <<>> /\ DOMAIN trend = 1 .. Len(trend) /\ trend \in Seq(0 .. Whole)
    BY <2>1 DEF WindowsSampled, EvaluationTyped
  <2>5. setup.policy.keys \in Nat \ {0}
    BY EvaluationAssumption DEF EvaluationTyped
  <2>6. \E i \in DOMAIN trend : /\ windows[i] + (setup.policy.clip \div 2) = result'.keys[1]
                                /\ \A j \in DOMAIN trend : trend[j] <= trend[i]
    BY <2>1, <2>4, <2>5, FirstKeyIsBest
  <2>7. E!SuccessIsEarned'
    BY <2>1, <2>4, <2>6 DEF E!SuccessIsEarned, E!Exceeds, E!Threshold
  <2>8. ResultEarned'
    BY <2>1, <2>6, <2>7 DEF ResultEarned
  <2>9. QED
    BY <2>2, <2>3, <2>8
<1>8. CASE E!Record
  <2>1. phase = "record" /\ phase' = "judged" /\ UNCHANGED <<setup, scorer, started, windows, trend, result>>
    BY <1>8 DEF E!Record
  <2>2. EvaluationTyped' /\ WindowsSampled' /\ ResultEarned'
    BY <2>1, WorkflowKeeps DEF EvaluationTyped
  <2>3. ScorerOwned'
    BY <2>1 DEF ScorerOwned
  <2>4. QED
    BY <2>2, <2>3
<1>9. CASE UNCHANGED E!vars
  <2>1. UNCHANGED <<setup, phase, scorer, started, windows, trend, result>>
    BY <1>9 DEF E!vars
  <2>2. EvaluationTyped' /\ WindowsSampled' /\ ScorerOwned'
    BY <2>1 DEF EvaluationTyped, WindowsSampled, ScorerOwned
  <2>3. ResultEarned'
    BY <2>1 DEF ResultEarned, E!SuccessIsEarned, E!Threshold
  <2>4. QED
    BY <2>2, <2>3
<1>10. QED
  BY <1>1, <1>2, <1>3, <1>4, <1>5, <1>6, <1>7, <1>8, <1>9 DEF E!Next

(* Only a sound recording is scored, in windows that follow each other to  *)
(* its last frame; a success has a threshold and a score for every window; *)
(* and a scorer that was started is stopped: for any sampling policy,      *)
(* recordings and answers of any length, any faults.                       *)
THEOREM EvaluationServes == E!Spec => [](E!TypeOK /\ E!EvaluationIsSound)
<1>1. EvaluationInv => E!TypeOK /\ E!EvaluationIsSound
  <2> SUFFICES ASSUME EvaluationInv PROVE E!TypeOK /\ E!EvaluationIsSound
    OBVIOUS
  <2> USE DEF EvaluationInv
  <2>1. E!TypeOK
    <3>0. trend \in Seq(0 .. Whole)
      BY DEF EvaluationTyped
    <3>1. \A i \in DOMAIN trend : trend[i] \in 0 .. Whole
      <4>1. \A S : trend \in Seq(S) => \A i \in DOMAIN trend : trend[i] \in S
        OBVIOUS
      <4>2. QED
        BY <3>0, <4>1
    <3>2. QED
      BY <3>1 DEF EvaluationTyped, E!TypeOK
  <2>2. E!OnlySoundVideoIsScored
    BY DEF EvaluationTyped, WindowsSampled, E!OnlySoundVideoIsScored
  <2>3. E!WindowsCoverTheRecording
    BY WindowsCover DEF EvaluationTyped, WindowsSampled
  <2>4. E!SuccessIsEarned /\ E!ScorerIsStopped
    BY DEF ResultEarned, ScorerOwned, E!ScorerIsStopped
  <2>5. QED
    BY <2>1, <2>2, <2>3, <2>4 DEF E!EvaluationIsSound
<1>2. QED
  BY <1>1, InitEvaluation, StepEvaluation, PTL DEF E!Spec
-----------------------------------------------------------------------------
CONSTANTS
  \* CreativeProgress
  Clip, Ring, Post, MaxPending, Scores, Meaningful, FeedbackTasks, MaxDeeds, MaxFrames
VARIABLES
  deeds, acting, active, sequence, ring, sampler, actions, queue, job, latest, baseline,
  previous, done

G == INSTANCE CreativeProgress WITH
  MaxTasks <- FeedbackTasks

(* What ProgressPolicy checks of its numbers; a score is a probability, in *)
(* parts of a whole.                                                       *)
ASSUME FeedbackAssumption ==
  /\ {Clip, Ring, Post, MaxPending, FeedbackTasks, MaxDeeds, MaxFrames} \subseteq Nat
  /\ Clip > 0 /\ Ring >= Clip /\ MaxPending > 0
  /\ Scores \subseteq Nat /\ Meaningful \in Nat

(* Feedback on the progress of a creative task.                            *)

Frame == [sequence : Int, deeds : Nat]
Job == [task : Nat, action : Int, after : Int, first : {TRUE, FALSE}, deeds : Nat,
        frames : Seq(Frame)]
Answer == [action : Int, score : Int]

(* A monitor that is stopped neither samples nor scores.                   *)
MonitorTyped ==
  /\ task \in Nat /\ deeds \in Nat /\ sequence \in -1 .. MaxFrames /\ actions \in Nat
  /\ ring \in Seq(Frame) /\ Len(ring) <= Ring /\ Len(queue) <= MaxPending
  /\ queue \in Seq(Job) /\ (scorer \in {"wait", "score"} => job \in Job)
  /\ done \in Seq(Answer)
  /\ DOMAIN sampler = {"pc", "deeds"} /\ sampler.deeds \in Nat
  /\ sampler.pc \in {"off", "idle", "capture", "read"}
  /\ sampler.pc = "capture" => sequence < MaxFrames
  /\ scorer \in {"off", "get", "wait", "score", "dead"}
  /\ previous \in Scores \cup {G!NoScore} /\ baseline \in Scores \cup {G!NoScore}
  /\ ~active => scorer = "off" /\ sampler.pc = "off"
  /\ scorer \notin {"wait", "score"} => job = G!NoJob

(* Of a checkpoint that waits for its window, when two frames have to      *)
(* follow the action: only what was captured since its action can be among *)
(* the frames that end a window, the one that is being captured included.  *)
Follows(j) ==
  /\ j.after <= sequence /\ j.deeds <= deeds
  /\ \A i \in 1 .. Len(ring) : ring[i].sequence >= j.after + 2 => ring[i].deeds >= j.deeds
  /\ sampler.pc = "capture" /\ sequence >= j.after + 1 => sampler.deeds >= j.deeds
  /\ sampler.pc = "read" /\ sequence >= j.after + 2 => sampler.deeds >= j.deeds

FramesFollow ==
  active /\ Post >= 2 =>
    /\ \A i \in 1 .. Len(ring) : ring[i].sequence <= sequence
    /\ \A i \in 1 .. Len(queue) : Follows(queue[i])
    /\ scorer = "wait" => Follows(job)
    /\ scorer = "score" => G!Last(job.frames).deeds >= job.deeds

(* The checkpoints are numbered as they are queued, and those of the queue *)
(* come after the answered one and the one in progress.                    *)
Answered == Len(done) + (IF scorer \in {"wait", "score"} THEN 1 ELSE 0)
CheckpointsNumbered ==
  active =>
    /\ actions = Answered + Len(queue)
    /\ \A i \in 1 .. Len(queue) : queue[i].task = task /\ queue[i].action = Answered + i - 1
    /\ scorer \in {"wait", "score"} => job.task = task /\ job.action = Len(done)
    /\ \A i \in 1 .. Len(done) : done[i].action = i - 1
    /\ latest.status # G!None => latest.task = task

(* The score before is that of the last checkpoint that was scored.        *)
ScoresCompared ==
  active =>
    /\ previous = G!NoScore => \A i \in 1 .. Len(done) : ~G!IsScored(i)
    /\ previous # G!NoScore =>
         \E i \in 1 .. Len(done) : G!IsLastScored(i, Len(done)) /\ done[i].score = previous
    /\ latest.status = "completed" =>
         \E n \in 1 .. Len(done) : G!IsLastScored(n, Len(done)) /\ G!Compares(n)

FeedbackInv == MonitorTyped /\ FramesFollow /\ CheckpointsNumbered /\ ScoresCompared

LEMMA InitFeedback == G!Init => FeedbackInv
<1> SUFFICES ASSUME G!Init PROVE FeedbackInv
  OBVIOUS
<1>1. MonitorTyped
  BY FeedbackAssumption DEF G!Init, MonitorTyped, G!NoScore
<1>2. FramesFollow /\ CheckpointsNumbered /\ ScoresCompared
  BY DEF G!Init, FramesFollow, CheckpointsNumbered, ScoresCompared
<1>3. QED
  BY <1>1, <1>2 DEF FeedbackInv

LEMMA MonitorNumbers ==
  ASSUME MonitorTyped
  PROVE  /\ Len(ring) \in Nat /\ Len(queue) \in Nat /\ Len(done) \in Nat
         /\ sequence \in Int /\ deeds \in Nat /\ sampler.deeds \in Nat /\ actions \in Nat
         /\ \A i \in 1 .. Len(ring) : ring[i].sequence \in Int /\ ring[i].deeds \in Nat
         /\ \A i \in 1 .. Len(queue) : /\ queue[i] \in Job /\ queue[i].after \in Int
                                       /\ queue[i].deeds \in Nat /\ queue[i].action \in Int
         /\ \A i \in 1 .. Len(done) : done[i].action \in Int /\ done[i].score \in Int
         /\ scorer \in {"wait", "score"} =>
              /\ job \in Job /\ job.after \in Int /\ job.deeds \in Nat /\ job.action \in Int
<1>1. Len(ring) \in Nat /\ \A i \in 1 .. Len(ring) : ring[i] \in Frame
  BY DEF MonitorTyped
<1>2. Len(queue) \in Nat /\ \A i \in 1 .. Len(queue) : queue[i] \in Job
  BY DEF MonitorTyped
<1>3. Len(done) \in Nat /\ \A i \in 1 .. Len(done) : done[i] \in Answer
  BY DEF MonitorTyped
<1>4. \A j \in Job : j.after \in Int /\ j.deeds \in Nat /\ j.action \in Int
  BY DEF Job
<1>5. \A f \in Frame : f.sequence \in Int /\ f.deeds \in Nat
  BY DEF Frame
<1>6. \A a \in Answer : a.action \in Int /\ a.score \in Int
  BY DEF Answer
<1>7. sequence \in Int /\ deeds \in Nat /\ sampler.deeds \in Nat /\ actions \in Nat
  BY FeedbackAssumption DEF MonitorTyped
<1>8. scorer \in {"wait", "score"} => job \in Job
  BY DEF MonitorTyped
<1>9. QED
  BY <1>1, <1>2, <1>3, <1>4, <1>5, <1>6, <1>7, <1>8

(* The monitor is started or stopped.                                      *)
LEMMA ResetFeedback ==
  ASSUME FeedbackInv, G!Reset \/ G!Close PROVE FeedbackInv'
<1> USE DEF FeedbackInv
<1>1. CASE G!Start /\ G!Reset
  <2> DEFINE b == G!Baseline
  <2>1. b \in Job /\ b.task = task + 1 /\ b.action = 0 /\ b.after = -1 /\ b.deeds = 0
    BY DEF G!Baseline, Job, MonitorTyped
  <2>2. queue' = <<b>> /\ done' = <<>> /\ task' = task + 1 /\ deeds' = 0 /\ ring' = <<>>
        /\ scorer' = "get" /\ job' = G!NoJob /\ actions' = 1 /\ sequence' = -1
        /\ sampler' = [pc |-> "idle", deeds |-> 0] /\ latest' = G!NoFeedback
        /\ previous' = G!NoScore /\ baseline' = G!NoScore /\ active'
    BY <1>1 DEF G!Start, G!Reset
  <2> HIDE DEF b
  <2>3. queue' \in Seq(Job) /\ Len(queue') = 1 /\ queue'[1] = b /\ Len(done') = 0 /\ Len(ring') = 0
        /\ done' \in Seq(Answer) /\ ring' \in Seq(Frame)
    BY <2>1, <2>2
  <2>4. MonitorTyped'
    BY <2>2, <2>3, FeedbackAssumption DEF MonitorTyped
  <2>5. FramesFollow'
    BY <2>1, <2>2, <2>3 DEF FramesFollow, Follows
  <2>6. CheckpointsNumbered'
    BY <2>1, <2>2, <2>3 DEF CheckpointsNumbered, Answered, G!NoFeedback
  <2>7. ScoresCompared'
    BY <2>2, <2>3 DEF ScoresCompared, G!NoFeedback, G!None
  <2>8. QED
    BY <2>4, <2>5, <2>6, <2>7
<1>2. CASE G!Stop
  <2>1. task' \in Nat /\ deeds' \in Nat /\ done' \in Seq(Answer)
    <3>1. \/ task' = task /\ deeds' = deeds /\ done' = done
          \/ task' = task + 1 /\ deeds' = 0 /\ done' = <<>>
      BY DEF G!Reset, G!Close
    <3>2. <<>> \in Seq(Answer) /\ task + 1 \in Nat
      BY DEF MonitorTyped
    <3>3. task \in Nat /\ deeds \in Nat /\ done \in Seq(Answer)
      BY DEF MonitorTyped
    <3>4. CASE task' = task /\ deeds' = deeds /\ done' = done
      BY <3>3, <3>4
    <3>5. CASE task' = task + 1 /\ deeds' = 0 /\ done' = <<>>
      BY <3>2, <3>5
    <3>6. QED
      BY <3>1, <3>4, <3>5
  <2>2. MonitorTyped'
    BY <1>2, <2>1 DEF G!Stop, MonitorTyped
  <2>3. FramesFollow' /\ CheckpointsNumbered' /\ ScoresCompared'
    BY <1>2 DEF G!Stop, FramesFollow, CheckpointsNumbered, ScoresCompared
  <2>4. QED
    BY <2>2, <2>3
<1>3. QED
  BY <1>1, <1>2 DEF G!Reset, G!Close


(* Frames are added at the end, and the oldest one may be dropped.         *)
LEMMA RingKept ==
  ASSUME MonitorTyped, NEW frame \in Frame, ring' = G!Keep(frame)
  PROVE  /\ ring' \in Seq(Frame) /\ Len(ring') <= Ring
         /\ \A i \in 1 .. Len(ring') : ring'[i] = frame \/ \E k \in 1 .. Len(ring) : ring'[i] = ring[k]
<1> DEFINE longer == Append(ring, frame)
<1>1. /\ longer \in Seq(Frame) /\ Len(longer) = Len(ring) + 1 /\ Len(ring) <= Ring
      /\ \A i \in 1 .. Len(longer) : longer[i] = frame \/ \E k \in 1 .. Len(ring) : longer[i] = ring[k]
  BY DEF MonitorTyped
<1> HIDE DEF longer
<1>2. CASE ring' = longer /\ Len(longer) <= Ring
  BY <1>1, <1>2
<1>3. CASE ring' = Tail(longer)
  <2>1. ring' \in Seq(Frame) /\ Len(ring') = Len(longer) - 1
        /\ \A i \in 1 .. Len(ring') : ring'[i] = longer[i + 1]
    BY <1>1, <1>3
  <2>2. QED
    BY <1>1, <2>1, FeedbackAssumption
<1>4. ring' = Tail(longer) \/ (ring' = longer /\ ~(Len(longer) > Ring))
  BY DEF G!Keep, longer
<1>5. Len(longer) \in Int /\ Ring \in Int
  BY <1>1, FeedbackAssumption
<1>6. QED
  BY <1>2, <1>3, <1>4, <1>5

(* An answer to a checkpoint.                                              *)
LEMMA AnswerGiven ==
  ASSUME MonitorTyped, NEW p \in Int, scorer \in {"wait", "score"}, G!Answers(p)
  PROVE  /\ done' \in Seq(Answer) /\ Len(done') = Len(done) + 1
         /\ done'[Len(done) + 1] = [action |-> job.action, score |-> p]
         /\ \A i \in 1 .. Len(done) : done'[i] = done[i]
<1> DEFINE e == [action |-> job.action, score |-> p]
<1>1. e \in Answer
  BY DEF MonitorTyped, Job, Answer
<1>2. done' = Append(done, e)
  BY DEF G!Answers
<1> HIDE DEF e
<1>3. QED
  BY <1>1, <1>2 DEF MonitorTyped, e

LEMMA StepFeedback == FeedbackInv /\ [G!Next]_(G!vars) => FeedbackInv'
<1> SUFFICES ASSUME FeedbackInv, [G!Next]_(G!vars) PROVE FeedbackInv'
  OBVIOUS
<1> USE DEF FeedbackInv
<1>1. CASE G!Act
  <2>1. UNCHANGED <<active, sequence, ring, sampler, queue, scorer, job>> /\ deeds' = deeds + 1
    BY <1>1 DEF G!Act, G!monitor
  <2>2. MonitorTyped'
    BY <1>1 DEF G!Act, G!monitor, MonitorTyped, G!NoScore
  <2>3. FramesFollow'
    <3>1. SUFFICES ASSUME active, Post >= 2 PROVE FramesFollow'
      BY <1>1 DEF G!Act, FramesFollow, G!monitor
    <3>2. /\ \A i \in 1 .. Len(ring) : ring[i].sequence <= sequence
          /\ \A i \in 1 .. Len(queue) : Follows(queue[i])
          /\ scorer = "wait" => Follows(job)
          /\ scorer = "score" => G!Last(job.frames).deeds >= job.deeds
      BY <3>1 DEF FramesFollow
    <3>0. \A j \in Job : j.after \in Int /\ j.deeds \in Nat
      BY DEF Job
    <3>3. ASSUME NEW j \in Job, Follows(j)
          PROVE  Follows(j)'
      BY <1>1, <3>2, <3>3, <2>1, MonitorNumbers, <3>0 DEF G!Act, Follows
    <3>4. \A i \in 1 .. Len(queue) : queue[i] \in Job
      BY MonitorNumbers
    <3>6. QED
      BY <2>1, <3>2, <3>3, <3>4, MonitorNumbers DEF FramesFollow
  <2>4. CheckpointsNumbered'
    BY <1>1 DEF G!Act, G!monitor, CheckpointsNumbered, Answered, MonitorTyped
  <2>5. ScoresCompared'
    BY <1>1 DEF G!Act, G!monitor, ScoresCompared, G!IsLastScored, G!IsScored, G!Compares,
       MonitorTyped
  <2>6. QED
    BY <2>2, <2>3, <2>4, <2>5
<1>2. CASE G!Return
  <2>1. UNCHANGED <<task, deeds, active, sequence, ring, sampler, job, scorer, latest, baseline,
                    previous, done>>
    BY <1>2 DEF G!Return
  <2>2. CASE UNCHANGED <<actions, queue>>
    <3>1. MonitorTyped' /\ FramesFollow' /\ CheckpointsNumbered'
      BY <2>1, <2>2 DEF MonitorTyped, FramesFollow, Follows, CheckpointsNumbered, Answered
    <3>2. ScoresCompared'
      BY <2>1, <2>2 DEF ScoresCompared, G!IsLastScored, G!IsScored, G!Compares
    <3>3. QED
      BY <3>1, <3>2
  <2>3. CASE active /\ ~G!QueueFull /\ queue' = Append(queue, G!Checkpoint) /\ actions' = actions + 1
    <3> DEFINE c == G!Checkpoint
    <3>1. c \in Job /\ c.task = task /\ c.action = actions /\ c.after = sequence /\ c.deeds = deeds
      BY DEF G!Checkpoint, Job, MonitorTyped
    <3>2. Len(queue) < MaxPending /\ queue' = Append(queue, c) /\ actions' = actions + 1 /\ active
      BY <2>3, FeedbackAssumption, MonitorNumbers DEF G!QueueFull
    <3> HIDE DEF c
    <3>3. queue' \in Seq(Job) /\ Len(queue') = Len(queue) + 1 /\ queue'[Len(queue) + 1] = c
          /\ \A i \in 1 .. Len(queue) : queue'[i] = queue[i]
      BY <3>1, <3>2 DEF MonitorTyped
    <3> \A i \in 1 .. Len(queue') : i \in 1 .. Len(queue) \/ i = Len(queue) + 1
      BY <3>3, MonitorNumbers
    <3>4. MonitorTyped'
      BY <2>1, <3>2, <3>3, FeedbackAssumption DEF MonitorTyped
    <3>5. FramesFollow'
      <4>1. SUFFICES ASSUME Post >= 2
                     PROVE  \A i \in 1 .. Len(queue') : Follows(queue'[i])
        BY <2>1, <3>2 DEF FramesFollow, Follows
      <4>2. \A i \in 1 .. Len(queue) : Follows(queue[i])
        BY <3>2, <4>1 DEF FramesFollow
      <4>3. Follows(c)
        BY <3>1, <3>2, <4>1, MonitorNumbers DEF FramesFollow, Follows
      <4>4. QED
        BY <3>3, <4>2, <4>3, MonitorNumbers
    <3>6. CheckpointsNumbered'
      <4>1. Answered' = Answered /\ Answered \in Nat /\ actions = Answered + Len(queue)
        BY <2>1, <3>2, MonitorNumbers DEF Answered, CheckpointsNumbered
      <4>2. \A i \in 1 .. Len(queue') : queue'[i].task = task /\ queue'[i].action = Answered + i - 1
        <5>1. \A i \in 1 .. Len(queue) : queue[i].task = task /\ queue[i].action = Answered + i - 1
          BY <3>2 DEF CheckpointsNumbered
        <5>2. c.action = Answered + (Len(queue) + 1) - 1
          BY <3>1, <4>1, MonitorNumbers
        <5>3. TAKE i \in 1 .. Len(queue')
        <5>4. CASE i \in 1 .. Len(queue)
          BY <3>3, <5>1, <5>4
        <5>5. CASE i = Len(queue) + 1
          BY <3>1, <3>3, <5>2, <5>5
        <5>6. QED
          BY <5>4, <5>5
      <4>3. actions' = Answered + Len(queue')
        BY <3>2, <3>3, <4>1, MonitorNumbers
      <4>4. QED
        BY <2>1, <3>2, <4>1, <4>2, <4>3 DEF CheckpointsNumbered
    <3>7. ScoresCompared'
      BY <2>1 DEF ScoresCompared, G!IsLastScored, G!IsScored, G!Compares
    <3>8. QED
      BY <3>4, <3>5, <3>6, <3>7
  <2>4. QED
    BY <1>2, <2>2, <2>3 DEF G!Return
<1>3. CASE G!BeginCapture
  <2>1. MonitorTyped'
    BY <1>3 DEF G!BeginCapture, MonitorTyped, G!NoScore
  <2>2. FramesFollow'
    BY <1>3 DEF G!BeginCapture, FramesFollow, Follows, MonitorTyped
  <2>3. CheckpointsNumbered'
    BY <1>3 DEF G!BeginCapture, CheckpointsNumbered, Answered, MonitorTyped
  <2>4. ScoresCompared'
    BY <1>3 DEF G!BeginCapture, ScoresCompared, G!IsLastScored, G!IsScored, G!Compares,
       MonitorTyped
  <2>5. QED
    BY <2>1, <2>2, <2>3, <2>4
<1>4. CASE G!Captured
  <2>1. sampler' = [sampler EXCEPT !.pc = "read"] /\ sampler.pc = "capture"
        /\ sequence' = sequence + 1
    BY <1>4 DEF G!Captured
  <2>2. DOMAIN sampler' = {"pc", "deeds"} /\ sampler'.pc = "read" /\ sampler'.deeds = sampler.deeds
    BY <2>1 DEF MonitorTyped
  <2>3. sequence' \in -1 .. MaxFrames
    <3>1. MaxFrames \in Nat
      BY FeedbackAssumption
    <3>2. QED
      BY <2>1, <3>1 DEF MonitorTyped
  <2>4. MonitorTyped'
    BY <1>4, <2>1, <2>2, <2>3 DEF G!Captured, MonitorTyped, G!NoScore
  <2>5. FramesFollow'
    <3>1. SUFFICES ASSUME active, Post >= 2 PROVE FramesFollow'
      BY <1>4 DEF G!Captured, FramesFollow
    <3>2. /\ \A i \in 1 .. Len(ring) : ring[i].sequence <= sequence
          /\ \A i \in 1 .. Len(queue) : Follows(queue[i])
          /\ scorer = "wait" => Follows(job)
          /\ scorer = "score" => G!Last(job.frames).deeds >= job.deeds
      BY <3>1 DEF FramesFollow
    <3>0. \A j \in Job : j.after \in Int /\ j.deeds \in Nat
      BY DEF Job
    <3>3. ASSUME NEW j \in Job, Follows(j)
          PROVE  Follows(j)'
      BY <1>4, <3>2, <3>3, <2>1, <2>2, MonitorNumbers, <3>0 DEF G!Captured, Follows
    <3>4. \A i \in 1 .. Len(queue) : queue[i] \in Job
      BY MonitorNumbers
    <3>5. QED
      BY <1>4, <2>1, <3>2, <3>3, <3>4, MonitorNumbers DEF G!Captured, FramesFollow
  <2>6. CheckpointsNumbered'
    BY <1>4, <2>1, <2>2, <2>3 DEF G!Captured, CheckpointsNumbered, Answered, MonitorTyped
  <2>7. ScoresCompared'
    BY <1>4, <2>1, <2>2, <2>3 DEF G!Captured, ScoresCompared, G!IsLastScored, G!IsScored,
       G!Compares, MonitorTyped
  <2>8. QED
    BY <2>4, <2>5, <2>6, <2>7
<1>5. CASE G!FrameRead
  <2> DEFINE f == [sequence |-> sequence, deeds |-> sampler.deeds]
  <2>1. f \in Frame /\ f.sequence = sequence /\ f.deeds = sampler.deeds
    BY DEF Frame, MonitorTyped
  <2>2. ring' = G!Keep(f)
    BY <1>5 DEF G!FrameRead
  <2> HIDE DEF f
  <2>3. /\ ring' \in Seq(Frame) /\ Len(ring') <= Ring
        /\ \A i \in 1 .. Len(ring') : ring'[i] = f \/ \E k \in 1 .. Len(ring) : ring'[i] = ring[k]
    BY <2>1, <2>2, RingKept
  <2>4. MonitorTyped'
    BY <1>5, <2>3 DEF G!FrameRead, MonitorTyped, G!NoScore
  <2>5. FramesFollow'
    <3>1. SUFFICES ASSUME active, Post >= 2 PROVE FramesFollow'
      BY <1>5 DEF G!FrameRead, FramesFollow
    <3>2. /\ \A i \in 1 .. Len(ring) : ring[i].sequence <= sequence
          /\ \A i \in 1 .. Len(queue) : Follows(queue[i])
          /\ scorer = "wait" => Follows(job)
          /\ scorer = "score" => G!Last(job.frames).deeds >= job.deeds
      BY <3>1 DEF FramesFollow
    <3>3. ASSUME NEW j \in Job, Follows(j)
          PROVE  Follows(j)'
      <4>1. ASSUME NEW i \in 1 .. Len(ring'), ring'[i].sequence >= j.after + 2
            PROVE  ring'[i].deeds >= j.deeds
        BY <1>5, <2>1, <2>3, <3>3, <4>1 DEF G!FrameRead, Follows
      <4>2. QED
        BY <1>5, <3>3, <4>1 DEF G!FrameRead, Follows
    <3>4. \A i \in 1 .. Len(queue) : queue[i] \in Job
      BY DEF MonitorTyped
    <3>5. \A i \in 1 .. Len(ring') : ring'[i].sequence <= sequence
      <4>1. TAKE i \in 1 .. Len(ring')
      <4>2. CASE ring'[i] = f
        BY <2>1, <4>2, MonitorNumbers
      <4>3. CASE \E k \in 1 .. Len(ring) : ring'[i] = ring[k]
        BY <3>2, <4>3
      <4>4. QED
        BY <2>3, <4>2, <4>3
    <3>6. QED
      BY <1>5, <3>2, <3>3, <3>4, <3>5, MonitorNumbers DEF G!FrameRead, FramesFollow
  <2>6. CheckpointsNumbered'
    BY <1>5 DEF G!FrameRead, G!Keep, CheckpointsNumbered, Answered, MonitorTyped
  <2>7. ScoresCompared'
    BY <1>5 DEF G!FrameRead, G!Keep, ScoresCompared, G!IsLastScored, G!IsScored, G!Compares,
       MonitorTyped
  <2>8. QED
    BY <2>4, <2>5, <2>6, <2>7
<1>6. CASE G!CaptureFails
  <2>1. MonitorTyped'
    BY <1>6 DEF G!CaptureFails, MonitorTyped, G!NoScore
  <2>2. FramesFollow'
    BY <1>6 DEF G!CaptureFails, FramesFollow, Follows, MonitorTyped
  <2>3. CheckpointsNumbered'
    BY <1>6 DEF G!CaptureFails, CheckpointsNumbered, Answered, MonitorTyped
  <2>4. ScoresCompared'
    BY <1>6 DEF G!CaptureFails, ScoresCompared, G!IsLastScored, G!IsScored, G!Compares,
       MonitorTyped
  <2>5. QED
    BY <2>1, <2>2, <2>3, <2>4
<1>7. CASE G!TakeJob
  <2>1. /\ scorer = "get" /\ queue # <<>> /\ job' = Head(queue) /\ queue' = Tail(queue)
        /\ scorer' = "wait"
        /\ UNCHANGED <<task, deeds, acting, active, sequence, ring, sampler, actions, latest,
                       baseline, previous, done>>
    BY <1>7 DEF G!TakeJob
  <2>2. queue \in Seq(Job) /\ Len(queue) \in Nat /\ Len(queue) >= 1
    BY <2>1 DEF MonitorTyped
  <2>3. /\ job' = queue[1] /\ job' \in Job /\ queue' \in Seq(Job) /\ Len(queue') = Len(queue) - 1
        /\ \A i \in 1 .. Len(queue') : queue'[i] = queue[i + 1] /\ i + 1 \in 1 .. Len(queue)
    BY <2>1, <2>2
  <2>4. MonitorTyped'
    BY <2>1, <2>2, <2>3, FeedbackAssumption DEF MonitorTyped
  <2>5. FramesFollow'
    <3>1. ASSUME NEW j, Follows(j) PROVE Follows(j)'
      BY <2>1, <3>1 DEF Follows
    <3>2. QED
      BY <2>1, <2>2, <2>3, <3>1 DEF FramesFollow
  <2>6. CheckpointsNumbered'
    <3>1. Answered' = Answered + 1 /\ Answered = Len(done) /\ Len(done) \in Nat
      BY <2>1 DEF Answered, MonitorTyped
    <3>2. SUFFICES ASSUME active PROVE CheckpointsNumbered'
      BY <2>1 DEF CheckpointsNumbered
    <3>3. \A i \in 1 .. Len(queue) : queue[i].task = task /\ queue[i].action = Answered + i - 1
      BY <3>2 DEF CheckpointsNumbered
    <3>4. job'.task = task /\ job'.action = Len(done)
      BY <2>2, <2>3, <3>1, <3>3
    <3>5. \A i \in 1 .. Len(queue') : queue'[i].task = task /\ queue'[i].action = Answered' + i - 1
      <4>1. TAKE i \in 1 .. Len(queue')
      <4>2. queue'[i] = queue[i + 1] /\ i + 1 \in 1 .. Len(queue)
        BY <2>3
      <4>3. queue'[i].task = task /\ queue'[i].action = Answered + (i + 1) - 1
        BY <3>3, <4>2
      <4>4. Answered + (i + 1) - 1 = Answered' + i - 1 /\ i \in Int
        BY <2>2, <2>3, <3>1
      <4>5. QED
        BY <4>3, <4>4
    <3>6. actions' = Answered' + Len(queue')
      BY <2>1, <2>2, <2>3, <3>1, <3>2 DEF CheckpointsNumbered
    <3>7. QED
      BY <2>1, <3>2, <3>4, <3>5, <3>6 DEF CheckpointsNumbered
  <2>7. ScoresCompared'
    BY <2>1 DEF ScoresCompared, G!IsLastScored, G!IsScored, G!Compares
  <2>8. QED
    BY <2>4, <2>5, <2>6, <2>7
<1>8. CASE G!TakeWindow
  <2> DEFINE window == SubSeq(ring, Len(ring) - Clip + 1, Len(ring))
  <2>1. /\ scorer = "wait" /\ Len(ring) >= Clip /\ ring[Len(ring)].sequence >= job.after + Post
        /\ job' = [job EXCEPT !.frames = window] /\ scorer' = "score"
        /\ UNCHANGED <<task, deeds, acting, active, sequence, ring, sampler, actions, queue, latest,
                       baseline, previous, done>>
    BY <1>8 DEF G!TakeWindow, G!WindowReady, G!MinimumEnd, G!Last
  <2>2. ring \in Seq(Frame) /\ Len(ring) \in Nat /\ job \in Job
    BY <2>1 DEF MonitorTyped
  <2>3. window \in Seq(Frame) /\ Len(window) = Clip /\ window[Len(window)] = ring[Len(ring)]
    <3>1. Clip \in Nat /\ Clip > 0
      BY FeedbackAssumption
    <3>2. QED
      BY <2>1, <2>2, <3>1
  <2> HIDE DEF window
  <2>4. /\ job' \in Job /\ job'.frames = window /\ job'.task = job.task /\ job'.action = job.action
        /\ job'.deeds = job.deeds
    BY <2>1, <2>2, <2>3 DEF Job
  <2>5. MonitorTyped'
    BY <2>1, <2>4 DEF MonitorTyped
  <2>6. FramesFollow'
    <3>1. ASSUME NEW j, Follows(j) PROVE Follows(j)'
      BY <2>1, <3>1 DEF Follows
    <3>2. SUFFICES ASSUME active, Post >= 2 PROVE FramesFollow'
      BY <2>1 DEF FramesFollow
    <3>3. ring[Len(ring)].deeds >= job.deeds
      <4>1. Len(ring) \in 1 .. Len(ring) /\ Post \in Nat
        BY <2>1, <2>2, FeedbackAssumption
      <4>2. ring[Len(ring)].sequence \in Int /\ job.after \in Int
        BY <2>1, <4>1, MonitorNumbers
      <4>3. ring[Len(ring)].sequence >= job.after + 2
        BY <2>1, <3>2, <4>1, <4>2
      <4>4. QED
        BY <2>1, <3>2, <4>1, <4>3 DEF FramesFollow, Follows
    <3>4. QED
      BY <2>1, <2>3, <2>4, <3>1, <3>2, <3>3 DEF FramesFollow, G!Last
  <2>7. CheckpointsNumbered'
    BY <2>1, <2>4 DEF CheckpointsNumbered, Answered
  <2>8. ScoresCompared'
    BY <2>1 DEF ScoresCompared, G!IsLastScored, G!IsScored, G!Compares
  <2>9. QED
    BY <2>5, <2>6, <2>7, <2>8
<1>9. CASE G!Score
  <2>1. PICK p \in Scores :
          /\ latest' = [status |-> "completed", task |-> job.task, action |-> job.action,
                        score |-> p, trend |-> G!Trend(p), first |-> job.frames[1].sequence,
                        last |-> G!Last(job.frames).sequence]
          /\ baseline' = (IF job.first THEN p ELSE baseline) /\ previous' = p /\ G!Answers(p)
    BY <1>9 DEF G!Score
  <2>2. /\ scorer \in {"wait", "score"} /\ scorer' = "get" /\ job' = G!NoJob
        /\ UNCHANGED <<task, deeds, acting, active, sequence, ring, sampler, actions, queue>>
    BY <1>9 DEF G!Score
  <2>3. p \in Int /\ (p = G!NoScore \/ p \in Scores)
    BY FeedbackAssumption DEF G!NoScore
  <2>4. /\ done' \in Seq(Answer) /\ Len(done') = Len(done) + 1 /\ Len(done) \in Nat
        /\ done'[Len(done) + 1] = [action |-> job.action, score |-> p]
        /\ \A i \in 1 .. Len(done) : done'[i] = done[i]
    BY <2>1, <2>2, <2>3, AnswerGiven, MonitorNumbers
  <2> \A i \in 1 .. Len(done') : i \in 1 .. Len(done) \/ i = Len(done) + 1
    BY <2>4
  <2>5. MonitorTyped'
    BY <2>1, <2>2, <2>3, <2>4 DEF MonitorTyped
  <2>6. FramesFollow'
    BY <2>2 DEF FramesFollow, Follows
  <2>7. CheckpointsNumbered'
    <3>1. SUFFICES ASSUME active PROVE CheckpointsNumbered'
      BY <2>2 DEF CheckpointsNumbered
    <3>2. Answered' = Answered
      BY <2>2, <2>4 DEF Answered
    <3>3. job.task = task /\ job.action = Len(done)
      BY <2>2, <3>1 DEF CheckpointsNumbered
    <3>4. latest'.status # G!None => latest'.task = task
      BY <2>1, <3>1, <3>3 DEF CheckpointsNumbered, G!NoFeedback
    <3>5. \A i \in 1 .. Len(done') : done'[i].action = i - 1
      <4>1. \A i \in 1 .. Len(done) : done[i].action = i - 1
        BY <3>1 DEF CheckpointsNumbered
      <4>2. done'[Len(done) + 1].action = Len(done) + 1 - 1
        BY <2>4, <3>3
      <4>3. QED
        BY <2>4, <4>1, <4>2
    <3>6. QED
      BY <2>2, <3>1, <3>2, <3>4, <3>5 DEF CheckpointsNumbered
  <2>8. ScoresCompared'
    <3>1. SUFFICES ASSUME active PROVE ScoresCompared'
      BY <2>2 DEF ScoresCompared
    <3>0. PICK n \in Nat : n = Len(done) + 1
      BY <2>4
    <3>2. n \in 1 .. Len(done') /\ done'[n].score = p /\ p # G!NoScore /\ p \in Nat
      BY <2>1, <2>3, <2>4, <3>0, FeedbackAssumption DEF G!NoScore
    <3>3. latest'.score = p /\ latest'.trend = G!Trend(p) /\ latest'.status = "completed"
          /\ previous' = p
      BY <2>1
    <3>4. /\ \A i \in 1 .. n - 1 : G!IsScored(i)' <=> G!IsScored(i)
          /\ \A m \in 1 .. n - 1 : done'[m].score = done[m].score /\ done[m].score \in Int
      BY <2>4, <3>0, MonitorNumbers DEF G!IsScored
    <3>5. CASE previous = G!NoScore
      <4>1. \A i \in 1 .. n - 1 : ~G!IsScored(i)
        BY <2>4, <3>0, <3>1, <3>5 DEF ScoresCompared
      <4>2. G!Trend(p) = "baseline"
        BY <3>5 DEF G!Trend
      <4>3. \A i \in 1 .. n - 1 : done'[i].score = G!NoScore
        BY <3>4, <4>1 DEF G!IsScored
      <4>4. G!Compares(n)'
        <5>1. latest'.trend = "baseline" /\ \A i \in 1 .. n - 1 : ~G!IsScored(i)'
          BY <3>3, <4>2, <4>3 DEF G!IsScored
        <5>2. \A k \in 1 .. n - 1 : ~G!IsLastScored(k, n - 1)'
          BY <5>1 DEF G!IsLastScored
        <5>3. QED
          BY <3>2, <3>3, <5>1, <5>2 DEF G!Compares
      <4>5. QED
        BY <2>4, <3>0, <3>2, <3>3, <4>4 DEF ScoresCompared, G!IsLastScored, G!IsScored
    <3>6. CASE previous # G!NoScore
      <4>1. PICK m \in 1 .. Len(done) : G!IsLastScored(m, Len(done)) /\ done[m].score = previous
        BY <3>1, <3>6 DEF ScoresCompared
      <4>2. /\ G!Trend(p) # "baseline"
            /\ G!Trend(p) = "improving" => p - previous >= Meaningful
            /\ G!Trend(p) = "regressing" => p - previous <= -Meaningful
        BY <3>6 DEF G!Trend
      <4>3. /\ m \in 1 .. n - 1 /\ done'[m].score = previous /\ done'[m].score # G!NoScore
            /\ \A j \in m + 1 .. n - 1 : done'[j].score = G!NoScore
        BY <2>4, <3>0, <3>4, <3>6, <4>1 DEF G!IsLastScored, G!IsScored
      <4>4. ASSUME NEW k \in 1 .. n - 1, G!IsLastScored(k, n - 1)' PROVE k = m
        BY <2>4, <4>3, <4>4 DEF G!IsLastScored, G!IsScored
      <4>5. G!Compares(n)'
        <5>1. latest'.trend # "baseline" /\ ~(\A i \in 1 .. n - 1 : ~G!IsScored(i)')
          BY <3>3, <4>2, <4>3 DEF G!IsScored
        <5>2. ASSUME NEW k \in 1 .. n - 1, G!IsLastScored(k, n - 1)'
              PROVE  /\ latest'.trend = "improving" => done'[n].score - done'[k].score >= Meaningful
                     /\ latest'.trend = "regressing" => done'[n].score - done'[k].score <= -Meaningful
          BY <3>2, <3>3, <4>2, <4>3, <4>4, <5>2
        <5>3. QED
          BY <3>2, <3>3, <5>1, <5>2 DEF G!Compares
      <4>6. QED
        BY <2>4, <3>0, <3>2, <3>3, <4>5 DEF ScoresCompared, G!IsLastScored, G!IsScored
    <3>7. QED
      BY <3>5, <3>6
  <2>9. QED
    BY <2>5, <2>6, <2>7, <2>8
<1>10. CASE G!JobFails
  <2> DEFINE p == G!NoScore
  <2>1. latest' = [G!NoFeedback EXCEPT !.status = "failed", !.task = job.task, !.action = job.action]
        /\ G!Answers(p) /\ UNCHANGED <<baseline, previous>>
    BY <1>10 DEF G!JobFails
  <2>2. /\ scorer \in {"wait", "score"} /\ scorer' = "get" /\ job' = G!NoJob
        /\ UNCHANGED <<task, deeds, acting, active, sequence, ring, sampler, actions, queue>>
    BY <1>10 DEF G!JobFails
  <2>3. p \in Int /\ (p = G!NoScore \/ p \in Scores)
    BY FeedbackAssumption DEF G!NoScore
  <2>4. /\ done' \in Seq(Answer) /\ Len(done') = Len(done) + 1 /\ Len(done) \in Nat
        /\ done'[Len(done) + 1] = [action |-> job.action, score |-> p]
        /\ \A i \in 1 .. Len(done) : done'[i] = done[i]
    BY <2>1, <2>2, <2>3, AnswerGiven, MonitorNumbers
  <2> \A i \in 1 .. Len(done') : i \in 1 .. Len(done) \/ i = Len(done) + 1
    BY <2>4
  <2> HIDE DEF p
  <2>5. MonitorTyped'
    BY <2>1, <2>2, <2>3, <2>4 DEF MonitorTyped
  <2>6. FramesFollow'
    BY <2>2 DEF FramesFollow, Follows
  <2>7. CheckpointsNumbered'
    <3>1. SUFFICES ASSUME active PROVE CheckpointsNumbered'
      BY <2>2 DEF CheckpointsNumbered
    <3>2. Answered' = Answered
      BY <2>2, <2>4 DEF Answered
    <3>3. job.task = task /\ job.action = Len(done)
      BY <2>2, <3>1 DEF CheckpointsNumbered
    <3>4. latest'.status # G!None => latest'.task = task
      BY <2>1, <3>1, <3>3 DEF CheckpointsNumbered, G!NoFeedback
    <3>5. \A i \in 1 .. Len(done') : done'[i].action = i - 1
      <4>1. \A i \in 1 .. Len(done) : done[i].action = i - 1
        BY <3>1 DEF CheckpointsNumbered
      <4>2. done'[Len(done) + 1].action = Len(done) + 1 - 1
        BY <2>4, <3>3
      <4>3. QED
        BY <2>4, <4>1, <4>2
    <3>6. QED
      BY <2>2, <3>1, <3>2, <3>4, <3>5 DEF CheckpointsNumbered
  <2>8. ScoresCompared'
    <3>1. SUFFICES ASSUME active PROVE ScoresCompared'
      BY <2>2 DEF ScoresCompared
    <3>2. /\ done'[Len(done) + 1].score = G!NoScore /\ previous' = previous
          /\ \A i \in 1 .. Len(done) : done'[i].score = done[i].score
      BY <2>1, <2>4 DEF p
    <3>3. ASSUME NEW i \in 1 .. Len(done), G!IsLastScored(i, Len(done))
          PROVE  G!IsLastScored(i, Len(done))'
      BY <2>4, <3>2, <3>3 DEF G!IsLastScored, G!IsScored
    <3>4. previous = G!NoScore => \A i \in 1 .. Len(done') : done'[i].score = G!NoScore
      BY <2>4, <3>1, <3>2 DEF ScoresCompared, G!IsScored
    <3>5. previous # G!NoScore =>
            \E i \in 1 .. Len(done') : G!IsLastScored(i, Len(done))' /\ done'[i].score = previous
      BY <2>4, <3>1, <3>2, <3>3 DEF ScoresCompared
    <3>6. latest'.status # "completed"
      BY <2>1 DEF G!NoFeedback
    <3>7. QED
      BY <3>2, <3>4, <3>5, <3>6 DEF ScoresCompared, G!IsScored
  <2>9. QED
    BY <2>5, <2>6, <2>7, <2>8
<1>11. CASE G!ScorerDies
  <2> DEFINE p == G!NoScore
  <2>1. UNCHANGED <<latest, baseline, previous>> /\ G!Answers(p)
    BY <1>11 DEF G!ScorerDies
  <2>2. /\ scorer \in {"wait", "score"} /\ scorer' = "dead" /\ job' = G!NoJob
        /\ UNCHANGED <<task, deeds, acting, active, sequence, ring, sampler, actions, queue>>
    BY <1>11 DEF G!ScorerDies
  <2>3. p \in Int /\ (p = G!NoScore \/ p \in Scores)
    BY FeedbackAssumption DEF G!NoScore
  <2>4. /\ done' \in Seq(Answer) /\ Len(done') = Len(done) + 1 /\ Len(done) \in Nat
        /\ done'[Len(done) + 1] = [action |-> job.action, score |-> p]
        /\ \A i \in 1 .. Len(done) : done'[i] = done[i]
    BY <2>1, <2>2, <2>3, AnswerGiven, MonitorNumbers
  <2> \A i \in 1 .. Len(done') : i \in 1 .. Len(done) \/ i = Len(done) + 1
    BY <2>4
  <2> HIDE DEF p
  <2>5. MonitorTyped'
    BY <2>1, <2>2, <2>3, <2>4 DEF MonitorTyped
  <2>6. FramesFollow'
    BY <2>2 DEF FramesFollow, Follows
  <2>7. CheckpointsNumbered'
    <3>1. SUFFICES ASSUME active PROVE CheckpointsNumbered'
      BY <2>2 DEF CheckpointsNumbered
    <3>2. Answered' = Answered
      BY <2>2, <2>4 DEF Answered
    <3>3. job.task = task /\ job.action = Len(done)
      BY <2>2, <3>1 DEF CheckpointsNumbered
    <3>4. latest'.status # G!None => latest'.task = task
      BY <2>1, <3>1, <3>3 DEF CheckpointsNumbered, G!NoFeedback
    <3>5. \A i \in 1 .. Len(done') : done'[i].action = i - 1
      <4>1. \A i \in 1 .. Len(done) : done[i].action = i - 1
        BY <3>1 DEF CheckpointsNumbered
      <4>2. done'[Len(done) + 1].action = Len(done) + 1 - 1
        BY <2>4, <3>3
      <4>3. QED
        BY <2>4, <4>1, <4>2
    <3>6. QED
      BY <2>2, <3>1, <3>2, <3>4, <3>5 DEF CheckpointsNumbered
  <2>8. ScoresCompared'
    <3>1. SUFFICES ASSUME active PROVE ScoresCompared'
      BY <2>2 DEF ScoresCompared
    <3>2. /\ done'[Len(done) + 1].score = G!NoScore /\ previous' = previous
          /\ \A i \in 1 .. Len(done) : done'[i].score = done[i].score
      BY <2>1, <2>4 DEF p
    <3>3. ASSUME NEW i \in 1 .. Len(done), G!IsLastScored(i, Len(done))
          PROVE  G!IsLastScored(i, Len(done))'
      BY <2>4, <3>2, <3>3 DEF G!IsLastScored, G!IsScored
    <3>4. previous = G!NoScore => \A i \in 1 .. Len(done') : done'[i].score = G!NoScore
      BY <2>4, <3>1, <3>2 DEF ScoresCompared, G!IsScored
    <3>5. previous # G!NoScore =>
            \E i \in 1 .. Len(done') : G!IsLastScored(i, Len(done))' /\ done'[i].score = previous
      BY <2>4, <3>1, <3>2, <3>3 DEF ScoresCompared
    <3>6. latest'.status = "completed" =>
            \E n \in 1 .. Len(done') : G!IsLastScored(n, Len(done))' /\ G!Compares(n)'
      <4>1. SUFFICES ASSUME latest.status = "completed"
                     PROVE  \E n \in 1 .. Len(done') : G!IsLastScored(n, Len(done))' /\ G!Compares(n)'
        BY <2>1
      <4>2. PICK n \in 1 .. Len(done) : G!IsLastScored(n, Len(done)) /\ G!Compares(n)
        BY <3>1, <4>1 DEF ScoresCompared
      <4>3. latest' = latest /\ n \in 1 .. Len(done') /\ n - 1 \in Nat
            /\ \A i \in 1 .. n : done'[i].score = done[i].score
        BY <2>1, <2>4, <3>2
      <4>4. G!Compares(n)'
        <5>1. n \in Nat /\ done'[n].score = done[n].score
              /\ \A m \in 1 .. n - 1 : done'[m].score = done[m].score
          <6>1. n \in Nat /\ n >= 1 /\ \A m \in 1 .. n - 1 : m \in 1 .. n
            OBVIOUS
          <6>2. QED
            BY <4>3, <6>1
        <5>2. \A i \in 1 .. n - 1 : /\ G!IsScored(i)' => G!IsScored(i)
                                    /\ G!IsScored(i) => G!IsScored(i)'
          BY <5>1 DEF G!IsScored
        <5>3. ASSUME NEW m \in 1 .. n - 1, G!IsLastScored(m, n - 1)'
              PROVE  G!IsLastScored(m, n - 1)
          BY <5>1, <5>2, <5>3 DEF G!IsLastScored
        <5>4. QED
          BY <4>2, <4>3, <5>1, <5>2, <5>3 DEF G!Compares
      <4>5. QED
        BY <3>3, <4>2, <4>3, <4>4
    <3>7. QED
      BY <3>2, <3>4, <3>5, <3>6 DEF ScoresCompared, G!IsScored
  <2>9. QED
    BY <2>5, <2>6, <2>7, <2>8
<1>12. CASE UNCHANGED G!vars
  <2>1. MonitorTyped' /\ FramesFollow' /\ CheckpointsNumbered'
    BY <1>12 DEF G!vars, MonitorTyped, FramesFollow, Follows, CheckpointsNumbered, Answered
  <2>2. ScoresCompared'
    BY <1>12 DEF G!vars, ScoresCompared, G!IsLastScored, G!IsScored, G!Compares
  <2>3. QED
    BY <2>1, <2>2
<1>13. QED
  BY ResetFeedback, <1>1, <1>2, <1>3, <1>4, <1>5, <1>6, <1>7, <1>8, <1>9, <1>10, <1>11, <1>12 DEF
     G!Next


Switches == active \in BOOLEAN /\ acting \in BOOLEAN

LEMMA MonitorSwitches == Switches /\ [G!Next]_(G!vars) => Switches'
<1> SUFFICES ASSUME Switches, [G!Next]_(G!vars) PROVE Switches'
  OBVIOUS
<1> USE DEF Switches
<1>1. CASE G!Reset
  BY <1>1 DEF G!Reset, G!Start, G!Stop
<1>2. CASE G!Close
  BY <1>2 DEF G!Close, G!Stop
<1>3. CASE G!Act \/ G!Return
  BY <1>3 DEF G!Act, G!Return, G!monitor
<1>4. CASE G!BeginCapture \/ G!Captured \/ G!FrameRead \/ G!CaptureFails
  BY <1>4 DEF G!BeginCapture, G!Captured, G!FrameRead, G!CaptureFails
<1>5. CASE G!TakeJob \/ G!TakeWindow \/ G!Score \/ G!JobFails \/ G!ScorerDies
  BY <1>5 DEF G!TakeJob, G!TakeWindow, G!Score, G!JobFails, G!ScorerDies
<1>6. CASE UNCHANGED G!vars
  BY <1>6 DEF G!vars
<1>7. QED
  BY <1>1, <1>2, <1>3, <1>4, <1>5, <1>6 DEF G!Next

(* A window ends with what the action left behind when two frames have to  *)
(* follow it; with fewer, the frame that was being captured is enough.     *)
THEOREM FeedbackServes ==
  G!Spec => [](G!TypeOK /\ G!FeedbackIsOfTheTask /\ (Post >= 2 => G!WindowShowsTheAction))
<1>1. FeedbackInv => G!FeedbackIsOfTheTask
  <2>1. SUFFICES ASSUME FeedbackInv, active PROVE G!FeedbackIsOfTheTask
    BY DEF G!FeedbackIsOfTheTask
  <2>2. actions = Answered + Len(queue) /\ Len(done) \in Nat /\ Len(queue) \in Nat
    BY <2>1, MonitorNumbers DEF FeedbackInv, CheckpointsNumbered
  <2>3. scorer # "dead" => G!Pending = actions - Len(done)
    <3>1. CASE scorer \in {"wait", "score"}
      <4>1. job # G!NoJob
        BY <2>1, <2>2, <3>1 DEF FeedbackInv, CheckpointsNumbered, G!NoJob
      <4>2. QED
        BY <2>2, <3>1, <4>1 DEF Answered, G!Pending
    <3>2. CASE scorer \notin {"wait", "score"}
      <4>1. job = G!NoJob
        BY <2>1, <3>2 DEF FeedbackInv, MonitorTyped
      <4>2. QED
        BY <2>2, <3>2, <4>1 DEF Answered, G!Pending
    <3>3. QED
      BY <3>1, <3>2
  <2>4. DOMAIN done = 1 .. Len(done)
    BY <2>1 DEF FeedbackInv, MonitorTyped
  <2>5. QED
    BY <2>1, <2>3, <2>4 DEF FeedbackInv, CheckpointsNumbered, ScoresCompared, G!FeedbackIsOfTheTask
<1>2. FeedbackInv => (Post >= 2 => G!WindowShowsTheAction)
  BY DEF FeedbackInv, MonitorTyped, FramesFollow, G!WindowShowsTheAction
<1>3. FeedbackInv /\ Switches => G!TypeOK
  BY DEF FeedbackInv, MonitorTyped, Switches, G!TypeOK
<1>4. G!Init => Switches
  BY DEF G!Init, Switches
<1>5. QED
  BY InitFeedback, StepFeedback, MonitorSwitches, <1>1, <1>2, <1>3, <1>4, PTL DEF G!Spec
-----------------------------------------------------------------------------
CONSTANTS
  \* TaskEvidence
  Items, Mobs, Initial, EvidenceTasks, Rows, MaxSteps, MaxCount, MaxEvents
VARIABLES
  step, deciding, inventory, alive, attacked, late, dead, killCount, fought, ended, first,
  observation, told, verdict

N == INSTANCE TaskEvidence WITH
  Tasks <- EvidenceTasks

(* Bounds are naturals; there are items and finitely many of them and of   *)
(* mobs; a task counts in naturals, and its checks of an inventory name an *)
(* item.                                                                   *)
ASSUME EvidenceAssumption ==
  /\ IsFiniteSet(Mobs) /\ IsFiniteSet(Items) /\ Items # {}
  /\ {Rows, MaxSteps, MaxCount, MaxEvents} \subseteq Nat
  /\ Initial \subseteq [Items -> 0 .. MaxCount]
  /\ \A t \in EvidenceTasks :
       /\ IsFiniteSet(N!Collected(t))
       /\ \A c \in N!Collected(t) :
            c.count \in Nat /\ (c.type = "inventory_contains" => c.subject \in Items)

(* What the model is told and what the verifier accepts. Whatever happens  *)
(* between an observation and an action only adds: items are picked up,    *)
(* deaths are counted.                                                     *)

Inventories == [Items -> Nat]
Observations == [inventory : Inventories, kills : Nat]

EvidenceTyped ==
  N!TypeOK /\ first \in Observations /\ observation \in Observations /\ ended \in Inventories

(* A kill is one entity that was fought and is dead.                       *)
KillsCounted ==
  /\ killCount = Cardinality(dead) /\ killCount <= events
  /\ dead \cap alive = {} /\ dead \subseteq fought /\ attacked \subseteq fought /\ fought \subseteq Mobs

(* A decision is made in sight of an observation, which the present state  *)
(* has at least; what was told is of that observation.                     *)
DecisionSeen ==
  /\ deciding => /\ step < MaxSteps /\ observation.kills <= killCount
                 /\ \A i \in Items : observation.inventory[i] <= inventory[i]
  /\ told # N!NoTold => /\ deciding
                        /\ told.status = N!Status(task, observation.inventory)
                        /\ told.rows \in N!Shown(task, observation.inventory)
                        /\ told.evidence = N!Evidence(result, observation)

(* Results that quote an inventory quote the one at the end of the action. *)
ResultKnown ==
  /\ result.type = "wait_ticks" => result.observation # <<>> /\ result.observation.inventory = ended
  /\ result.type = "query_inventory" => result.inventory # <<>> /\ result.inventory = ended

EvidenceInv == EvidenceTyped /\ KillsCounted /\ DecisionSeen /\ ResultKnown /\ N!AcceptedIsThere

LEMMA InitEvidence == N!Init => EvidenceInv
<1> SUFFICES ASSUME N!Init PROVE EvidenceInv
  OBVIOUS
<1>1. EvidenceTyped
  BY EvidenceAssumption DEF N!Init, EvidenceTyped, N!TypeOK, N!Counts, N!NoObservation,
     Observations, Inventories
<1>2. KillsCounted
  BY FS_EmptySet DEF N!Init, KillsCounted
<1>3. DecisionSeen /\ ResultKnown
  BY DEF N!Init, DecisionSeen, ResultKnown, N!NoResult, N!None
<1>4. N!AcceptedIsThere
  BY DEF N!Init, N!AcceptedIsThere
<1>5. QED
  BY <1>1, <1>2, <1>3, <1>4 DEF EvidenceInv

(* More items and more kills never turn an accepted run into a rejected    *)
(* one.                                                                    *)
LEMMA AcceptsMore ==
  ASSUME NEW t \in EvidenceTasks, first \in Observations,
         NEW inv \in Inventories, NEW more \in Inventories, \A i \in Items : inv[i] <= more[i],
         NEW now, NEW later, now.kills \in Nat, later.kills \in Nat, now.kills <= later.kills,
         N!Accepts(t, inv, now)
  PROVE  N!Accepts(t, more, later)
<1>1. N!Verifier(t).checks \subseteq N!Collected(t)
  BY DEF N!Verifier, N!Collected
<1>2. ASSUME NEW c \in N!Verifier(t).checks, N!Holds(t, c, inv, now)
      PROVE  N!Holds(t, c, more, later)
  <2>1. c.count \in Nat /\ (c.type = "inventory_contains" => c.subject \in Items)
    BY <1>1, EvidenceAssumption
  <2>2. CASE c.type = "inventory_contains"
    <3>1. inv[c.subject] \in Nat /\ more[c.subject] \in Nat /\ first.inventory[c.subject] \in Nat
          /\ inv[c.subject] <= more[c.subject]
      BY <2>1, <2>2 DEF Observations, Inventories
    <3>2. N!HasItems(t, c, inv)
      BY <1>2, <2>2 DEF N!Holds
    <3>3. N!HasItems(t, c, more)
      BY <2>1, <3>1, <3>2 DEF N!HasItems
    <3>4. QED
      BY <2>2, <3>3 DEF N!Holds
  <2>3. CASE c.type = "entity_kill_delta"
    <3>1. first.kills \in Nat
      BY DEF Observations
    <3>2. N!KillDelta(c, now)
      BY <1>2, <2>3 DEF N!Holds
    <3>3. N!KillDelta(c, later)
      BY <2>1, <3>1, <3>2 DEF N!KillDelta
    <3>4. QED
      BY <2>3, <3>3 DEF N!Holds
  <2>4. QED
    BY <1>2, <2>2, <2>3 DEF N!Holds
<1>3. QED
  BY <1>2 DEF N!Accepts

(* The environment.                                                        *)
LEMMA HappensEvidence ==
  ASSUME EvidenceInv, N!PickUp \/ N!Age \/ N!EntityDead \/ N!EntityGone
  PROVE  EvidenceInv'
<1> USE EvidenceAssumption DEF EvidenceInv
<1>1. /\ events' = events + 1 /\ events < MaxEvents
      /\ UNCHANGED <<task, step, deciding, fought, ended, first, observation, result, told, verdict>>
  BY DEF N!PickUp, N!Age, N!EntityDead, N!EntityGone, N!Happens
<1>2. /\ inventory' \in N!Counts /\ \A i \in Items : inventory[i] <= inventory'[i]
  <2>1. inventory \in [Items -> 0 .. MaxCount] /\ MaxCount \in Nat
    BY DEF EvidenceTyped, N!TypeOK, N!Counts
  <2>2. CASE inventory' = inventory
    BY <2>1, <2>2 DEF N!Counts
  <2>3. ASSUME NEW item \in Items, inventory[item] < MaxCount,
               inventory' = [inventory EXCEPT ![item] = @ + 1]
        PROVE  inventory' \in N!Counts /\ \A i \in Items : inventory[i] <= inventory'[i]
    BY <2>1, <2>3 DEF N!Counts
  <2>4. QED
    BY <2>2, <2>3 DEF N!PickUp, N!Age, N!EntityDead, N!EntityGone
<1>3. /\ alive' \subseteq alive /\ attacked' \subseteq attacked /\ late' \subseteq attacked'
      /\ \/ dead' = dead /\ killCount' = killCount
         \/ \E m \in attacked : m \notin dead /\ m \notin alive' /\ dead' = dead \cup {m}
                                /\ killCount' = killCount + 1
  <2>0. late \subseteq attacked
    BY DEF EvidenceTyped, N!TypeOK
  <2>1. CASE N!PickUp
    BY <2>0, <2>1 DEF N!PickUp
  <2>2. CASE N!Age
    BY <2>0, <2>2 DEF N!Age
  <2>3. CASE N!EntityDead
    BY <2>0, <2>3 DEF N!EntityDead, N!Confirms
  <2>4. CASE N!EntityGone
    BY <2>0, <2>4 DEF N!EntityGone
  <2>5. QED
    BY <2>1, <2>2, <2>3, <2>4
<1>4. /\ IsFiniteSet(dead) /\ killCount \in Nat
  <2>1. IsFiniteSet(dead)
    BY FS_Subset DEF EvidenceTyped, N!TypeOK
  <2>2. QED
    BY <2>1, FS_CardinalityType DEF KillsCounted
<1>5. KillsCounted' /\ killCount' \in Nat /\ killCount <= killCount'
  <2>1. killCount' = Cardinality(dead') /\ killCount' <= killCount + 1 /\ killCount <= killCount'
    BY <1>3, <1>4, FS_AddElement DEF KillsCounted
  <2>2. QED
    BY <1>1, <1>3, <1>4, <2>1 DEF KillsCounted, EvidenceTyped, N!TypeOK
<1>6. EvidenceTyped'
  <2>1. killCount' \in 0 .. MaxEvents /\ events' \in 0 .. MaxEvents
    BY <1>1, <1>5 DEF KillsCounted, EvidenceTyped, N!TypeOK
  <2>2. dead' \subseteq Mobs /\ alive' \subseteq Mobs /\ attacked' \subseteq Mobs
    BY <1>3, <1>5 DEF KillsCounted, EvidenceTyped, N!TypeOK
  <2>3. QED
    BY <1>1, <1>2, <1>3, <2>1, <2>2 DEF EvidenceTyped, N!TypeOK
<1>7. DecisionSeen'
  <2>1. \A i \in Items : observation.inventory[i] \in Nat /\ inventory[i] \in Nat
                         /\ inventory'[i] \in Nat
    BY <1>2 DEF EvidenceTyped, Observations, Inventories, N!TypeOK, N!Counts
  <2>2. deciding => \A i \in Items : observation.inventory[i] <= inventory'[i]
    BY <1>2, <2>1 DEF DecisionSeen
  <2>3. deciding => observation.kills <= killCount'
    BY <1>4, <1>5 DEF DecisionSeen, EvidenceTyped, Observations
  <2>4. QED
    BY <1>1, <2>2, <2>3 DEF DecisionSeen, N!Status, N!Gained, N!Shown
<1>8. ResultKnown'
  BY <1>1 DEF ResultKnown
<1>9. N!AcceptedIsThere'
  <2>1. SUFFICES ASSUME verdict, ~deciding
                 PROVE  N!Accepts(task, ended, [kills |-> killCount'])
    BY <1>1 DEF N!AcceptedIsThere, N!Accepts, N!Holds, N!HasItems, N!KillDelta
  <2>2. N!Accepts(task, ended, [kills |-> killCount])
    BY <2>1 DEF N!AcceptedIsThere
  <2>3. task \in EvidenceTasks /\ \A i \in Items : ended[i] <= ended[i]
    BY DEF EvidenceTyped, N!TypeOK, Inventories
  <2>4. QED
    BY <1>4, <1>5, <2>2, <2>3, AcceptsMore DEF EvidenceTyped
<1>10. QED
  BY <1>5, <1>6, <1>7, <1>8, <1>9

(* An observation, and what is told of it.                                 *)
LEMMA ObserveEvidence == ASSUME EvidenceInv, N!Observe PROVE EvidenceInv'
<1> USE EvidenceAssumption DEF EvidenceInv
<1>1. N!Observed \in Observations
  <2>1. inventory \in Inventories
    BY DEF EvidenceTyped, N!TypeOK, N!Counts, Inventories
  <2>2. killCount \in Nat
    BY DEF EvidenceTyped, N!TypeOK
  <2>3. QED
    BY <2>1, <2>2 DEF N!Observed, Observations
<1>2. EvidenceTyped'
  BY <1>1 DEF N!Observe, N!World, EvidenceTyped, N!TypeOK
<1>3. KillsCounted' /\ ResultKnown'
  BY DEF N!Observe, N!World, KillsCounted, ResultKnown
<1>4. told = N!NoTold
  BY DEF N!Observe, DecisionSeen
<1>5. DecisionSeen'
  <2>1. \A i \in Items : inventory[i] \in Nat
    BY DEF EvidenceTyped, N!TypeOK, N!Counts
  <2>2. killCount \in Nat /\ step \in Nat
    BY DEF EvidenceTyped, N!TypeOK
  <2>3. told' = N!NoTold /\ step' = step /\ step < MaxSteps
    BY <1>4 DEF N!Observe
  <2>4. observation'.kills = killCount' /\ \A i \in Items : observation'.inventory[i] = inventory'[i]
    BY DEF N!Observe, N!Observed, N!World
  <2>5. QED
    BY <2>1, <2>2, <2>3, <2>4 DEF N!Observe, N!World, DecisionSeen, N!NoTold
<1>6. N!AcceptedIsThere'
  BY DEF N!Observe, N!AcceptedIsThere
<1>7. QED
  BY <1>2, <1>3, <1>5, <1>6

LEMMA TellEvidence == ASSUME EvidenceInv, N!Tell PROVE EvidenceInv'
<1> USE DEF EvidenceInv
<1>1. EvidenceTyped' /\ KillsCounted' /\ ResultKnown'
  BY DEF N!Tell, N!World, EvidenceTyped, N!TypeOK, KillsCounted, ResultKnown
<1>2. DecisionSeen'
  BY DEF N!Tell, N!World, DecisionSeen, N!Status, N!Gained, N!Shown
<1>3. N!AcceptedIsThere'
  BY DEF N!Tell, N!AcceptedIsThere
<1>4. QED
  BY <1>1, <1>2, <1>3

(* The end of an action: its result has the inventory and the kills that   *)
(* are there when it ends, or what the decision was made on.               *)
LEMMA ReturnEvidence ==
  ASSUME EvidenceInv, NEW r, N!Returns(r), inventory' \in N!Counts,
         attacked' \subseteq fought', late \subseteq attacked', fought' \subseteq Mobs,
         fought \subseteq fought',
         \/ r.observation = <<>> /\ r.inventory = <<>> /\ inventory' = inventory
         \/ /\ r.observation = [inventory |-> inventory', kills |-> killCount]
            /\ r.inventory = <<>> \/ r.inventory = inventory',
         r.type = "wait_ticks" => r.observation # <<>>,
         r.type = "query_inventory" => r.inventory # <<>>
  PROVE  EvidenceInv'
<1> USE EvidenceAssumption DEF EvidenceInv
<1>1. /\ UNCHANGED <<task, events, alive, late, dead, killCount, first, observation>>
      /\ deciding /\ ~deciding' /\ step' = step + 1 /\ told' = N!NoTold /\ result' = r
      /\ ended' = inventory' /\ verdict' = N!Accepts(task, N!LatestInventory(r), N!Latest(r))
  BY DEF N!Returns
<1>2. inventory' \in Inventories /\ inventory \in Inventories /\ killCount \in Nat
  BY DEF EvidenceTyped, N!TypeOK, N!Counts, Inventories
<1>3. EvidenceTyped'
  <2>1. step' \in 0 .. MaxSteps
    BY <1>1 DEF EvidenceTyped, N!TypeOK, DecisionSeen
  <2>2. QED
    BY <1>1, <1>2, <2>1 DEF EvidenceTyped, N!TypeOK
<1>4. KillsCounted'
  BY <1>1 DEF KillsCounted
<1>5. DecisionSeen'
  BY <1>1 DEF DecisionSeen, N!NoTold
<1>6. ResultKnown'
  <2>1. result' = r /\ ended' = inventory'
    BY <1>1
  <2>2. r.type = "wait_ticks" => r.observation.inventory = inventory'
    OBVIOUS
  <2>3. r.type = "query_inventory" => r.inventory = inventory'
    OBVIOUS
  <2>4. QED
    BY <2>1, <2>2, <2>3 DEF ResultKnown
<1>7. N!AcceptedIsThere'
  <2>1. SUFFICES ASSUME N!Accepts(task, N!LatestInventory(r), N!Latest(r))
                 PROVE  N!Accepts(task, inventory', [kills |-> killCount])
    BY <1>1 DEF N!AcceptedIsThere, N!Accepts, N!Holds, N!HasItems, N!KillDelta
  <2>2. /\ N!LatestInventory(r) \in Inventories
        /\ \A i \in Items : N!LatestInventory(r)[i] <= inventory'[i]
        /\ N!Latest(r).kills \in Nat /\ N!Latest(r).kills <= killCount
    <3>1. CASE r.observation = <<>> /\ r.inventory = <<>> /\ inventory' = inventory
      <4>1. N!Latest(r) = observation /\ N!LatestInventory(r) = observation.inventory
        BY <3>1 DEF N!Latest, N!LatestInventory, N!Nothing
      <4>2. QED
        BY <1>1, <3>1, <4>1 DEF DecisionSeen, EvidenceTyped, Observations
    <3>2. CASE /\ r.observation = [inventory |-> inventory', kills |-> killCount]
               /\ r.inventory = <<>> \/ r.inventory = inventory'
      <4>1. r.observation # <<>>
        BY <3>2
      <4>2. N!Latest(r) = r.observation /\ N!LatestInventory(r) = inventory'
        BY <3>2, <4>1 DEF N!Latest, N!LatestInventory, N!Nothing
      <4>3. \A i \in Items : inventory'[i] <= inventory'[i]
        BY <1>2 DEF Inventories
      <4>4. QED
        BY <1>2, <3>2, <4>2, <4>3
    <3>3. QED
      BY <3>1, <3>2
  <2>3. task \in EvidenceTasks /\ first \in Observations
    BY DEF EvidenceTyped, N!TypeOK
  <2>4. QED
    BY <1>2, <2>1, <2>2, <2>3, AcceptsMore
<1>8. QED
  BY <1>3, <1>4, <1>5, <1>6, <1>7

(* The actions: what their results quote.                                  *)
LEMMA ActEvidence ==
  ASSUME EvidenceInv,
         \/ N!Search \/ N!Query \/ N!Consult \/ N!Submit \/ N!Snapshot \/ N!Fail \/ N!Change
         \/ N!Attack
  PROVE  EvidenceInv'
<1> USE EvidenceAssumption
<1> DEFINE End == [inventory |-> inventory', kills |-> killCount]
           Known(r) == /\ r.inventory = <<>>
                       /\ r.type = "wait_ticks" => r.observation # <<>>
                       /\ r.type # "query_inventory"
<1>1. ASSUME NEW type, NEW ok
      PROVE  /\ N!Result(type, ok).type = type /\ N!Result(type, ok).inventory = <<>>
             /\ N!Result(type, ok).observation = <<>>
             /\ DOMAIN N!Result(type, ok) = DOMAIN N!NoResult
  BY DEF N!Result, N!NoResult, N!Nothing
<1>2. ASSUME NEW r, DOMAIN r = DOMAIN N!NoResult
      PROVE  /\ N!Seen(r).observation = End /\ N!Seen(r).type = r.type
             /\ N!Seen(r).inventory = r.inventory
  BY <1>2 DEF N!Seen, N!NoResult
<1>3. End # <<>>
  OBVIOUS
<1>4. inventory \in N!Counts /\ attacked \subseteq fought /\ late \subseteq attacked
      /\ fought \subseteq Mobs /\ inventory # <<>>
  BY DEF EvidenceInv, EvidenceTyped, N!TypeOK, KillsCounted, N!Counts
<1>5. ASSUME N!ChangesNothing
      PROVE  inventory' \in N!Counts /\ attacked' \subseteq fought' /\ late \subseteq attacked'
             /\ fought' \subseteq Mobs /\ fought \subseteq fought' /\ inventory' = inventory
  BY <1>4, <1>5 DEF N!ChangesNothing
<1>6. CASE N!Search
  <2>1. PICK type \in N!Searches, found \in {"reachable", "unreachable", N!None} :
          N!ChangesNothing /\ N!Returns(N!Seen([N!Result(type, TRUE) EXCEPT !.found = found]))
    BY <1>6 DEF N!Search
  <2> DEFINE r == [N!Result(type, TRUE) EXCEPT !.found = found]
  <2>2. r.type = type /\ r.inventory = <<>> /\ DOMAIN r = DOMAIN N!NoResult
    BY DEF N!Result, N!NoResult, N!Nothing
  <2>3. type # "wait_ticks" /\ type # "query_inventory"
    BY DEF N!Searches
  <2> HIDE DEF r
  <2>4. QED
    BY <1>2, <1>3, <1>5, <2>1, <2>2, <2>3, ReturnEvidence DEF r
<1>7. CASE N!Query
  <2> DEFINE r == [N!Result("query_inventory", TRUE) EXCEPT !.inventory = inventory]
  <2>1. N!ChangesNothing /\ N!Returns(N!Seen(r))
    BY <1>7 DEF N!Query
  <2>2. r.type = "query_inventory" /\ r.inventory = inventory /\ DOMAIN r = DOMAIN N!NoResult
    BY DEF N!Result, N!NoResult, N!Nothing
  <2> HIDE DEF r
  <2>3. QED
    BY <1>2, <1>3, <1>4, <1>5, <2>1, <2>2, ReturnEvidence
<1>8. CASE N!Consult
  <2>1. PICK type \in {"get_recipe", "retrieve_docs"}, found \in {"known", N!None} :
          N!ChangesNothing /\ N!Returns([N!Result(type, TRUE) EXCEPT !.found = found])
    BY <1>8 DEF N!Consult
  <2> DEFINE r == [N!Result(type, TRUE) EXCEPT !.found = found]
  <2>2. r.type = type /\ r.inventory = <<>> /\ r.observation = <<>>
    BY DEF N!Result, N!NoResult, N!Nothing
  <2>3. N!Returns(r)
    BY <2>1
  <2> HIDE DEF r
  <2>4. QED
    BY <1>5, <2>1, <2>2, <2>3, ReturnEvidence
<1>9. CASE N!Submit
  <2>1. PICK accepted \in BOOLEAN :
          N!ChangesNothing /\ N!Returns([N!Result("submit_for_evaluation", TRUE) EXCEPT !.accepted = accepted])
    BY <1>9 DEF N!Submit
  <2> DEFINE r == [N!Result("submit_for_evaluation", TRUE) EXCEPT !.accepted = accepted]
  <2>2. r.type = "submit_for_evaluation" /\ r.inventory = <<>> /\ r.observation = <<>>
    BY DEF N!Result, N!NoResult, N!Nothing
  <2>3. N!Returns(r)
    BY <2>1
  <2> HIDE DEF r
  <2>4. QED
    BY <1>5, <2>1, <2>2, <2>3, ReturnEvidence
<1>10. CASE N!Snapshot
  <2>1. PICK image \in BOOLEAN :
          N!ChangesNothing /\ N!Returns(N!Seen([N!Result("request_visual_snapshot", TRUE) EXCEPT !.image = image]))
    BY <1>10 DEF N!Snapshot
  <2> DEFINE r == [N!Result("request_visual_snapshot", TRUE) EXCEPT !.image = image]
  <2>2. r.type = "request_visual_snapshot" /\ r.inventory = <<>> /\ DOMAIN r = DOMAIN N!NoResult
    BY DEF N!Result, N!NoResult, N!Nothing
  <2>3. N!Returns(N!Seen(r))
    BY <2>1
  <2> HIDE DEF r
  <2>4. QED
    BY <1>2, <1>3, <1>5, <2>1, <2>2, <2>3, ReturnEvidence
<1>11. CASE N!Fail
  <2>1. PICK type \in {"place_block", "execute_skill", "move_to"}, code \in {"error", "no_support_block"} :
          N!ChangesNothing /\ N!Returns(N!Seen([N!Result(type, FALSE) EXCEPT !.code = code]))
    BY <1>11 DEF N!Fail
  <2> DEFINE r == [N!Result(type, FALSE) EXCEPT !.code = code]
  <2>2. r.type = type /\ r.inventory = <<>> /\ DOMAIN r = DOMAIN N!NoResult
    BY DEF N!Result, N!NoResult, N!Nothing
  <2>3. N!Returns(N!Seen(r))
    BY <2>1
  <2> HIDE DEF r
  <2>4. QED
    BY <1>2, <1>3, <1>5, <2>1, <2>2, <2>3, ReturnEvidence
<1>12. CASE N!Change
  <2>1. PICK item \in Items, n \in {-1, 1} :
          /\ inventory[item] + n \in 0 .. MaxCount
          /\ inventory' = [inventory EXCEPT ![item] = @ + n]
          /\ \E type \in IF n = 1 THEN {"dig_block_at", "craft_item", "wait_ticks"}
                         ELSE {"consume_item", "move_to"} :
               N!Returns(N!Seen([N!Result(type, TRUE) EXCEPT !.delta = N!Delta(item, n)]))
          /\ UNCHANGED <<attacked, fought>>
    BY <1>12 DEF N!Change
  <2>2. PICK type \in {"dig_block_at", "craft_item", "wait_ticks", "consume_item", "move_to"} :
          N!Returns(N!Seen([N!Result(type, TRUE) EXCEPT !.delta = N!Delta(item, n)]))
    BY <2>1
  <2> DEFINE r == [N!Result(type, TRUE) EXCEPT !.delta = N!Delta(item, n)]
  <2>3. r.type = type /\ r.inventory = <<>> /\ DOMAIN r = DOMAIN N!NoResult
    BY DEF N!Result, N!NoResult, N!Nothing
  <2>4. inventory' \in N!Counts
    BY <1>4, <2>1 DEF N!Counts
  <2> HIDE DEF r
  <2>5. N!Returns(N!Seen(r))
    BY <2>2 DEF r
  <2>6. QED
    BY <1>2, <1>3, <1>4, <2>1, <2>3, <2>4, <2>5, ReturnEvidence
<1>13. CASE N!Attack
  <2>1. PICK m \in Mobs \ late :
          /\ attacked' = attacked \cup {m} /\ fought' = fought \cup {m}
          /\ UNCHANGED inventory /\ N!Returns(N!Seen(N!Result("engage_combat", TRUE)))
    BY <1>13 DEF N!Attack
  <2>2. N!Result("engage_combat", TRUE).type = "engage_combat"
        /\ N!Result("engage_combat", TRUE).inventory = <<>>
        /\ DOMAIN N!Result("engage_combat", TRUE) = DOMAIN N!NoResult
    BY <1>1
  <2>3. QED
    BY <1>2, <1>3, <1>4, <2>1, <2>2, ReturnEvidence
<1>14. QED
  BY <1>6, <1>7, <1>8, <1>9, <1>10, <1>11, <1>12, <1>13

LEMMA StepEvidence == EvidenceInv /\ [N!Next]_(N!vars) => EvidenceInv'
<1> SUFFICES ASSUME EvidenceInv, [N!Next]_(N!vars) PROVE EvidenceInv'
  OBVIOUS
<1>1. CASE UNCHANGED N!vars
  <2>1. EvidenceTyped' /\ KillsCounted' /\ ResultKnown'
    BY <1>1 DEF EvidenceInv, N!vars, EvidenceTyped, N!TypeOK, KillsCounted, ResultKnown
  <2>2. DecisionSeen'
    BY <1>1 DEF EvidenceInv, N!vars, DecisionSeen, N!Status, N!Gained, N!Shown
  <2>3. N!AcceptedIsThere'
    BY <1>1 DEF EvidenceInv, N!vars, N!AcceptedIsThere, N!Accepts, N!Holds, N!HasItems, N!KillDelta
  <2>4. QED
    BY <2>1, <2>2, <2>3 DEF EvidenceInv
<1>2. QED
  BY <1>1, HappensEvidence, ObserveEvidence, TellEvidence, ActEvidence DEF N!Next

(* A goal that counts as satisfied is one that the verifier accepts: the   *)
(* count that is wanted is the largest of the checks of an item, and what  *)
(* is gained since the first observation is no more than what is held.     *)
LEMMA SatisfiedIsAccepted ==
  ASSUME NEW t \in EvidenceTasks, first \in Observations, NEW now, now.inventory \in Inventories,
         N!Status(t, now.inventory) = "satisfied",
         \A c \in N!Collected(t) : c.type = "inventory_contains"
  PROVE  N!Accepts(t, now.inventory, now)
<1> DEFINE inv == now.inventory
<1>1. N!ItemChecks(t) = N!Collected(t)
  BY DEF N!ItemChecks
<1>2. N!Collected(t) # {} /\ \A i \in N!TargetItems(t) : N!Gained(t, i, inv) >= N!Wanted(t, i)
  BY <1>1 DEF N!Status
<1>3. N!Verifier(t).checks \subseteq N!Collected(t) /\ N!Verifier(t).checks # {}
  BY <1>2 DEF N!Verifier, N!Collected
<1>4. ASSUME NEW c \in N!Collected(t)
      PROVE  N!Holds(t, c, inv, now)
  <2> DEFINE counts == {d.count : d \in {e \in N!ItemChecks(t) : e.subject = c.subject}}
  <2>1. c.subject \in Items /\ c.count \in Nat /\ c.type = "inventory_contains"
    BY EvidenceAssumption
  <2>2. c.subject \in N!TargetItems(t)
    BY <1>1 DEF N!TargetItems
  <2>3. c.count \in counts /\ counts \subseteq Nat
    BY <1>1, EvidenceAssumption
  <2>4. IsFiniteSet(counts)
    <3>1. IsFiniteSet({e \in N!ItemChecks(t) : e.subject = c.subject})
      BY <1>1, EvidenceAssumption, FS_Subset
    <3> DEFINE of == {e \in N!ItemChecks(t) : e.subject = c.subject}
               f == [d \in of |-> d.count]
    <3>2. f \in Surjection(of, counts)
      BY DEF Surjection
    <3> HIDE DEF of, f, counts
    <3>3. QED
      BY <3>1, <3>2, FS_Surjection DEF of
  <2>5. PICK m \in counts : \A n \in counts : n <= m
    <3> HIDE DEF counts
    <3>1. QED
      BY <2>3, <2>4, NaturalsHaveMaximum
  <2>6. N!Wanted(t, c.subject) \in counts /\ c.count <= N!Wanted(t, c.subject)
    <3>1. N!Wanted(t, c.subject) = CHOOSE x \in counts : \A y \in counts : x >= y
      BY DEF N!Wanted, N!Max
    <3> HIDE DEF counts
    <3>2. m \in Nat /\ \A n \in counts : m >= n
      BY <2>3, <2>5
    <3>3. QED
      BY <2>3, <2>5, <3>1, <3>2
  <2>7. N!Wanted(t, c.subject) \in Nat
    BY <2>3, <2>6
  <2>8. N!Gained(t, c.subject, inv) >= N!Wanted(t, c.subject)
    BY <1>2, <2>2
  <2>9. inv[c.subject] \in Nat /\ first.inventory[c.subject] \in Nat
    BY <2>1 DEF Observations, Inventories
  <2>10. (t.require \/ c.delta) => N!RequiresDelta(t)
    BY DEF N!RequiresDelta
  <2> HIDE DEF counts
  <2>11. N!HasItems(t, c, inv)
    BY <2>1, <2>6, <2>7, <2>8, <2>9, <2>10 DEF N!Gained, N!HasItems
  <2>12. QED
    BY <2>1, <2>11 DEF N!Holds
<1>5. QED
  BY <1>3, <1>4 DEF N!Accepts

(* The cardinality of the instance is that of the theorems.                *)
LEMMA EvidenceCardinality == ASSUME NEW S PROVE N!Cardinality(S) = Cardinality(S)
  BY DEF N!Cardinality, Cardinality

LEMMA ProgressIsTold == EvidenceInv => N!ToldProgressIsTrue
<1> SUFFICES ASSUME EvidenceInv, told # N!NoTold PROVE N!ToldProgressIsTrue
  BY DEF N!ToldProgressIsTrue
<1>1. /\ told.status = N!Status(task, observation.inventory)
      /\ told.rows \in N!Shown(task, observation.inventory)
  BY DEF EvidenceInv, DecisionSeen
<1>2. task \in EvidenceTasks /\ first \in Observations /\ observation.inventory \in Inventories
  BY DEF EvidenceInv, EvidenceTyped, N!TypeOK, Observations
<1>3. (told.status = "satisfied" /\ \A c \in N!Collected(task) : c.type = "inventory_contains")
        => N!Accepts(task, observation.inventory, observation)
  BY <1>1, <1>2, SatisfiedIsAccepted
<1> DEFINE All == {i \in Items : observation.inventory[i] > 0}
           Held == All \cap N!TargetItems(task)
<1>4. Cardinality(Held) <= Rows => Held \subseteq told.rows
  <2>1. SUFFICES ASSUME Cardinality(Held) <= Rows, Held # {} PROVE Held \subseteq told.rows
    OBVIOUS
  <2>2. IsFiniteSet(Held) /\ Cardinality(Held) \in Nat
    BY EvidenceAssumption, FS_Subset, FS_CardinalityType
  <2>3. told.rows \in N!Some(Held, Rows)
    BY <1>1, <2>1 DEF N!Shown
  <2>4. told.rows \subseteq Held /\ Cardinality(told.rows) = Cardinality(Held)
    <3>1. /\ told.rows \subseteq Held
          /\ Cardinality(told.rows) = IF Rows < Cardinality(Held) THEN Rows ELSE Cardinality(Held)
      BY <2>3, EvidenceCardinality DEF N!Some
    <3> HIDE DEF Held
    <3>2. QED
      BY <2>1, <2>2, <3>1, EvidenceAssumption
  <2>5. QED
    BY <2>2, <2>4, FS_Subset
<1> HIDE DEF Held
<1>5. QED
  BY <1>3, <1>4, EvidenceCardinality DEF N!ToldProgressIsTrue, Held

(* What counts as done in an evidence was done, whatever the result; and   *)
(* only waiting and querying quote counts.                                 *)
LEMMA EvidenceOfResult ==
  ASSUME NEW r, NEW now
  PROVE  /\ N!Compressed(r, now).says = "done" =>
              CASE r.type = "request_visual_snapshot" -> r.image
                [] r.type = "submit_for_evaluation" -> r.accepted
                [] OTHER -> r.ok
         /\ N!Compressed(r, now).counts # <<>> =>
              \/ r.type = "wait_ticks" /\ N!Compressed(r, now) = N!WaitEvidence(r, now)
              \/ r.type = "query_inventory" /\ N!Compressed(r, now) = N!QueryEvidence(r, now)
<1> USE DEF N!Says, N!Plain, N!WithDelta, N!Nothing
<1>1. CASE r.type \in N!Searches
  BY <1>1 DEF N!Compressed, N!ScanEvidence, N!Searches
<1>2. CASE r.type = "wait_ticks"
  BY <1>2 DEF N!Compressed, N!WaitEvidence, N!Searches
<1>3. CASE r.type = "query_inventory"
  BY <1>3 DEF N!Compressed, N!QueryEvidence, N!Searches
<1>4. CASE r.type \in {"move_to", "place_block"}
  BY <1>4 DEF N!Compressed, N!MoveEvidence, N!PlaceEvidence, N!Searches
<1>5. CASE r.type \in {"follow", "dig_block_at", "craft_item", "smelt_item", "equip_item"}
  BY <1>5 DEF N!Compressed, N!FollowEvidence, N!DigEvidence, N!ProcessEvidence, N!EquipEvidence,
     N!Searches
<1>6. CASE r.type \in {"get_recipe", "retrieve_docs"}
  BY <1>6 DEF N!Compressed, N!LookupEvidence, N!Searches
<1>7. CASE r.type \in {"use_item", "consume_item", "fight_entity", "engage_combat", "execute_skill"}
  BY <1>7 DEF N!Compressed, N!UseEvidence, N!FightEvidence, N!EngageEvidence, N!SkillEvidence,
     N!Searches
<1>8. CASE r.type \in {"request_visual_snapshot", "submit_for_evaluation"}
  BY <1>8 DEF N!Compressed, N!SnapshotEvidence, N!SubmitEvidence, N!Searches
<1>9. CASE r.type \notin N!Searches \cup
             {"wait_ticks", "query_inventory", "move_to", "place_block", "follow", "dig_block_at",
              "craft_item", "smelt_item", "equip_item", "get_recipe", "retrieve_docs", "use_item",
              "consume_item", "fight_entity", "engage_combat", "execute_skill",
              "request_visual_snapshot", "submit_for_evaluation"}
  BY <1>9 DEF N!Compressed, N!GenericEvidence
<1>10. QED
  BY <1>1, <1>2, <1>3, <1>4, <1>5, <1>6, <1>7, <1>8, <1>9

LEMMA EvidenceIsTold == EvidenceInv => N!ToldEvidenceIsTrue
<1> SUFFICES ASSUME EvidenceInv, told # N!NoTold, told.evidence # N!NoEvidence
             PROVE  N!ToldEvidenceIsTrue
  BY DEF N!ToldEvidenceIsTrue
<1>1. told.evidence = N!Evidence(result, observation)
  BY DEF EvidenceInv, DecisionSeen
<1>2. told.evidence.of = N!Compressed(result, observation)
  BY <1>1 DEF N!Evidence
<1>3. told.evidence.of.says = "done" =>
        CASE result.type = "request_visual_snapshot" -> result.image
          [] result.type = "submit_for_evaluation" -> result.accepted
          [] OTHER -> result.ok
  BY <1>2, EvidenceOfResult
<1>4. told.evidence.of.counts # <<>> => told.evidence.of.counts = ended
  <2>1. CASE result.type = "wait_ticks" /\ told.evidence.of = N!WaitEvidence(result, observation)
    BY <2>1 DEF EvidenceInv, ResultKnown, N!WaitEvidence, N!WithDelta, N!Plain, N!Says, N!Nothing
  <2>2. CASE result.type = "query_inventory" /\ told.evidence.of = N!QueryEvidence(result, observation)
    BY <2>2 DEF EvidenceInv, ResultKnown, N!QueryEvidence, N!Plain, N!Says, N!Nothing
  <2>3. QED
    BY <1>2, <2>1, <2>2, EvidenceOfResult
<1>5. QED
  BY <1>3, <1>4 DEF N!ToldEvidenceIsTrue, N!Nothing

LEMMA KillsAreCounted == EvidenceInv => N!KillsAreReal
<1> SUFFICES ASSUME EvidenceInv PROVE N!KillsAreReal
  OBVIOUS
<1>1. IsFiniteSet(fought \ alive) /\ dead \subseteq fought \ alive
  BY EvidenceAssumption, FS_Subset DEF EvidenceInv, KillsCounted
<1>2. Cardinality(dead) <= Cardinality(fought \ alive) /\ Cardinality(fought \ alive) \in Nat
  BY <1>1, FS_Subset, FS_CardinalityType
<1>3. killCount = Cardinality(dead) /\ first.kills \in Nat /\ killCount \in Nat
  BY DEF EvidenceInv, KillsCounted, EvidenceTyped, N!TypeOK, Observations
<1>4. ASSUME NEW n \in Int, N!KillDelta([count |-> n], N!Observed)
      PROVE  Cardinality(fought \ alive) >= n
  BY <1>2, <1>3, <1>4 DEF N!KillDelta, N!Observed
<1>5. QED
  BY <1>4, EvidenceCardinality DEF N!KillsAreReal

THEOREM EvidenceServes == N!Spec => [](N!TypeOK /\ N!EvidenceIsTrue)
<1>1. EvidenceInv => N!TypeOK /\ N!EvidenceIsTrue
  BY ProgressIsTold, EvidenceIsTold, KillsAreCounted
     DEF EvidenceInv, EvidenceTyped, N!EvidenceIsTrue
<1>2. QED
  BY InitEvidence, StepEvidence, <1>1, PTL DEF N!Spec
-----------------------------------------------------------------------------
CONSTANTS
  \* LiveLaunch
  Servers, Files, Arguments, MaxStarts, MaxDeaths, MaxRestarts, AloneDeaths
VARIABLES
  server, running, pid, file, script, pool, leader, node, known, restarting, starts, deaths,
  alone, restarts

L == INSTANCE LiveLaunch

(* The directories of a pool are numbered; a file that was written by hand *)
(* has entries that name ports and players in numbers; as many workers as  *)
(* are asked for is a number.                                              *)
Entries == [id : Nat, game : Nat, rcon : Nat, max : Nat]
ASSUME LaunchAssumption ==
  /\ IsFiniteSet(Servers) /\ Servers \subseteq Nat
  /\ Files \subseteq Seq(Entries)
  /\ \A a \in Arguments : a.workers \in Nat

(* The start of servers and workers. The pid file of a directory tells     *)
(* whether it has a server, which is why none has two.                     *)

PoolKnown ==
  /\ server \in [Servers -> {"down", "booting", "up", "stopping"}]
  /\ pid \in [Servers -> {"none", "live", "stale"}] /\ running \in [Servers -> Int]
  /\ DOMAIN script = {"pc", "next", "mine"}
  /\ script.pc \in {"off", "start", "wait", "written", "failed"}
  /\ script.next \in Nat /\ script.mine \subseteq Servers
  /\ file \in Seq(Entries)
  /\ \A s \in Servers : /\ server[s] = "down" => running[s] = 0 /\ pid[s] # "live"
                        /\ server[s] # "down" => running[s] = 1 /\ pid[s] = "live"
  /\ script.pc = "failed" => \A s \in script.mine : server[s] \in {"stopping", "down"}

(* What main() has checked by each phase.                                  *)
Checked ==
  /\ phase \notin {"idle", "limits", "refused"} => (args.vision => args.titled)
  /\ phase \notin {"idle", "limits", "capture", "refused"} => (args.vision => args.workers = 1)
  /\ phase \in {"servers", "placement", "reach", "workers", "running"} =>
       (args.workers > 1 /\ ~args.scripted /\ ~args.sqlite => ~L!UsesSqlite)
  /\ phase \in {"placement", "reach", "workers", "running"} =>
       \/ Len(pool) = 1
       \/ /\ pool \in Seq(Entries) /\ Len(pool) = args.workers
          /\ \A i, j \in 1 .. Len(pool) : i # j => pool[i].game # pool[j].game
  /\ phase \in {"reach", "workers", "running"} => L!Enough
  /\ phase \in {"workers", "running"} => (args.rcon => \A i \in DOMAIN pool : pool[i].rcon # 0)
  /\ phase = "running" => (args.rcon => args.password)

(* Unless npm alone was killed, a Node child has its npm.                  *)
WorkersKnown ==
  /\ args.workers \in Nat /\ known \subseteq 1 .. args.workers
  /\ leader \subseteq known /\ node \subseteq known /\ restarting \in {0} \cup known
  /\ phase = "idle" => known = {}
  /\ restarting # 0 => phase \in {"running", "closing"}
  /\ alone \in Nat /\ (alone = 0 => node \subseteq leader)
  /\ L!WorkersAreStopped

LaunchInv == PoolKnown /\ Checked /\ WorkersKnown

LEMMA InitLaunch == L!Init => LaunchInv
<1> SUFFICES ASSUME L!Init PROVE LaunchInv
  OBVIOUS
<1>1. PoolKnown
  <2>1. file \in Seq(Entries)
    <3>1. <<>> \in Seq(Entries)
      OBVIOUS
    <3>2. file = <<>> \/ file \in Files
      BY DEF L!Init
    <3>3. QED
      BY <3>1, <3>2, LaunchAssumption
  <2>2. script = [pc |-> "off", next |-> 1, mine |-> {}]
    BY DEF L!Init, L!NoScript
  <2>3. QED
    BY <2>1, <2>2 DEF L!Init, PoolKnown
<1>2. Checked
  BY DEF L!Init, Checked
<1>3. WorkersKnown
  BY DEF L!Init, WorkersKnown, L!NoArguments, L!WorkersAreStopped
<1>4. QED
  BY <1>1, <1>2, <1>3 DEF LaunchInv

LEMMA LaunchCardinality == ASSUME NEW S PROVE L!Cardinality(S) = Cardinality(S)
  BY DEF L!Cardinality, Cardinality

LEMMA LaunchUnchanged ==
  ASSUME Checked, WorkersKnown, UNCHANGED <<L!launchVars, alone>>
  PROVE  Checked' /\ WorkersKnown'
<1>1. Checked'
  BY DEF L!launchVars, Checked, L!UsesSqlite, L!Enough
<1>2. WorkersKnown'
  BY DEF L!launchVars, WorkersKnown, L!WorkersAreStopped
<1>3. QED
  BY <1>1, <1>2

(* The pool script and its servers.                                        *)
LEMMA PoolLaunch ==
  ASSUME LaunchInv,
         \/ L!BeginPool \/ L!StartServer \/ L!AwaitServers \/ L!ServerReady \/ L!WriteFile
         \/ L!PoolTimesOut \/ L!ServerUp \/ L!ServerDies
  PROVE  LaunchInv'
<1> USE LaunchAssumption DEF LaunchInv
<1>1. CASE L!BeginPool
  <2>1. PoolKnown'
    BY <1>1 DEF L!BeginPool, L!NoScript, PoolKnown
  <2>2. UNCHANGED <<L!launchVars, alone>>
    BY <1>1 DEF L!BeginPool
  <2>3. QED
    BY <2>1, <2>2, LaunchUnchanged
<1>2. CASE L!StartServer
  <2>1. PoolKnown'
    <3> DEFINE s == script.next
    <3>1. s \in Servers /\ script.pc = "start" /\ file' = file
      BY <1>2 DEF L!StartServer
    <3>2. CASE script' = [script EXCEPT !.next = s + 1] /\ UNCHANGED <<server, running, pid>>
      <4>1. /\ DOMAIN script' = {"pc", "next", "mine"} /\ script'.next = script.next + 1
            /\ script'.pc = "start" /\ script'.mine = script.mine
        BY <3>1, <3>2 DEF PoolKnown
      <4>2. QED
        BY <3>1, <3>2, <4>1 DEF PoolKnown
    <3>3. CASE /\ pid[s] = "stale" \/ ~L!IsRunning(s)
               /\ server' = [server EXCEPT ![s] = "booting"]
               /\ running' = [running EXCEPT ![s] = @ + 1] /\ pid' = [pid EXCEPT ![s] = "live"]
               /\ script' = [script EXCEPT !.next = s + 1, !.mine = @ \cup {s}]
      <4>1. /\ DOMAIN script' = {"pc", "next", "mine"} /\ script'.next = script.next + 1
            /\ script'.pc = "start" /\ script'.mine = script.mine \cup {s}
        BY <3>1, <3>3 DEF PoolKnown
      <4> HIDE DEF s
      <4>2. pid[s] # "live"
        BY <3>3 DEF L!IsRunning
      <4>3. server[s] = "down" /\ running[s] = 0
        BY <3>1, <4>2 DEF PoolKnown
      <4>4. QED
        BY <3>1, <3>3, <4>1, <4>3 DEF PoolKnown
    <3>4. QED
      BY <1>2, <3>2, <3>3 DEF L!StartServer
  <2>2. UNCHANGED <<L!launchVars, alone>>
    BY <1>2 DEF L!StartServer
  <2>3. QED
    BY <2>1, <2>2, LaunchUnchanged
<1>3. CASE L!AwaitServers
  <2>1. PoolKnown'
    BY <1>3 DEF L!AwaitServers, PoolKnown
  <2>2. UNCHANGED <<L!launchVars, alone>>
    BY <1>3 DEF L!AwaitServers
  <2>3. QED
    BY <2>1, <2>2, LaunchUnchanged
<1>4. CASE L!ServerReady
  <2>1. PoolKnown'
    <3>1. script' = [script EXCEPT !.next = @ + 1]
      BY <1>4 DEF L!ServerReady
    <3>2. /\ DOMAIN script' = {"pc", "next", "mine"} /\ script'.next = script.next + 1
          /\ script'.pc = script.pc /\ script'.mine = script.mine
      BY <3>1 DEF PoolKnown
    <3>3. QED
      BY <1>4, <3>2 DEF L!ServerReady, PoolKnown
  <2>2. UNCHANGED <<L!launchVars, alone>>
    BY <1>4 DEF L!ServerReady
  <2>3. QED
    BY <2>1, <2>2, LaunchUnchanged
<1>5. CASE L!WriteFile
  <2>1. L!Cardinality(Servers) \in Nat
    BY FS_CardinalityType, LaunchCardinality
  <2>2. file' \in Seq(Entries)
    <3>1. \A i \in 1 .. L!Cardinality(Servers) : L!Entry(i) \in Entries
      BY DEF L!Entry, Entries
    <3>2. file' = [i \in 1 .. L!Cardinality(Servers) |-> L!Entry(i)]
      BY <1>5 DEF L!WriteFile
    <3>3. QED
      BY <2>1, <3>1, <3>2
  <2>3. PoolKnown'
    BY <1>5, <2>2 DEF L!WriteFile, PoolKnown
  <2>4. UNCHANGED <<L!launchVars, alone>>
    BY <1>5 DEF L!WriteFile
  <2>5. QED
    BY <2>3, <2>4, LaunchUnchanged
<1>6. CASE L!PoolTimesOut
  <2>1. PoolKnown'
    BY <1>6 DEF L!PoolTimesOut, L!Terminated, L!StartedServers, PoolKnown
  <2>2. UNCHANGED <<L!launchVars, alone>>
    BY <1>6 DEF L!PoolTimesOut
  <2>3. QED
    BY <2>1, <2>2, LaunchUnchanged
<1>7. CASE L!ServerUp
  <2>1. PoolKnown'
    BY <1>7 DEF L!ServerUp, PoolKnown
  <2>2. UNCHANGED <<L!launchVars, alone>>
    BY <1>7 DEF L!ServerUp
  <2>3. QED
    BY <2>1, <2>2, LaunchUnchanged
<1>8. CASE L!ServerDies
  <2>1. PoolKnown'
    BY <1>8 DEF L!ServerDies, L!Gone, PoolKnown
  <2>2. UNCHANGED <<L!launchVars, alone>>
    BY <1>8 DEF L!ServerDies
  <2>3. QED
    BY <2>1, <2>2, LaunchUnchanged
<1>9. QED
  BY <1>1, <1>2, <1>3, <1>4, <1>5, <1>6, <1>7, <1>8

(* The week 10 script and its workers.                                     *)
LEMMA ScriptLaunch ==
  ASSUME LaunchInv,
         \/ L!Launch \/ L!Limits \/ L!Capture \/ L!Database \/ L!ResolvePool \/ L!Placement \/
            L!Reach \/ L!StartWorker \/ L!BuildRunner \/ L!WorkerDies \/ L!LeaderDies \/ L!Restart
            \/ L!Restarted \/ L!RunnerEnds \/ L!LoopCloses \/ L!StopWorkers
  PROVE  LaunchInv'
<1> USE LaunchAssumption DEF LaunchInv
<1>1. CASE L!Launch
  <2>1. PoolKnown'
    BY <1>1 DEF L!Launch, L!poolVars, PoolKnown
  <2>2. Checked'
    BY <1>1 DEF L!Launch, Checked, L!UsesSqlite, L!Enough
  <2>3. WorkersKnown'
    BY <1>1 DEF L!Launch, WorkersKnown, L!WorkersAreStopped
  <2>4. QED
    BY <2>1, <2>2, <2>3
<1>2. CASE L!Limits
  <2>1. PoolKnown'
    BY <1>2 DEF L!Limits, L!To, L!poolVars, PoolKnown
  <2>2. Checked'
    BY <1>2 DEF L!Limits, L!To, Checked, L!UsesSqlite, L!Enough
  <2>3. WorkersKnown'
    BY <1>2 DEF L!Limits, L!To, WorkersKnown, L!WorkersAreStopped
  <2>4. QED
    BY <2>1, <2>2, <2>3
<1>3. CASE L!Capture
  <2>1. PoolKnown'
    BY <1>3 DEF L!Capture, L!To, L!poolVars, PoolKnown
  <2>2. Checked'
    BY <1>3 DEF L!Capture, L!To, Checked, L!UsesSqlite, L!Enough
  <2>3. WorkersKnown'
    BY <1>3 DEF L!Capture, L!To, WorkersKnown, L!WorkersAreStopped
  <2>4. QED
    BY <2>1, <2>2, <2>3
<1>4. CASE L!Database
  <2>1. PoolKnown'
    BY <1>4 DEF L!Database, L!To, L!poolVars, PoolKnown
  <2>2. Checked'
    BY <1>4 DEF L!Database, L!To, L!UsesSqlite, Checked, L!Enough
  <2>3. WorkersKnown'
    BY <1>4 DEF L!Database, L!To, WorkersKnown, L!WorkersAreStopped
  <2>4. QED
    BY <2>1, <2>2, <2>3
<1>5. CASE L!ResolvePool
  <2>1. PoolKnown'
    BY <1>5 DEF L!ResolvePool, L!To, L!poolVars, PoolKnown
  <2>2. Checked'
    <3>1. CASE args.pool /\ L!Fits /\ pool' = SubSeq(file, 1, args.workers) /\ L!To("placement")
      <4>1. Len(file) \in Nat /\ args.workers \in Nat /\ args.workers <= Len(file)
        BY <3>1 DEF L!Fits, PoolKnown, WorkersKnown
      <4>2. pool' \in Seq(Entries) /\ Len(pool') = args.workers
            /\ \A i \in 1 .. args.workers : pool'[i] = file[i]
        BY <3>1, <4>1 DEF PoolKnown
      <4>3. \A i, j \in 1 .. Len(file) : i # j => file[i].game # file[j].game
        BY <3>1 DEF L!Fits, L!Loads, L!Distinct, L!IsInjective, PoolKnown
      <4>4. \A i, j \in 1 .. Len(pool') : i # j => pool'[i].game # pool'[j].game
        BY <4>1, <4>2, <4>3
      <4>5. phase = "servers" /\ phase' = "placement" /\ args' = args
        BY <1>5, <3>1 DEF L!ResolvePool, L!To
      <4>6. QED
        BY <4>2, <4>4, <4>5 DEF Checked, L!UsesSqlite
    <3>2. CASE L!To("refused")
      BY <3>2 DEF L!To, Checked
    <3>3. CASE pool' = L!Development /\ L!To("placement")
      BY <1>5, <3>3 DEF L!ResolvePool, L!To, L!Development, Checked, L!UsesSqlite
    <3>4. QED
      BY <1>5, <3>1, <3>2, <3>3 DEF L!ResolvePool
  <2>3. WorkersKnown'
    BY <1>5 DEF L!ResolvePool, L!To, WorkersKnown, L!WorkersAreStopped
  <2>4. QED
    BY <2>1, <2>2, <2>3
<1>6. CASE L!Placement
  <2>1. PoolKnown'
    BY <1>6 DEF L!Placement, L!To, L!poolVars, PoolKnown
  <2>2. Checked'
    BY <1>6 DEF L!Placement, L!To, L!Enough, Checked, L!UsesSqlite
  <2>3. WorkersKnown'
    BY <1>6 DEF L!Placement, L!To, WorkersKnown, L!WorkersAreStopped
  <2>4. QED
    BY <2>1, <2>2, <2>3
<1>7. CASE L!Reach
  <2>1. PoolKnown'
    BY <1>7 DEF L!Reach, L!To, L!poolVars, PoolKnown
  <2>2. Checked'
    BY <1>7 DEF L!Reach, L!To, Checked, L!UsesSqlite, L!Enough
  <2>3. WorkersKnown'
    BY <1>7 DEF L!Reach, L!To, WorkersKnown, L!WorkersAreStopped
  <2>4. QED
    BY <2>1, <2>2, <2>3
<1>8. CASE L!StartWorker
  <2>1. Cardinality(known) \in Nat
    <3>1. IsFiniteSet(1 .. args.workers)
      BY FS_Interval DEF WorkersKnown
    <3>2. QED
      BY <3>1, FS_Subset, FS_CardinalityType DEF WorkersKnown
  <2>2. Cardinality(known) + 1 \in 1 .. args.workers
    BY <1>8, <2>1, LaunchCardinality DEF L!StartWorker, WorkersKnown
  <2>3. PICK w \in 1 .. args.workers :
          known' = known \cup {w} /\ leader' = leader \cup {w} /\ node' = node \cup {w}
    BY <1>8, <2>2, LaunchCardinality DEF L!StartWorker
  <2>4. PoolKnown'
    BY <1>8 DEF L!StartWorker, L!poolVars, PoolKnown
  <2>5. Checked'
    BY <1>8 DEF L!StartWorker, Checked, L!UsesSqlite, L!Enough
  <2>6. WorkersKnown'
    BY <1>8, <2>3 DEF L!StartWorker, WorkersKnown, L!WorkersAreStopped
  <2>7. QED
    BY <2>4, <2>5, <2>6
<1>9. CASE L!BuildRunner
  <2>1. PoolKnown'
    BY <1>9 DEF L!BuildRunner, L!To, L!poolVars, PoolKnown
  <2>2. Checked'
    BY <1>9 DEF L!BuildRunner, L!To, Checked, L!UsesSqlite, L!Enough
  <2>3. WorkersKnown'
    BY <1>9 DEF L!BuildRunner, L!To, WorkersKnown, L!WorkersAreStopped
  <2>4. QED
    BY <2>1, <2>2, <2>3
<1>10. CASE L!WorkerDies
  <2>1. PoolKnown'
    BY <1>10 DEF L!WorkerDies, L!poolVars, PoolKnown
  <2>2. Checked'
    BY <1>10 DEF L!WorkerDies, Checked, L!UsesSqlite, L!Enough
  <2>3. WorkersKnown'
    BY <1>10 DEF L!WorkerDies, WorkersKnown, L!WorkersAreStopped
  <2>4. QED
    BY <2>1, <2>2, <2>3
<1>11. CASE L!LeaderDies
  <2>1. PoolKnown'
    BY <1>11 DEF L!LeaderDies, L!poolVars, PoolKnown
  <2>2. Checked'
    BY <1>11 DEF L!LeaderDies, Checked, L!UsesSqlite, L!Enough
  <2>3. WorkersKnown'
    BY <1>11 DEF L!LeaderDies, WorkersKnown, L!WorkersAreStopped
  <2>4. QED
    BY <2>1, <2>2, <2>3
<1>12. CASE L!Restart
  <2>1. PoolKnown'
    BY <1>12 DEF L!Restart, L!poolVars, PoolKnown
  <2>2. Checked'
    BY <1>12 DEF L!Restart, L!NodesAfter, Checked, L!UsesSqlite, L!Enough
  <2>3. WorkersKnown'
    BY <1>12 DEF L!Restart, L!NodesAfter, WorkersKnown, L!WorkersAreStopped
  <2>4. QED
    BY <2>1, <2>2, <2>3
<1>13. CASE L!Restarted
  <2>1. PoolKnown'
    BY <1>13 DEF L!Restarted, L!poolVars, PoolKnown
  <2>2. Checked'
    BY <1>13 DEF L!Restarted, Checked, L!UsesSqlite, L!Enough
  <2>3. WorkersKnown'
    BY <1>13 DEF L!Restarted, WorkersKnown, L!WorkersAreStopped
  <2>4. QED
    BY <2>1, <2>2, <2>3
<1>14. CASE L!RunnerEnds
  <2>1. PoolKnown'
    BY <1>14 DEF L!RunnerEnds, L!To, L!poolVars, PoolKnown
  <2>2. Checked'
    BY <1>14 DEF L!RunnerEnds, L!To, Checked, L!UsesSqlite, L!Enough
  <2>3. WorkersKnown'
    BY <1>14 DEF L!RunnerEnds, L!To, WorkersKnown, L!WorkersAreStopped
  <2>4. QED
    BY <2>1, <2>2, <2>3
<1>15. CASE L!LoopCloses
  <2>1. PoolKnown'
    BY <1>15 DEF L!LoopCloses, L!To, L!poolVars, PoolKnown
  <2>2. Checked'
    BY <1>15 DEF L!LoopCloses, L!To, Checked, L!UsesSqlite, L!Enough
  <2>3. WorkersKnown'
    BY <1>15 DEF L!LoopCloses, L!To, WorkersKnown, L!WorkersAreStopped
  <2>4. QED
    BY <2>1, <2>2, <2>3
<1>16. CASE L!StopWorkers
  <2>1. PoolKnown'
    BY <1>16 DEF L!StopWorkers, L!poolVars, PoolKnown
  <2>2. Checked'
    BY <1>16 DEF L!StopWorkers, L!NodesAfter, Checked, L!UsesSqlite, L!Enough
  <2>3. WorkersKnown'
    <3>1. CASE args.keep
      BY <1>16, <3>1 DEF L!StopWorkers, WorkersKnown, L!WorkersAreStopped
    <3>2. CASE ~args.keep
      <4>1. leader' = {} /\ node' \subseteq node
        BY <1>16, <3>2 DEF L!StopWorkers, WorkersKnown
      <4>2. alone = 0 => node' = {}
        BY <1>16, <3>2 DEF L!StopWorkers, L!NodesAfter, WorkersKnown
      <4>3. QED
        BY <1>16, <4>1, <4>2 DEF L!StopWorkers, WorkersKnown, L!WorkersAreStopped
    <3>3. QED
      BY <3>1, <3>2
  <2>4. QED
    BY <2>1, <2>2, <2>3
<1>17. QED
  BY <1>1, <1>2, <1>3, <1>4, <1>5, <1>6, <1>7, <1>8, <1>9, <1>10, <1>11, <1>12, <1>13, <1>14,
     <1>15, <1>16

LEMMA StepLaunch == LaunchInv /\ [L!Next]_(L!vars) => LaunchInv'
<1> SUFFICES ASSUME LaunchInv, [L!Next]_(L!vars) PROVE LaunchInv'
  OBVIOUS
<1>1. CASE UNCHANGED L!vars
  <2>1. PoolKnown'
    BY <1>1 DEF LaunchInv, L!vars, PoolKnown
  <2>2. UNCHANGED <<L!launchVars, alone>>
    BY <1>1 DEF L!vars, L!launchVars
  <2>3. QED
    BY <2>1, <2>2, LaunchUnchanged DEF LaunchInv
<1>2. QED
  BY <1>1, PoolLaunch, ScriptLaunch DEF L!Next

(* Workers that run at once have a server each.                            *)
LEMMA ParallelLaunch == LaunchInv => L!ParallelRunsAreSound
<1> SUFFICES ASSUME LaunchInv, phase = "running" PROVE L!ParallelRunsAreSound
  BY DEF L!ParallelRunsAreSound
<1> USE DEF LaunchInv
<1>1. ASSUME args.workers > 1, ~args.shared, NEW v \in known, NEW w \in known, v # w
      PROVE  L!ServerOf(v).game # L!ServerOf(w).game
  <2>1. Len(pool) # 1
    <3>1. L!Enough /\ args.workers \in Nat
      BY DEF Checked, WorkersKnown
    <3>2. Len(pool) >= args.workers
      BY <1>1, <3>1 DEF L!Enough
    <3>3. args.workers > 1
      BY <1>1
    <3>4. SUFFICES ASSUME Len(pool) = 1 PROVE FALSE
      OBVIOUS
    <3>5. 1 >= args.workers
      BY <3>2, <3>4
    <3>6. QED
      BY <3>1, <3>3, <3>5
  <2> v \in 1 .. args.workers /\ w \in 1 .. args.workers
    BY <1>1 DEF WorkersKnown
  <2>2. Len(pool) = args.workers /\ \A i, j \in 1 .. Len(pool) : i # j => pool[i].game # pool[j].game
    BY <2>1 DEF Checked
  <2>3. QED
    BY <1>1, <2>1, <2>2 DEF L!ServerOf
<1>2. ASSUME args.rcon, NEW w \in known
      PROVE  L!ServerOf(w).rcon # 0
  <2>1. w \in 1 .. args.workers /\ args.workers \in Nat
    BY DEF WorkersKnown
  <2>2. \A i \in DOMAIN pool : pool[i].rcon # 0
    BY <1>2 DEF Checked
  <2>3. CASE Len(pool) = 1
    BY <2>2, <2>3 DEF L!ServerOf
  <2>4. CASE pool \in Seq(Entries) /\ Len(pool) = args.workers
    BY <2>1, <2>2, <2>4 DEF L!ServerOf
  <2>5. QED
    BY <2>3, <2>4 DEF Checked
<1>3. /\ args.workers > 1 /\ ~args.scripted /\ ~args.sqlite => ~L!UsesSqlite
      /\ args.vision => args.workers = 1 /\ args.titled
      /\ args.rcon => args.password
  BY DEF Checked
<1>4. QED
  BY <1>1, <1>2, <1>3 DEF L!ParallelRunsAreSound

THEOREM LaunchServes == L!Spec => [](L!TypeOK /\ L!LaunchIsSound)
<1>1. LaunchInv => L!TypeOK
  BY DEF LaunchInv, PoolKnown, WorkersKnown, L!TypeOK
<1>2. LaunchInv => L!PoolIsClean
  BY DEF LaunchInv, PoolKnown, L!PoolIsClean
<1>3. LaunchInv => L!TypeOK /\ L!LaunchIsSound
  BY <1>1, <1>2, ParallelLaunch DEF LaunchInv, WorkersKnown, L!LaunchIsSound
<1>4. QED
  BY InitLaunch, StepLaunch, <1>3, PTL DEF L!Spec
-----------------------------------------------------------------------------
CONSTANTS
  \* Spectator
  RetryLimit, SpectatedRuns, MaxBodies
VARIABLES
  follow, record, runner, body, seen, loop, current, attached, failures, last, sync, camera,
  mode, stop, ready, visual, recorder, session, before

V == INSTANCE Spectator WITH
  MaxRuns <- SpectatedRuns

(* Limits of retries are naturals.                                         *)
ASSUME SpectatorAssumption == RetryLimit \in Nat

(* The spectator. A camera that is being attached was sent to a body that  *)
(* is at least as new as the one whose observation started the attempt.    *)

CameraTyped ==
  /\ V!TypeOK
  /\ runs \in Nat /\ body \in Nat /\ seen \in 0 .. body /\ sync.state \in 0 .. body
  /\ starts \in Seq(Nat) /\ \A i \in DOMAIN starts : starts[i] \in 1 .. runs

(* The state of an attempt that counts as "before" was read before it, and *)
(* a probe that finds nothing changed has seen the body that it knows.     *)
CameraKnows ==
  /\ loop \in {"wait", "probe"} /\ attached /\ before /\ last = body => camera = body
  /\ attached /\ before => last # 0
  /\ loop = "probe" /\ last # 0 => sync.state \in {0, last}
  /\ loop = "followed" => sync.state <= camera
  /\ loop \notin {"off", "wait", "done"} => current > 0 /\ (sync.early => sync.state # 0)

SessionKnows ==
  /\ ~follow => loop = "off" /\ mode = "creative" /\ camera = 0
  /\ session = "start" => recorder = "none" /\ loop = "off" /\ ~attached
  /\ ready => current > 0
  /\ session \in {"restore", "ended", "not restored"} => loop \in {"off", "done"}
  /\ V!RecordingStartsAttached /\ V!ClientIsGivenBack

SpectatorInv == CameraTyped /\ CameraKnows /\ SessionKnows

LEMMA InitSpectator == V!Init => SpectatorInv
<1> SUFFICES ASSUME V!Init PROVE SpectatorInv
  OBVIOUS
<1>1. CameraTyped
  BY SpectatorAssumption DEF V!Init, CameraTyped, V!TypeOK, V!NoSync
<1>2. CameraKnows
  BY DEF V!Init, CameraKnows
<1>3. SessionKnows
  BY DEF V!Init, SessionKnows, V!RecordingStartsAttached, V!ClientIsGivenBack
<1>4. QED
  BY <1>1, <1>2, <1>3 DEF SpectatorInv

(* Every action keeps it.                                                   *)
LEMMA StepSpectator == SpectatorInv /\ [V!Next]_(V!vars) => SpectatorInv'
<1> SUFFICES ASSUME SpectatorInv, [V!Next]_(V!vars) PROVE SpectatorInv'
  OBVIOUS
<1> USE SpectatorAssumption DEF SpectatorInv
<1>1. CASE V!RunStarts
  <2>1. CameraTyped'
    BY <1>1 DEF V!RunStarts, V!camera_loop, CameraTyped, V!TypeOK, CameraKnows
  <2>2. CameraKnows'
    BY <1>1 DEF V!RunStarts, V!camera_loop, CameraKnows, CameraTyped, V!TypeOK
  <2>3. SessionKnows'
    BY <1>1 DEF V!RunStarts, V!camera_loop, SessionKnows, V!RecordingStartsAttached,
       V!ClientIsGivenBack, CameraKnows
  <2>4. QED
    BY <2>1, <2>2, <2>3
<1>2. CASE V!Observed
  <2>1. CameraTyped'
    BY <1>2 DEF V!Observed, V!camera_loop, CameraTyped, V!TypeOK, CameraKnows
  <2>2. CameraKnows'
    BY <1>2 DEF V!Observed, V!camera_loop, CameraKnows, CameraTyped, V!TypeOK
  <2>3. SessionKnows'
    BY <1>2 DEF V!Observed, V!camera_loop, SessionKnows, V!RecordingStartsAttached,
       V!ClientIsGivenBack, CameraKnows
  <2>4. QED
    BY <2>1, <2>2, <2>3
<1>3. CASE V!NewBody
  <2>1. CameraTyped'
    BY <1>3 DEF V!NewBody, V!camera_loop, CameraTyped, V!TypeOK, CameraKnows
  <2>2. CameraKnows'
    BY <1>3 DEF V!NewBody, V!camera_loop, CameraKnows, CameraTyped, V!TypeOK
  <2>3. SessionKnows'
    BY <1>3 DEF V!NewBody, V!camera_loop, SessionKnows, V!RecordingStartsAttached,
       V!ClientIsGivenBack, CameraKnows
  <2>4. QED
    BY <2>1, <2>2, <2>3
<1>4. CASE V!RunnerEnds
  <2>1. CameraTyped'
    BY <1>4 DEF V!RunnerEnds, V!camera_loop, CameraTyped, V!TypeOK, CameraKnows
  <2>2. CameraKnows'
    BY <1>4 DEF V!RunnerEnds, V!camera_loop, CameraKnows, CameraTyped, V!TypeOK
  <2>3. SessionKnows'
    BY <1>4 DEF V!RunnerEnds, V!camera_loop, SessionKnows, V!RecordingStartsAttached,
       V!ClientIsGivenBack, CameraKnows
  <2>4. QED
    BY <2>1, <2>2, <2>3
<1>5. CASE V!NextRun
  <2>1. /\ starts' = Tail(starts) /\ current' = starts[1] /\ starts[1] \in 1 .. runs
        /\ starts' \in Seq(Nat) /\ \A i \in DOMAIN starts' : starts'[i] \in 1 .. runs
    BY <1>5 DEF V!NextRun, CameraTyped
  <2>2. sync'.state \in 0 .. body
    BY <1>5 DEF V!NextRun, V!Begin, CameraTyped
  <2>3. sync'.early => sync'.state # 0
    BY <1>5 DEF V!NextRun, V!Begin
  <2>4. CameraTyped'
    BY <1>5, <2>1, <2>2, <2>3 DEF V!NextRun, V!Begin, V!World, CameraTyped, V!TypeOK, CameraKnows
  <2>5. CameraKnows'
    BY <1>5, <2>1, <2>2, <2>3 DEF V!NextRun, V!Begin, V!World, CameraKnows, CameraTyped, V!TypeOK
  <2>6. SessionKnows'
    <3>1. current' > 0 /\ loop' = "prepare" /\ loop = "wait"
      BY <1>5, <2>1 DEF V!NextRun, V!Begin, CameraTyped
    <3>2. QED
      BY <1>5, <3>1 DEF V!NextRun, V!World, SessionKnows, V!RecordingStartsAttached,
         V!ClientIsGivenBack
  <2>7. QED
    BY <2>4, <2>5, <2>6
<1>6. CASE V!Retry
  <2>1. CameraTyped'
    BY <1>6 DEF V!Retry, V!Begin, V!World, CameraTyped, V!TypeOK, CameraKnows
  <2>2. CameraKnows'
    BY <1>6 DEF V!Retry, V!Begin, V!World, CameraKnows, CameraTyped, V!TypeOK
  <2>3. SessionKnows'
    BY <1>6 DEF V!Retry, V!Begin, V!World, SessionKnows, V!RecordingStartsAttached,
       V!ClientIsGivenBack, CameraKnows
  <2>4. QED
    BY <2>1, <2>2, <2>3
<1>7. CASE V!Resync
  <2>1. CameraTyped'
    BY <1>7 DEF V!Resync, V!Changed, V!Latest, V!Begin, V!World, CameraTyped, V!TypeOK,
       CameraKnows
  <2>2. CameraKnows'
    BY <1>7 DEF V!Resync, V!Changed, V!Latest, V!Begin, V!World, CameraKnows, CameraTyped,
       V!TypeOK
  <2>3. SessionKnows'
    BY <1>7 DEF V!Resync, V!Changed, V!Latest, V!Begin, V!World, SessionKnows,
       V!RecordingStartsAttached, V!ClientIsGivenBack, CameraKnows
  <2>4. QED
    BY <2>1, <2>2, <2>3
<1>8. CASE V!Probe
  <2>1. CameraTyped'
    BY <1>8 DEF V!Probe, V!Changed, V!Latest, V!World, CameraTyped, V!TypeOK, CameraKnows
  <2>2. CameraKnows'
    BY <1>8 DEF V!Probe, V!Changed, V!Latest, V!World, CameraKnows, CameraTyped, V!TypeOK
  <2>3. SessionKnows'
    BY <1>8 DEF V!Probe, V!Changed, V!Latest, V!World, SessionKnows, V!RecordingStartsAttached,
       V!ClientIsGivenBack, CameraKnows
  <2>4. QED
    BY <2>1, <2>2, <2>3
<1>9. CASE V!Probed
  <2>1. CameraTyped'
    BY <1>9 DEF V!Probed, V!Begin, V!NoSync, V!Known, V!World, CameraTyped, V!TypeOK, CameraKnows
  <2>2. CameraKnows'
    <3>1. CASE stop /\ loop' = "done"
      BY <1>9, <3>1 DEF V!Probed, V!World, CameraKnows
    <3>2. CASE loop' = "prepare" /\ V!Begin("distance_resync", sync.state) /\ UNCHANGED last
      BY <1>9, <3>2 DEF V!Probed, V!Begin, V!World, CameraKnows
    <3>3. CASE loop' = "wait" /\ last' = V!Known(sync.state)
      BY <1>9, <3>3 DEF V!Probed, V!Known, V!World, CameraKnows
    <3>4. QED
      BY <1>9, <3>1, <3>2, <3>3 DEF V!Probed, V!Begin
  <2>3. SessionKnows'
    BY <1>9 DEF V!Probed, V!Begin, V!NoSync, V!Known, V!World, SessionKnows,
       V!RecordingStartsAttached, V!ClientIsGivenBack, CameraKnows
  <2>4. QED
    BY <2>1, <2>2, <2>3
<1>10. CASE V!LoopStops
  <2>1. CameraTyped'
    BY <1>10 DEF V!LoopStops, V!World, CameraTyped, V!TypeOK, CameraKnows
  <2>2. CameraKnows'
    BY <1>10 DEF V!LoopStops, V!World, CameraKnows, CameraTyped, V!TypeOK
  <2>3. SessionKnows'
    BY <1>10 DEF V!LoopStops, V!World, SessionKnows, V!RecordingStartsAttached,
       V!ClientIsGivenBack, CameraKnows
  <2>4. QED
    BY <2>1, <2>2, <2>3
<1>11. CASE V!Prepare
  <2>1. CameraTyped'
    BY <1>11 DEF V!Prepare, V!Resets, V!World, CameraTyped, V!TypeOK, CameraKnows
  <2>2. CameraKnows'
    BY <1>11 DEF V!Prepare, V!Resets, V!World, CameraKnows, CameraTyped, V!TypeOK
  <2>3. SessionKnows'
    BY <1>11 DEF V!Prepare, V!Resets, V!World, SessionKnows, V!RecordingStartsAttached,
       V!ClientIsGivenBack, CameraKnows
  <2>4. QED
    BY <2>1, <2>2, <2>3
<1>12. CASE V!Follow
  <2>1. CameraTyped'
    BY <1>12 DEF V!Follow, V!World, CameraTyped, V!TypeOK, CameraKnows
  <2>2. CameraKnows'
    BY <1>12 DEF V!Follow, V!World, CameraKnows, CameraTyped, V!TypeOK
  <2>3. SessionKnows'
    BY <1>12 DEF V!Follow, V!World, SessionKnows, V!RecordingStartsAttached, V!ClientIsGivenBack,
       CameraKnows
  <2>4. QED
    BY <2>1, <2>2, <2>3
<1>13. CASE V!Succeeded
  <2>1. CameraTyped'
    BY <1>13 DEF V!Succeeded, V!NoSync, V!Known, V!StateOfSync, V!Latest, V!Resets, V!World,
       CameraTyped, V!TypeOK, CameraKnows
  <2>2. CameraKnows'
    BY <1>13 DEF V!Succeeded, V!NoSync, V!Known, V!StateOfSync, V!Latest, V!Resets, V!World,
       CameraKnows, CameraTyped, V!TypeOK
  <2>3. SessionKnows'
    BY <1>13 DEF V!Succeeded, V!NoSync, V!Known, V!StateOfSync, V!Latest, V!Resets, V!World,
       SessionKnows, V!RecordingStartsAttached, V!ClientIsGivenBack, CameraKnows
  <2>4. QED
    BY <2>1, <2>2, <2>3
<1>14. CASE V!Failed
  <2>1. CameraTyped'
    BY <1>14 DEF V!Failed, V!NoSync, V!World, CameraTyped, V!TypeOK, CameraKnows
  <2>2. CameraKnows'
    BY <1>14 DEF V!Failed, V!NoSync, V!World, CameraKnows, CameraTyped, V!TypeOK
  <2>3. SessionKnows'
    BY <1>14 DEF V!Failed, V!NoSync, V!World, SessionKnows, V!RecordingStartsAttached,
       V!ClientIsGivenBack, CameraKnows
  <2>4. QED
    BY <2>1, <2>2, <2>3
<1>15. CASE V!Start
  <2>1. CameraTyped'
    BY <1>15 DEF V!Start, V!StartRecorder, CameraTyped, V!TypeOK, CameraKnows
  <2>2. CameraKnows'
    BY <1>15 DEF V!Start, CameraKnows, SessionKnows
  <2>3. SessionKnows'
    BY <1>15 DEF V!Start, V!StartRecorder, SessionKnows, V!RecordingStartsAttached,
       V!ClientIsGivenBack, CameraKnows
  <2>4. QED
    BY <2>1, <2>2, <2>3
<1>16. CASE V!AwaitCamera
  <2>1. CameraTyped'
    BY <1>16 DEF V!AwaitCamera, V!CameraReady, V!StartRecorder, V!camera_loop, CameraTyped,
       V!TypeOK, CameraKnows
  <2>2. CameraKnows'
    BY <1>16 DEF V!AwaitCamera, V!CameraReady, V!StartRecorder, V!camera_loop, CameraKnows,
       CameraTyped, V!TypeOK
  <2>3. SessionKnows'
    BY <1>16 DEF V!AwaitCamera, V!CameraReady, V!StartRecorder, V!camera_loop, SessionKnows,
       V!RecordingStartsAttached, V!ClientIsGivenBack, CameraKnows
  <2>4. QED
    BY <2>1, <2>2, <2>3
<1>17. CASE V!AwaitRunner
  <2>1. CameraTyped'
    BY <1>17 DEF V!AwaitRunner, V!camera_loop, CameraTyped, V!TypeOK, CameraKnows
  <2>2. CameraKnows'
    BY <1>17 DEF V!AwaitRunner, V!camera_loop, CameraKnows, CameraTyped, V!TypeOK
  <2>3. SessionKnows'
    BY <1>17 DEF V!AwaitRunner, V!camera_loop, SessionKnows, V!RecordingStartsAttached,
       V!ClientIsGivenBack, CameraKnows
  <2>4. QED
    BY <2>1, <2>2, <2>3
<1>18. CASE V!FinishLoop
  <2>1. CameraTyped'
    BY <1>18 DEF V!FinishLoop, V!EndLoop, CameraTyped, V!TypeOK, CameraKnows
  <2>2. CameraKnows'
    BY <1>18 DEF V!FinishLoop, V!EndLoop, CameraKnows, CameraTyped, V!TypeOK
  <2>3. SessionKnows'
    BY <1>18 DEF V!FinishLoop, V!EndLoop, SessionKnows, V!RecordingStartsAttached,
       V!ClientIsGivenBack, CameraKnows
  <2>4. QED
    BY <2>1, <2>2, <2>3
<1>19. CASE V!Restore
  <2>1. mode' \in {"creative", "spectator"} /\ camera' \in 0 .. body
    <3>1. mode' \in {mode, "creative"} /\ camera' \in {camera, 0}
      BY <1>19 DEF V!Restore
    <3>2. QED
      BY <3>1 DEF CameraTyped, V!TypeOK
  <2>2. loop \in {"off", "done"} /\ UNCHANGED V!camera_loop
    BY <1>19 DEF V!Restore, SessionKnows
  <2>3. session' \in {"ended", "not restored"}
    BY <1>19 DEF V!Restore
  <2>4. CameraTyped'
    <3>1. UNCHANGED <<runs, body, seen, starts, loop, current, attached, failures, last, sync>>
      BY <1>19 DEF V!Restore, V!camera_loop
    <3>2. QED
      BY <2>1, <2>3, <3>1 DEF CameraTyped, V!TypeOK
  <2>5. CameraKnows'
    BY <2>2 DEF V!camera_loop, CameraKnows
  <2>6. SessionKnows'
    BY <1>19 DEF V!Restore, V!camera_loop, SessionKnows, V!RecordingStartsAttached,
       V!ClientIsGivenBack, CameraKnows
  <2>7. QED
    BY <2>4, <2>5, <2>6
<1>20. CASE UNCHANGED V!vars
  <2>1. CameraTyped'
    BY <1>20 DEF V!vars, CameraTyped, V!TypeOK
  <2>2. CameraKnows'
    BY <1>20 DEF V!vars, CameraKnows
  <2>3. SessionKnows'
    BY <1>20 DEF V!vars, SessionKnows, V!RecordingStartsAttached, V!ClientIsGivenBack
  <2>4. QED
    BY <2>1, <2>2, <2>3
<1>21. QED
  BY <1>1, <1>2, <1>3, <1>4, <1>5, <1>6, <1>7, <1>8, <1>9, <1>10, <1>11, <1>12, <1>13, <1>14,
     <1>15, <1>16, <1>17, <1>18, <1>19, <1>20 DEF V!Next

THEOREM SpectatorServes == V!Spec => [](V!TypeOK /\ V!SpectatorIsSound)
<1>1. SpectatorInv => V!TypeOK /\ V!SpectatorIsSound
  BY DEF SpectatorInv, CameraTyped, CameraKnows, SessionKnows, V!SpectatorIsSound,
     V!CameraIsWhereItIsBelieved
<1>2. QED
  BY InitSpectator, StepSpectator, <1>1, PTL DEF V!Spec
-----------------------------------------------------------------------------
VARIABLE part

WithoutG == <<
  setup, phase, started, windows, trend, result, events, follow, record, runner, runs, body,
  seen, starts, loop, current, attached, failures, last, sync, camera, mode, stop, ready,
  visual, recorder, session, before, catalogue, args, quotas, groups, remaining, batch,
  selected, wave, waves, server, running, pid, file, script, pool, leader, node, known,
  restarting, deaths, alone, restarts, steps, status, cited, lessons, proven, skills, taken,
  rows, tab, bundle, clock, imports, did, step, deciding, inventory, alive, attacked, late,
  dead, killCount, fought, ended, first, observation, told, verdict >>
WithoutE == <<
  task, deeds, acting, active, sequence, ring, sampler, actions, queue, job, latest, baseline,
  previous, done, follow, record, runner, runs, body, seen, starts, loop, current, attached,
  failures, last, sync, camera, mode, stop, ready, visual, recorder, session, before,
  catalogue, args, quotas, groups, remaining, batch, selected, wave, waves, server, running,
  pid, file, script, pool, leader, node, known, restarting, deaths, alone, restarts, steps,
  status, cited, lessons, proven, skills, taken, rows, tab, bundle, clock, imports, did, step,
  deciding, inventory, alive, attacked, late, dead, killCount, fought, ended, first,
  observation, told, verdict >>
WithoutV == <<
  task, deeds, acting, active, sequence, ring, sampler, actions, queue, job, scorer, latest,
  baseline, previous, done, setup, phase, started, windows, trend, result, events, catalogue,
  args, quotas, groups, remaining, batch, selected, wave, waves, server, running, pid, file,
  script, pool, leader, node, known, restarting, deaths, alone, restarts, steps, status, cited,
  lessons, proven, skills, taken, rows, tab, bundle, clock, imports, did, step, deciding,
  inventory, alive, attacked, late, dead, killCount, fought, ended, first, observation, told,
  verdict >>
WithoutK == <<
  task, deeds, acting, active, sequence, ring, sampler, actions, queue, job, scorer, latest,
  baseline, previous, done, setup, started, windows, trend, result, events, follow, record,
  runner, runs, body, seen, starts, loop, current, attached, failures, last, sync, camera,
  mode, stop, ready, visual, recorder, session, before, server, running, pid, file, script,
  pool, leader, node, known, restarting, deaths, alone, restarts, steps, status, cited,
  lessons, proven, skills, taken, rows, tab, bundle, clock, imports, did, step, deciding,
  inventory, alive, attacked, late, dead, killCount, fought, ended, first, observation, told,
  verdict >>
WithoutL == <<
  task, deeds, acting, active, sequence, ring, sampler, actions, queue, job, scorer, latest,
  baseline, previous, done, setup, started, windows, trend, result, events, follow, record,
  runner, runs, body, seen, loop, current, attached, failures, last, sync, camera, mode, stop,
  ready, visual, recorder, session, before, catalogue, quotas, groups, remaining, batch,
  selected, wave, waves, steps, status, cited, lessons, proven, skills, taken, rows, tab,
  bundle, clock, imports, did, step, deciding, inventory, alive, attacked, late, dead,
  killCount, fought, ended, first, observation, told, verdict >>
WithoutA == <<
  deeds, acting, active, sequence, ring, sampler, actions, queue, job, scorer, latest,
  baseline, previous, done, setup, phase, started, windows, trend, result, events, follow,
  record, runner, body, seen, starts, loop, current, attached, failures, last, sync, camera,
  mode, stop, ready, visual, recorder, session, before, catalogue, args, quotas, groups,
  remaining, batch, selected, wave, waves, server, running, pid, file, script, pool, leader,
  node, known, restarting, deaths, alone, restarts, rows, tab, bundle, clock, imports, did,
  step, deciding, inventory, alive, attacked, late, dead, killCount, fought, ended, first,
  observation, told, verdict >>
WithoutD == <<
  task, deeds, acting, active, sequence, ring, sampler, actions, queue, job, scorer, latest,
  baseline, previous, done, setup, phase, started, windows, trend, result, events, follow,
  record, runner, runs, body, seen, starts, loop, current, attached, failures, last, sync,
  camera, mode, stop, ready, visual, recorder, session, before, catalogue, args, quotas,
  groups, remaining, batch, selected, wave, waves, server, running, pid, file, script, pool,
  leader, node, known, restarting, deaths, alone, restarts, steps, status, cited, lessons,
  proven, skills, taken, step, deciding, inventory, alive, attacked, late, dead, killCount,
  fought, ended, first, observation, told, verdict >>
WithoutN == <<
  deeds, acting, active, sequence, ring, sampler, actions, queue, job, scorer, latest,
  baseline, previous, done, setup, phase, started, windows, trend, follow, record, runner,
  runs, body, seen, starts, loop, current, attached, failures, last, sync, camera, mode, stop,
  ready, visual, recorder, session, before, catalogue, args, quotas, groups, remaining, batch,
  selected, wave, waves, server, running, pid, file, script, pool, leader, node, known,
  restarting, deaths, alone, restarts, steps, status, cited, lessons, proven, skills, taken,
  rows, tab, bundle, clock, imports, did >>

(* The variables of the other parts stay at zero.                          *)
ZeroG ==
  /\ setup = 0 /\ phase = 0 /\ started = 0 /\ windows = 0 /\ trend = 0 /\ result = 0
  /\ events = 0 /\ follow = 0 /\ record = 0 /\ runner = 0 /\ runs = 0 /\ body = 0 /\ seen = 0
  /\ starts = 0 /\ loop = 0 /\ current = 0 /\ attached = 0 /\ failures = 0 /\ last = 0
  /\ sync = 0 /\ camera = 0 /\ mode = 0 /\ stop = 0 /\ ready = 0 /\ visual = 0 /\ recorder = 0
  /\ session = 0 /\ before = 0 /\ catalogue = 0 /\ args = 0 /\ quotas = 0 /\ groups = 0
  /\ remaining = 0 /\ batch = 0 /\ selected = 0 /\ wave = 0 /\ waves = 0 /\ server = 0
  /\ running = 0 /\ pid = 0 /\ file = 0 /\ script = 0 /\ pool = 0 /\ leader = 0 /\ node = 0
  /\ known = 0 /\ restarting = 0 /\ deaths = 0 /\ alone = 0 /\ restarts = 0 /\ steps = 0
  /\ status = 0 /\ cited = 0 /\ lessons = 0 /\ proven = 0 /\ skills = 0 /\ taken = 0
  /\ rows = 0 /\ tab = 0 /\ bundle = 0 /\ clock = 0 /\ imports = 0 /\ did = 0 /\ step = 0
  /\ deciding = 0 /\ inventory = 0 /\ alive = 0 /\ attacked = 0 /\ late = 0 /\ dead = 0
  /\ killCount = 0 /\ fought = 0 /\ ended = 0 /\ first = 0 /\ observation = 0 /\ told = 0
  /\ verdict = 0
ZeroE ==
  /\ task = 0 /\ deeds = 0 /\ acting = 0 /\ active = 0 /\ sequence = 0 /\ ring = 0
  /\ sampler = 0 /\ actions = 0 /\ queue = 0 /\ job = 0 /\ latest = 0 /\ baseline = 0
  /\ previous = 0 /\ done = 0 /\ follow = 0 /\ record = 0 /\ runner = 0 /\ runs = 0
  /\ body = 0 /\ seen = 0 /\ starts = 0 /\ loop = 0 /\ current = 0 /\ attached = 0
  /\ failures = 0 /\ last = 0 /\ sync = 0 /\ camera = 0 /\ mode = 0 /\ stop = 0 /\ ready = 0
  /\ visual = 0 /\ recorder = 0 /\ session = 0 /\ before = 0 /\ catalogue = 0 /\ args = 0
  /\ quotas = 0 /\ groups = 0 /\ remaining = 0 /\ batch = 0 /\ selected = 0 /\ wave = 0
  /\ waves = 0 /\ server = 0 /\ running = 0 /\ pid = 0 /\ file = 0 /\ script = 0 /\ pool = 0
  /\ leader = 0 /\ node = 0 /\ known = 0 /\ restarting = 0 /\ deaths = 0 /\ alone = 0
  /\ restarts = 0 /\ steps = 0 /\ status = 0 /\ cited = 0 /\ lessons = 0 /\ proven = 0
  /\ skills = 0 /\ taken = 0 /\ rows = 0 /\ tab = 0 /\ bundle = 0 /\ clock = 0 /\ imports = 0
  /\ did = 0 /\ step = 0 /\ deciding = 0 /\ inventory = 0 /\ alive = 0 /\ attacked = 0
  /\ late = 0 /\ dead = 0 /\ killCount = 0 /\ fought = 0 /\ ended = 0 /\ first = 0
  /\ observation = 0 /\ told = 0 /\ verdict = 0
ZeroV ==
  /\ task = 0 /\ deeds = 0 /\ acting = 0 /\ active = 0 /\ sequence = 0 /\ ring = 0
  /\ sampler = 0 /\ actions = 0 /\ queue = 0 /\ job = 0 /\ scorer = 0 /\ latest = 0
  /\ baseline = 0 /\ previous = 0 /\ done = 0 /\ setup = 0 /\ phase = 0 /\ started = 0
  /\ windows = 0 /\ trend = 0 /\ result = 0 /\ events = 0 /\ catalogue = 0 /\ args = 0
  /\ quotas = 0 /\ groups = 0 /\ remaining = 0 /\ batch = 0 /\ selected = 0 /\ wave = 0
  /\ waves = 0 /\ server = 0 /\ running = 0 /\ pid = 0 /\ file = 0 /\ script = 0 /\ pool = 0
  /\ leader = 0 /\ node = 0 /\ known = 0 /\ restarting = 0 /\ deaths = 0 /\ alone = 0
  /\ restarts = 0 /\ steps = 0 /\ status = 0 /\ cited = 0 /\ lessons = 0 /\ proven = 0
  /\ skills = 0 /\ taken = 0 /\ rows = 0 /\ tab = 0 /\ bundle = 0 /\ clock = 0 /\ imports = 0
  /\ did = 0 /\ step = 0 /\ deciding = 0 /\ inventory = 0 /\ alive = 0 /\ attacked = 0
  /\ late = 0 /\ dead = 0 /\ killCount = 0 /\ fought = 0 /\ ended = 0 /\ first = 0
  /\ observation = 0 /\ told = 0 /\ verdict = 0
ZeroK ==
  /\ task = 0 /\ deeds = 0 /\ acting = 0 /\ active = 0 /\ sequence = 0 /\ ring = 0
  /\ sampler = 0 /\ actions = 0 /\ queue = 0 /\ job = 0 /\ scorer = 0 /\ latest = 0
  /\ baseline = 0 /\ previous = 0 /\ done = 0 /\ setup = 0 /\ started = 0 /\ windows = 0
  /\ trend = 0 /\ result = 0 /\ events = 0 /\ follow = 0 /\ record = 0 /\ runner = 0
  /\ runs = 0 /\ body = 0 /\ seen = 0 /\ starts = 0 /\ loop = 0 /\ current = 0 /\ attached = 0
  /\ failures = 0 /\ last = 0 /\ sync = 0 /\ camera = 0 /\ mode = 0 /\ stop = 0 /\ ready = 0
  /\ visual = 0 /\ recorder = 0 /\ session = 0 /\ before = 0 /\ server = 0 /\ running = 0
  /\ pid = 0 /\ file = 0 /\ script = 0 /\ pool = 0 /\ leader = 0 /\ node = 0 /\ known = 0
  /\ restarting = 0 /\ deaths = 0 /\ alone = 0 /\ restarts = 0 /\ steps = 0 /\ status = 0
  /\ cited = 0 /\ lessons = 0 /\ proven = 0 /\ skills = 0 /\ taken = 0 /\ rows = 0 /\ tab = 0
  /\ bundle = 0 /\ clock = 0 /\ imports = 0 /\ did = 0 /\ step = 0 /\ deciding = 0
  /\ inventory = 0 /\ alive = 0 /\ attacked = 0 /\ late = 0 /\ dead = 0 /\ killCount = 0
  /\ fought = 0 /\ ended = 0 /\ first = 0 /\ observation = 0 /\ told = 0 /\ verdict = 0
ZeroL ==
  /\ task = 0 /\ deeds = 0 /\ acting = 0 /\ active = 0 /\ sequence = 0 /\ ring = 0
  /\ sampler = 0 /\ actions = 0 /\ queue = 0 /\ job = 0 /\ scorer = 0 /\ latest = 0
  /\ baseline = 0 /\ previous = 0 /\ done = 0 /\ setup = 0 /\ started = 0 /\ windows = 0
  /\ trend = 0 /\ result = 0 /\ events = 0 /\ follow = 0 /\ record = 0 /\ runner = 0
  /\ runs = 0 /\ body = 0 /\ seen = 0 /\ loop = 0 /\ current = 0 /\ attached = 0
  /\ failures = 0 /\ last = 0 /\ sync = 0 /\ camera = 0 /\ mode = 0 /\ stop = 0 /\ ready = 0
  /\ visual = 0 /\ recorder = 0 /\ session = 0 /\ before = 0 /\ catalogue = 0 /\ quotas = 0
  /\ groups = 0 /\ remaining = 0 /\ batch = 0 /\ selected = 0 /\ wave = 0 /\ waves = 0
  /\ steps = 0 /\ status = 0 /\ cited = 0 /\ lessons = 0 /\ proven = 0 /\ skills = 0
  /\ taken = 0 /\ rows = 0 /\ tab = 0 /\ bundle = 0 /\ clock = 0 /\ imports = 0 /\ did = 0
  /\ step = 0 /\ deciding = 0 /\ inventory = 0 /\ alive = 0 /\ attacked = 0 /\ late = 0
  /\ dead = 0 /\ killCount = 0 /\ fought = 0 /\ ended = 0 /\ first = 0 /\ observation = 0
  /\ told = 0 /\ verdict = 0
ZeroA ==
  /\ deeds = 0 /\ acting = 0 /\ active = 0 /\ sequence = 0 /\ ring = 0 /\ sampler = 0
  /\ actions = 0 /\ queue = 0 /\ job = 0 /\ scorer = 0 /\ latest = 0 /\ baseline = 0
  /\ previous = 0 /\ done = 0 /\ setup = 0 /\ phase = 0 /\ started = 0 /\ windows = 0
  /\ trend = 0 /\ result = 0 /\ events = 0 /\ follow = 0 /\ record = 0 /\ runner = 0
  /\ body = 0 /\ seen = 0 /\ starts = 0 /\ loop = 0 /\ current = 0 /\ attached = 0
  /\ failures = 0 /\ last = 0 /\ sync = 0 /\ camera = 0 /\ mode = 0 /\ stop = 0 /\ ready = 0
  /\ visual = 0 /\ recorder = 0 /\ session = 0 /\ before = 0 /\ catalogue = 0 /\ args = 0
  /\ quotas = 0 /\ groups = 0 /\ remaining = 0 /\ batch = 0 /\ selected = 0 /\ wave = 0
  /\ waves = 0 /\ server = 0 /\ running = 0 /\ pid = 0 /\ file = 0 /\ script = 0 /\ pool = 0
  /\ leader = 0 /\ node = 0 /\ known = 0 /\ restarting = 0 /\ deaths = 0 /\ alone = 0
  /\ restarts = 0 /\ rows = 0 /\ tab = 0 /\ bundle = 0 /\ clock = 0 /\ imports = 0 /\ did = 0
  /\ step = 0 /\ deciding = 0 /\ inventory = 0 /\ alive = 0 /\ attacked = 0 /\ late = 0
  /\ dead = 0 /\ killCount = 0 /\ fought = 0 /\ ended = 0 /\ first = 0 /\ observation = 0
  /\ told = 0 /\ verdict = 0
ZeroD ==
  /\ task = 0 /\ deeds = 0 /\ acting = 0 /\ active = 0 /\ sequence = 0 /\ ring = 0
  /\ sampler = 0 /\ actions = 0 /\ queue = 0 /\ job = 0 /\ scorer = 0 /\ latest = 0
  /\ baseline = 0 /\ previous = 0 /\ done = 0 /\ setup = 0 /\ phase = 0 /\ started = 0
  /\ windows = 0 /\ trend = 0 /\ result = 0 /\ events = 0 /\ follow = 0 /\ record = 0
  /\ runner = 0 /\ runs = 0 /\ body = 0 /\ seen = 0 /\ starts = 0 /\ loop = 0 /\ current = 0
  /\ attached = 0 /\ failures = 0 /\ last = 0 /\ sync = 0 /\ camera = 0 /\ mode = 0
  /\ stop = 0 /\ ready = 0 /\ visual = 0 /\ recorder = 0 /\ session = 0 /\ before = 0
  /\ catalogue = 0 /\ args = 0 /\ quotas = 0 /\ groups = 0 /\ remaining = 0 /\ batch = 0
  /\ selected = 0 /\ wave = 0 /\ waves = 0 /\ server = 0 /\ running = 0 /\ pid = 0 /\ file = 0
  /\ script = 0 /\ pool = 0 /\ leader = 0 /\ node = 0 /\ known = 0 /\ restarting = 0
  /\ deaths = 0 /\ alone = 0 /\ restarts = 0 /\ steps = 0 /\ status = 0 /\ cited = 0
  /\ lessons = 0 /\ proven = 0 /\ skills = 0 /\ taken = 0 /\ step = 0 /\ deciding = 0
  /\ inventory = 0 /\ alive = 0 /\ attacked = 0 /\ late = 0 /\ dead = 0 /\ killCount = 0
  /\ fought = 0 /\ ended = 0 /\ first = 0 /\ observation = 0 /\ told = 0 /\ verdict = 0
ZeroN ==
  /\ deeds = 0 /\ acting = 0 /\ active = 0 /\ sequence = 0 /\ ring = 0 /\ sampler = 0
  /\ actions = 0 /\ queue = 0 /\ job = 0 /\ scorer = 0 /\ latest = 0 /\ baseline = 0
  /\ previous = 0 /\ done = 0 /\ setup = 0 /\ phase = 0 /\ started = 0 /\ windows = 0
  /\ trend = 0 /\ follow = 0 /\ record = 0 /\ runner = 0 /\ runs = 0 /\ body = 0 /\ seen = 0
  /\ starts = 0 /\ loop = 0 /\ current = 0 /\ attached = 0 /\ failures = 0 /\ last = 0
  /\ sync = 0 /\ camera = 0 /\ mode = 0 /\ stop = 0 /\ ready = 0 /\ visual = 0 /\ recorder = 0
  /\ session = 0 /\ before = 0 /\ catalogue = 0 /\ args = 0 /\ quotas = 0 /\ groups = 0
  /\ remaining = 0 /\ batch = 0 /\ selected = 0 /\ wave = 0 /\ waves = 0 /\ server = 0
  /\ running = 0 /\ pid = 0 /\ file = 0 /\ script = 0 /\ pool = 0 /\ leader = 0 /\ node = 0
  /\ known = 0 /\ restarting = 0 /\ deaths = 0 /\ alone = 0 /\ restarts = 0 /\ steps = 0
  /\ status = 0 /\ cited = 0 /\ lessons = 0 /\ proven = 0 /\ skills = 0 /\ taken = 0
  /\ rows = 0 /\ tab = 0 /\ bundle = 0 /\ clock = 0 /\ imports = 0 /\ did = 0

Init ==
  \/ part = "progress" /\ G!Init /\ ZeroG
  \/ part = "evaluation" /\ E!Init /\ ZeroE
  \/ part = "spectator" /\ V!Init /\ ZeroV
  \/ part = "tasks" /\ K!Init /\ ZeroK
  \/ part = "launch" /\ L!Init /\ ZeroL
  \/ part = "authoring" /\ A!Init /\ ZeroA
  \/ part = "catalogue" /\ D!Init /\ ZeroD
  \/ part = "evidence" /\ N!Init /\ ZeroN
Next ==
  /\ UNCHANGED part
  /\ \/ part = "progress" /\ G!Next /\ UNCHANGED WithoutG
     \/ part = "evaluation" /\ E!Next /\ UNCHANGED WithoutE
     \/ part = "spectator" /\ V!Next /\ UNCHANGED WithoutV
     \/ part = "tasks" /\ K!Next /\ UNCHANGED WithoutK
     \/ part = "launch" /\ L!Next /\ UNCHANGED WithoutL
     \/ part = "authoring" /\ A!Next /\ UNCHANGED WithoutA
     \/ part = "catalogue" /\ D!Next /\ UNCHANGED WithoutD
     \/ part = "evidence" /\ N!Next /\ UNCHANGED WithoutN

vars == <<part,
  task, deeds, acting, active, sequence, ring, sampler, actions, queue, job, scorer, latest,
  baseline, previous, done, setup, phase, started, windows, trend, result, events, follow,
  record, runner, runs, body, seen, starts, loop, current, attached, failures, last, sync,
  camera, mode, stop, ready, visual, recorder, session, before, catalogue, args, quotas,
  groups, remaining, batch, selected, wave, waves, server, running, pid, file, script, pool,
  leader, node, known, restarting, deaths, alone, restarts, steps, status, cited, lessons,
  proven, skills, taken, rows, tab, bundle, clock, imports, did, step, deciding, inventory,
  alive, attacked, late, dead, killCount, fought, ended, first, observation, told, verdict>>
Spec == Init /\ [][Next]_vars

(* Each part is of its type.                                               *)
TypeOK ==
  /\ part = "progress" => G!TypeOK
  /\ part = "evaluation" => E!TypeOK
  /\ part = "spectator" => V!TypeOK
  /\ part = "tasks" => K!TypeOK
  /\ part = "launch" => L!TypeOK
  /\ part = "authoring" => A!TypeOK
  /\ part = "catalogue" => D!TypeOK
  /\ part = "evidence" => N!TypeOK

(* A clip shows the action that it scores, and feedback is of the present  *)
(* task, numbered and compared in order.                                   *)
FeedbackIsSound == part = "progress" => G!FeedbackIsSound

(* Only a sound video is scored, its windows cover the recording, a        *)
(* success is earned, and the scorer is stopped.                           *)
EvaluationIsSound == part = "evaluation" => E!EvaluationIsSound

(* The camera is where it is believed to be, a recording starts attached,  *)
(* and the client is given back.                                           *)
SpectatorIsSound == part = "spectator" => V!SpectatorIsSound

(* Quotas are proportional, the batch is what was asked for, and its waves *)
(* keep similar tasks apart.                                               *)
SelectionIsSound == part = "tasks" => K!SelectionIsSound

(* A pool has no stray servers, parallel runs have what they need, and     *)
(* workers are stopped at the end.                                         *)
LaunchIsSound == part = "launch" => L!LaunchIsSound

(* Lessons and skills are earned by what the runs did.                     *)
AuthoringIsSound == part = "authoring" => A!AuthoringIsSound

(* Seeding keeps what operators changed, edits build on what was seen, and *)
(* no name and version is given twice.                                     *)
CatalogueIsKept == [][part = "catalogue" => D!CatalogueIsKeptStep]_<<part,
  rows, tab, bundle, clock, imports, did>>

(* What the model is told of the goal and of its last action is true, and  *)
(* so is what the verifier accepts.                                        *)
EvidenceIsTrue == part = "evidence" => N!EvidenceIsTrue
-----------------------------------------------------------------------------
LEMMA EvidenceAlone ==
  /\ Spec /\ part = "evidence" => N!Spec /\ [](part = "evidence")
  /\ Spec /\ ~(part = "evidence") => [](~(part = "evidence"))
<1>1. Init /\ part = "evidence" => N!Init
  BY DEF Init
<1>2. part = "evidence" /\ [Next]_vars => [N!Next]_(N!vars) /\ (part = "evidence")'
  BY DEF Next, vars, N!vars
<1>3. ~(part = "evidence") /\ [Next]_vars => (~(part = "evidence"))'
  BY DEF Next, vars
<1>4. QED
  BY <1>1, <1>2, <1>3, PTL DEF Spec, N!Spec

(* The model is told what is true of its goal and of its last action, and  *)
(* the verifier accepts only what the run has reached: for any tasks,      *)
(* inventories, mobs and bounds.                                           *)
THEOREM EvidenceHolds == Spec => []EvidenceIsTrue
<1>1. N!TypeOK /\ N!EvidenceIsTrue => EvidenceIsTrue
  BY DEF EvidenceIsTrue
<1>2. ~(part = "evidence") => EvidenceIsTrue
  BY DEF EvidenceIsTrue
<1>3. QED
  BY <1>1, <1>2, EvidenceServes, EvidenceAlone, PTL
-----------------------------------------------------------------------------
LEMMA LaunchAlone ==
  /\ Spec /\ part = "launch" => L!Spec /\ [](part = "launch")
  /\ Spec /\ ~(part = "launch") => [](~(part = "launch"))
<1>1. Init /\ part = "launch" => L!Init
  BY DEF Init
<1>2. part = "launch" /\ [Next]_vars => [L!Next]_(L!vars) /\ (part = "launch")'
  BY DEF Next, vars, L!vars
<1>3. ~(part = "launch") /\ [Next]_vars => (~(part = "launch"))'
  BY DEF Next, vars
<1>4. QED
  BY <1>1, <1>2, <1>3, PTL DEF Spec, L!Spec

(* A pool has no server of its own beside the shared ones, runs in         *)
(* parallel have what they need, and the workers that were started are     *)
(* stopped or disowned at the end: for any pools, arguments and number of  *)
(* crashes.                                                                *)
THEOREM LaunchHolds == Spec => []LaunchIsSound
<1>1. L!TypeOK /\ L!LaunchIsSound => LaunchIsSound
  BY DEF LaunchIsSound
<1>2. ~(part = "launch") => LaunchIsSound
  BY DEF LaunchIsSound
<1>3. QED
  BY <1>1, <1>2, LaunchServes, LaunchAlone, PTL
-----------------------------------------------------------------------------
LEMMA SpectatorAlone ==
  /\ Spec /\ part = "spectator" => V!Spec /\ [](part = "spectator")
  /\ Spec /\ ~(part = "spectator") => [](~(part = "spectator"))
<1>1. Init /\ part = "spectator" => V!Init
  BY DEF Init
<1>2. part = "spectator" /\ [Next]_vars => [V!Next]_(V!vars) /\ (part = "spectator")'
  BY DEF Next, vars, V!vars
<1>3. ~(part = "spectator") /\ [Next]_vars => (~(part = "spectator"))'
  BY DEF Next, vars
<1>4. QED
  BY <1>1, <1>2, <1>3, PTL DEF Spec, V!Spec

(* A camera that is believed to be attached follows the present body, a    *)
(* recording starts attached, and the client is given back as it was: for  *)
(* any number of runs, retries and respawns.                               *)
THEOREM SpectatorHolds == Spec => []SpectatorIsSound
<1>1. V!TypeOK /\ V!SpectatorIsSound => SpectatorIsSound
  BY DEF SpectatorIsSound
<1>2. ~(part = "spectator") => SpectatorIsSound
  BY DEF SpectatorIsSound
<1>3. QED
  BY <1>1, <1>2, SpectatorServes, SpectatorAlone, PTL
-----------------------------------------------------------------------------
LEMMA FeedbackAlone ==
  /\ Spec /\ part = "progress" => G!Spec /\ [](part = "progress")
  /\ Spec /\ ~(part = "progress") => [](~(part = "progress"))
<1>1. Init /\ part = "progress" => G!Init
  BY DEF Init
<1>2. part = "progress" /\ [Next]_vars => [G!Next]_(G!vars) /\ (part = "progress")'
  BY DEF Next, vars, G!vars
<1>3. ~(part = "progress") /\ [Next]_vars => (~(part = "progress"))'
  BY DEF Next, vars
<1>4. QED
  BY <1>1, <1>2, <1>3, PTL DEF Spec, G!Spec

(* A clip shows the action that it is the feedback on, and feedback is of  *)
(* the present task, numbered and compared in order: for any length of a   *)
(* clip, any ring that holds one, and any number of tasks, deeds and       *)
(* frames, if at least two frames must follow an action, as the default    *)
(* has it.                                                                 *)
THEOREM FeedbackHolds == Post >= 2 => (Spec => []FeedbackIsSound)
<1>1. G!FeedbackIsOfTheTask /\ G!WindowShowsTheAction => FeedbackIsSound
  BY DEF FeedbackIsSound, G!FeedbackIsSound
<1>2. ~(part = "progress") => FeedbackIsSound
  BY DEF FeedbackIsSound
<1>3. SUFFICES ASSUME Post >= 2 PROVE Spec => []FeedbackIsSound
  OBVIOUS
<1>4. G!TypeOK /\ G!FeedbackIsOfTheTask /\ (Post >= 2 => G!WindowShowsTheAction) => FeedbackIsSound
  BY <1>1, <1>3
<1>5. QED
  BY <1>2, <1>4, FeedbackServes, FeedbackAlone, PTL
-----------------------------------------------------------------------------
LEMMA EvaluationAlone ==
  /\ Spec /\ part = "evaluation" => E!Spec /\ [](part = "evaluation")
  /\ Spec /\ ~(part = "evaluation") => [](~(part = "evaluation"))
<1>1. Init /\ part = "evaluation" => E!Init
  BY DEF Init
<1>2. part = "evaluation" /\ [Next]_vars => [E!Next]_(E!vars) /\ (part = "evaluation")'
  BY DEF Next, vars, E!vars
<1>3. ~(part = "evaluation") /\ [Next]_vars => (~(part = "evaluation"))'
  BY DEF Next, vars
<1>4. QED
  BY <1>1, <1>2, <1>3, PTL DEF Spec, E!Spec

(* What is recorded as the MineCLIP result of a creative run is what the   *)
(* scorer said of a sound recording, all of it, and the scorer is stopped: *)
(* for any policy, recordings of any length, any answers and any faults.   *)
THEOREM EvaluationHolds == Spec => []EvaluationIsSound
<1>1. E!TypeOK /\ E!EvaluationIsSound => EvaluationIsSound
  BY DEF EvaluationIsSound
<1>2. ~(part = "evaluation") => EvaluationIsSound
  BY DEF EvaluationIsSound
<1>3. QED
  BY <1>1, <1>2, EvaluationServes, EvaluationAlone, PTL
-----------------------------------------------------------------------------
LEMMA AuthoringAlone ==
  /\ Spec /\ part = "authoring" => A!Spec /\ [](part = "authoring")
  /\ Spec /\ ~(part = "authoring") => [](~(part = "authoring"))
<1>1. Init /\ part = "authoring" => A!Init
  BY DEF Init
<1>2. part = "authoring" /\ [Next]_vars => [A!Next]_(A!vars) /\ (part = "authoring")'
  BY DEF Next, vars, A!vars
<1>3. ~(part = "authoring") /\ [Next]_vars => (~(part = "authoring"))'
  BY DEF Next, vars
<1>4. QED
  BY <1>1, <1>2, <1>3, PTL DEF Spec, A!Spec

(* A lesson about a stall rests on two, what validates a lesson followed   *)
(* its failure, a skill of one step is earned, of the skills of one name   *)
(* one is promoted by itself and its task finds it again, and a skill      *)
(* speaks of the entity of its task only: for any tasks and steps whose    *)
(* words are of one sort each, and for any number of runs.                 *)
THEOREM AuthoringHolds == NamesAreOfOneSort => (Spec => []AuthoringIsSound)
<1>1. SUFFICES ASSUME NamesAreOfOneSort PROVE Spec => []AuthoringIsSound
  OBVIOUS
<1>2. A!Spec => []A!AuthoringIsSound
  BY <1>1, AuthoringServes
<1>3. A!AuthoringIsSound => AuthoringIsSound
  BY DEF AuthoringIsSound
<1>4. ~(part = "authoring") => AuthoringIsSound
  BY DEF AuthoringIsSound
<1>5. QED
  BY <1>2, <1>3, <1>4, AuthoringAlone, PTL
-----------------------------------------------------------------------------
LEMMA CatalogueAlone ==
  /\ Spec /\ part = "catalogue" => D!Spec /\ [](part = "catalogue")
  /\ Spec /\ ~(part = "catalogue") => [](~(part = "catalogue"))
<1>1. Init /\ part = "catalogue" => D!Init
  BY DEF Init
<1>2. part = "catalogue" /\ [Next]_vars => [D!Next]_(D!vars) /\ (part = "catalogue")'
  BY DEF Next, vars, D!vars
<1>3. ~(part = "catalogue") /\ [Next]_vars => (~(part = "catalogue"))'
  BY DEF Next, vars
<1>4. QED
  BY <1>1, <1>2, <1>3, PTL DEF Spec, D!Spec

(* Seeding reverses nothing that an operator wrote and brings no shipped   *)
(* skill back beside the row that became of it, an edit replaces the row   *)
(* as it was shown, and a name and version is of one row: for any names,   *)
(* conflict policies, rows, writes and imports, if the names that runs and *)
(* operators give are not those of the shipped skills.                     *)
THEOREM CatalogueHolds == NamesAreTheirOwn => (Spec => CatalogueIsKept)
<1>1. SUFFICES ASSUME NamesAreTheirOwn PROVE Spec => CatalogueIsKept
  OBVIOUS
<1>2. Spec => [](part = "catalogue" => CatalogueInv)
  BY CatalogueInvariant, CatalogueAlone, PTL
<1>3. (part = "catalogue" => CatalogueInv) /\ [Next]_vars
        => [part = "catalogue" => D!CatalogueIsKeptStep]_<<part, rows, tab, bundle, clock, imports, did>>
  <2>1. CASE Next
    <3>1. part = "catalogue" => D!Next
      BY <2>1 DEF Next
    <3>2. QED
      BY <1>1, <3>1, CatalogueStep
  <2>2. CASE UNCHANGED vars
    BY <2>2 DEF vars
  <2>3. QED
    BY <2>1, <2>2
<1>4. QED
  BY <1>2, <1>3, PTL DEF Spec, CatalogueIsKept
-----------------------------------------------------------------------------
LEMMA SelectionAlone ==
  /\ Spec /\ part = "tasks" => K!Spec /\ [](part = "tasks")
  /\ Spec /\ ~(part = "tasks") => [](~(part = "tasks"))
<1>1. Init /\ part = "tasks" => K!Init
  BY DEF Init
<1>2. part = "tasks" /\ [Next]_vars => [K!Next]_(K!vars) /\ (part = "tasks")'
  BY DEF Next, vars, K!vars
<1>3. ~(part = "tasks") /\ [Next]_vars => (~(part = "tasks"))'
  BY DEF Next, vars
<1>4. QED
  BY <1>1, <1>2, <1>3, PTL DEF Spec, K!Spec

(* Quotas share out the batch, each within one place of its proportion;    *)
(* the batch is as long as asked for, without repetitions of its own and   *)
(* with its quota of each category; its waves hold each task once, keep    *)
(* similar tasks apart, and close early only to do so: for any tasks,      *)
(* requests, sizes, workers and thresholds.                                *)
THEOREM SelectionHolds == Spec => []SelectionIsSound
<1>1. K!TypeOK /\ K!SelectionIsSound => SelectionIsSound
  BY DEF SelectionIsSound
<1>2. ~(part = "tasks") => SelectionIsSound
  BY DEF SelectionIsSound
<1>3. QED
  BY <1>1, <1>2, SelectionServes, SelectionAlone, PTL
-----------------------------------------------------------------------------
(* Each part keeps its types, whatever its constants are.                  *)
THEOREM TypesHold == Spec => []TypeOK
<1>1. Spec => [](part = "progress" => G!TypeOK)
  BY FeedbackServes, FeedbackAlone, PTL
<1>2. Spec => [](part = "evaluation" => E!TypeOK)
  BY EvaluationServes, EvaluationAlone, PTL
<1>3. Spec => [](part = "spectator" => V!TypeOK)
  BY SpectatorServes, SpectatorAlone, PTL
<1>4. Spec => [](part = "tasks" => K!TypeOK)
  BY SelectionServes, SelectionAlone, PTL
<1>5. Spec => [](part = "launch" => L!TypeOK)
  BY LaunchServes, LaunchAlone, PTL
<1>6. Spec => [](part = "authoring" => A!TypeOK)
  BY AuthoringServes, AuthoringAlone, PTL
<1>7. Spec => [](part = "catalogue" => D!TypeOK)
  BY CatalogueServes, CatalogueAlone, PTL
<1>8. Spec => [](part = "evidence" => N!TypeOK)
  BY EvidenceServes, EvidenceAlone, PTL
<1>9. /\ (part = "progress" => G!TypeOK) /\ (part = "evaluation" => E!TypeOK)
      /\ (part = "spectator" => V!TypeOK) /\ (part = "tasks" => K!TypeOK)
      /\ (part = "launch" => L!TypeOK) /\ (part = "authoring" => A!TypeOK)
      /\ (part = "catalogue" => D!TypeOK) /\ (part = "evidence" => N!TypeOK)
      => TypeOK
  BY DEF TypeOK
<1>10. QED
  BY <1>1, <1>2, <1>3, <1>4, <1>5, <1>6, <1>7, <1>8, <1>9, PTL
=============================================================================
