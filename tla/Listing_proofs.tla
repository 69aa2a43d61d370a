--------------------------- MODULE Listing_proofs ---------------------------
(***************************************************************************)
(* Theorems about a walk through the list of jobs, for lists, pages and    *)
(* integers of any size.  They are about counting: what the walk repeats   *)
(* was pushed back by a job created meanwhile, and what it skips moved up  *)
(* because a job before it was deleted.                                    *)
(***************************************************************************)
EXTENDS Listing, FiniteSetTheorems, WellFoundedInduction, TLAPS

-----------------------------------------------------------------------------
(* Counting.                                                               *)

Less == {p \in Nat \X Nat : p[1] < p[2]}

LEMMA Least ==
  ASSUME NEW S \in SUBSET Nat, S # {}
  PROVE  \E x \in S : \A y \in S : x <= y
<1>1. IsWellFoundedOn(Less, Nat)
  BY NatLessThanWellFounded DEF OpToRel, Less
<1>2. PICK x \in S : \A y \in S : <<y, x>> \notin Less
  BY <1>1, WFMin
<1>3. \A y \in S : /\ <<y, x>>[1] = y /\ <<y, x>>[2] = x
                   /\ <<y, x>> \in Nat \X Nat
  OBVIOUS
<1>4. \A y \in S : ~(y < x)
  BY <1>2, <1>3 DEF Less
<1> QED
  BY <1>4

LEMMA Counted ==
  ASSUME NEW n \in Nat, NEW S \in SUBSET (1..n)
  PROVE  /\ IsFiniteSet(S) /\ Cardinality(S) \in Nat /\ Cardinality(S) <= n
         /\ \A T \in SUBSET S : Cardinality(T) <= Cardinality(S)
<1>1. IsFiniteSet(1..n) /\ Cardinality(1..n) = n
  BY FS_Interval
<1> QED
  BY <1>1, FS_Subset, FS_CardinalityType

\* Two sets count no more than the one that holds both, if they are apart.
LEMMA CountedApart ==
  ASSUME NEW n \in Nat, NEW A \in SUBSET (1..n), NEW B \in SUBSET (1..n)
  PROVE  /\ Cardinality(A \cup B) <= Cardinality(A) + Cardinality(B)
         /\ A \cap B = {} =>
               Cardinality(A \cup B) = Cardinality(A) + Cardinality(B)
<1>1. /\ Cardinality(A) \in Nat /\ Cardinality(B) \in Nat
      /\ Cardinality(A \cap B) \in Nat
      /\ IsFiniteSet(A) /\ IsFiniteSet(B)
  BY Counted
<1>2. Cardinality(A \cup B) =
         Cardinality(A) + Cardinality(B) - Cardinality(A \cap B)
  BY <1>1, FS_Union
<1>3. A \cap B = {} => Cardinality(A \cap B) = 0
  BY FS_EmptySet
<1> QED
  BY <1>1, <1>2, <1>3

\* The same of two finite sets that are known to be apart.
LEMMA CountedDisjoint ==
  ASSUME NEW A, NEW B, IsFiniteSet(A), IsFiniteSet(B), A \cap B = {}
  PROVE  Cardinality(A \cup B) = Cardinality(A) + Cardinality(B)
<1>1. Cardinality(A \cap B) = 0
  BY FS_EmptySet
<1>2. /\ Cardinality(A \cup B) =
            Cardinality(A) + Cardinality(B) - Cardinality(A \cap B)
      /\ Cardinality(A) \in Nat /\ Cardinality(B) \in Nat
  BY FS_Union, FS_CardinalityType
<1> QED
  BY <1>1, <1>2

-----------------------------------------------------------------------------
(* The place of a job in a list T of jobs, newest first.                   *)

Place(T, j) == Cardinality({k \in T : k > j})

LEMMA PlaceType ==
  ASSUME NEW n \in Nat, NEW T \in SUBSET (1..n), NEW j
  PROVE  /\ Place(T, j) \in Nat
         /\ j \in T => Place(T, j) < Cardinality(T)
<1> DEFINE A == {k \in T : k > j}
<1>1. A \in SUBSET (1..n) /\ Cardinality(A) \in Nat
  BY Counted
<1>2. ASSUME j \in T PROVE Cardinality(A) < Cardinality(T)
  <2>1. j \notin A /\ A \cup {j} \in SUBSET T
    BY <1>2
  <2>2. Cardinality(A \cup {j}) = Cardinality(A) + 1
    BY <1>1, <2>1, Counted, FS_AddElement
  <2>3. Cardinality(A \cup {j}) <= Cardinality(T) /\ Cardinality(T) \in Nat
    BY <2>1, Counted
  <2> QED
    BY <1>1, <2>2, <2>3
<1> QED
  BY <1>1, <1>2 DEF Place

LEMMA PlaceOrders ==
  ASSUME NEW n \in Nat, NEW T \in SUBSET (1..n), NEW j \in T, NEW k \in T,
         j < k
  PROVE  Place(T, k) < Place(T, j)
<1> DEFINE A == {i \in T : i > k}
           B == {i \in T : i > j}
<1>0. \A i \in T : i \in Nat
  OBVIOUS
<1>1. k \notin A /\ A \cup {k} \in SUBSET B
  <2>1. k \notin A /\ k \in B
    BY <1>0
  <2>2. \A i \in A : i \in B
    BY <1>0
  <2> QED
    BY <2>1, <2>2
<1>2. A \in SUBSET (1..n) /\ B \in SUBSET (1..n)
  OBVIOUS
<1>3. Cardinality(A \cup {k}) = Cardinality(A) + 1
  BY <1>1, <1>2, Counted, FS_AddElement
<1>4. Cardinality(A \cup {k}) <= Cardinality(B)
  BY <1>1, <1>2, Counted
<1>5. Cardinality(A) \in Nat /\ Cardinality(B) \in Nat
  BY <1>2, Counted
<1> QED
  BY <1>3, <1>4, <1>5 DEF Place

LEMMA PlaceIsOnes ==
  ASSUME NEW n \in Nat, NEW T \in SUBSET (1..n), NEW j \in T, NEW k \in T,
         Place(T, j) = Place(T, k)
  PROVE  j = k
<1>1. Place(T, j) \in Nat /\ Place(T, k) \in Nat
  BY PlaceType
<1>2. ASSUME j < k PROVE FALSE
  <2>1. Place(T, k) < Place(T, j)
    BY <1>2, PlaceOrders
  <2> QED
    BY <1>1, <2>1
<1>3. ASSUME k < j PROVE FALSE
  <2>1. Place(T, j) < Place(T, k)
    BY <1>3, PlaceOrders
  <2> QED
    BY <1>1, <2>1
<1>4. j \in Nat /\ k \in Nat
  OBVIOUS
<1> QED
  BY <1>2, <1>3, <1>4

\* A new job moves every other back by one place.
LEMMA PlaceCreated ==
  ASSUME NEW n \in Nat, NEW T \in SUBSET (1..n), NEW j \in T
  PROVE  Place(T \cup {n + 1}, j) = Place(T, j) + 1
<1> DEFINE A == {k \in T : k > j}
<1>1. {k \in T \cup {n + 1} : k > j} = A \cup {n + 1}
  OBVIOUS
<1>2. IsFiniteSet(A) /\ Cardinality(A) \in Nat /\ n + 1 \notin A
  BY Counted
<1>3. Cardinality(A \cup {n + 1}) = Cardinality(A) + 1
  BY <1>2, FS_AddElement
<1> QED
  BY <1>1, <1>3 DEF Place

LEMMA PlaceCleaned ==
  ASSUME NEW n \in Nat, NEW T \in SUBSET (1..n), NEW S \in SUBSET T, NEW j
  PROVE  Place(T \ S, j) <= Place(T, j)
<1> DEFINE A == {k \in T \ S : k > j}
           B == {k \in T : k > j}
<1>1. A \in SUBSET B /\ B \in SUBSET (1..n)
  OBVIOUS
<1> QED
  BY <1>1, Counted DEF Place

\* No more jobs come to stand before place o than were deleted.  Let a be the
\* oldest that does and g the newest: between them and the head of the list
\* stood o jobs or more, and fewer are left.
LEMMA MovedUp ==
  ASSUME NEW n \in Nat, NEW T \in SUBSET (1..n), NEW S \in SUBSET T,
         NEW o \in Int
  PROVE  Cardinality({j \in T \ S : Place(T, j) >= o /\ Place(T \ S, j) < o})
            <= Cardinality(S)
<1> DEFINE New == {j \in T \ S : Place(T, j) >= o /\ Place(T \ S, j) < o}
<1>0. New \in SUBSET T
  OBVIOUS
<1>1. /\ New \in SUBSET (1..n) /\ S \in SUBSET (1..n)
      /\ New \in SUBSET Nat
  <2> HIDE DEF New
  <2> QED
    BY <1>0
<1>2. Cardinality(S) \in Nat /\ Cardinality(New) \in Nat /\ IsFiniteSet(New)
  BY <1>1, Counted
<1>3. CASE New = {}
  <2>1. Cardinality(New) = 0
    BY <1>3, FS_EmptySet
  <2> QED
    BY <1>2, <2>1
<1>4. CASE New # {}
  <2>1. PICK a \in New : \A j \in New : a <= j
    <3> HIDE DEF New
    <3> QED
      BY <1>1, <1>4, Least
  <2>2. PICK g \in New : \A j \in New : j <= g
    <3> DEFINE P == {Place(T, j) : j \in New}
    <3>1. P \in SUBSET Nat /\ P # {}
      BY <1>4, PlaceType
    <3>2. PICK p \in P : \A q \in P : p <= q
      <4> HIDE DEF P
      <4> QED
        BY <3>1, Least
    <3>3. PICK g \in New : p = Place(T, g)
      BY <3>2
    <3>4. ASSUME NEW j \in New, ~(j <= g) PROVE FALSE
      <4>1. g < j /\ g \in T /\ j \in T
        BY <1>1, <3>4
      <4>2. Place(T, j) < Place(T, g)
        BY <4>1, PlaceOrders
      <4>3. Place(T, g) <= Place(T, j)
        BY <3>2, <3>3
      <4>4. Place(T, g) \in Nat /\ Place(T, j) \in Nat
        BY PlaceType
      <4> QED
        BY <4>2, <4>3, <4>4
    <3> QED
      BY <3>4
  <2> DEFINE Above == {k \in T : k > g}
             Kept == Above \ S
             Ahead == {k \in T \ S : k > a}
  <2>3. /\ Above \in SUBSET (1..n) /\ Kept \in SUBSET (1..n)
        /\ Ahead \in SUBSET (1..n) /\ New \ {a} \in SUBSET (1..n)
    BY <1>1
  <2>4. /\ Cardinality(Above) \in Nat /\ Cardinality(Kept) \in Nat
        /\ Cardinality(Ahead) \in Nat /\ Cardinality(New \ {a}) \in Nat
    BY <2>3, Counted
  <2>5. Cardinality(Above) >= o /\ Cardinality(Ahead) < o
    BY DEF Place
  <2>6. Cardinality(Above) <= Cardinality(Kept) + Cardinality(S)
    <3>1. Kept \cup S \in SUBSET (1..n) /\ Above \in SUBSET (Kept \cup S)
      BY <1>1, <2>3
    <3>2. Cardinality(Above) <= Cardinality(Kept \cup S)
      BY <3>1, Counted
    <3>3. Cardinality(Kept \cup S) <= Cardinality(Kept) + Cardinality(S)
      BY <1>1, <2>3, CountedApart
    <3>4. Cardinality(Kept \cup S) \in Nat
      BY <3>1, Counted
    <3> QED
      BY <1>2, <2>4, <3>2, <3>3, <3>4
  <2>7. Cardinality(New \ {a}) + Cardinality(Kept) <= Cardinality(Ahead)
    <3>1. (New \ {a}) \cap Kept = {}
      BY <1>1, <2>2
    <3>2. (New \ {a}) \cup Kept \in SUBSET Ahead
      <4>1. \A k \in New \ {a} : k > a /\ k \in T \ S
        BY <1>1, <2>1
      <4>2. \A k \in Kept : k > a /\ k \in T \ S
        BY <1>1, <2>1
      <4> QED
        BY <4>1, <4>2
    <3>3. Cardinality((New \ {a}) \cup Kept) <= Cardinality(Ahead)
      BY <2>3, <3>2, Counted
    <3>4. Cardinality((New \ {a}) \cup Kept) =
             Cardinality(New \ {a}) + Cardinality(Kept)
      <4>1. IsFiniteSet(New \ {a}) /\ IsFiniteSet(Kept)
        BY <2>3, Counted
      <4> HIDE DEF New, Kept
      <4> QED
        BY <3>1, <4>1, CountedDisjoint
    <3> HIDE DEF New, Kept, Ahead
    <3> QED
      BY <2>4, <3>3, <3>4
  <2>8. Cardinality(New \ {a}) = Cardinality(New) - 1
    <3> HIDE DEF New
    <3> QED
      BY <1>2, FS_RemoveElement
  <2>9. Cardinality(New) <= Cardinality(S)
    <3> HIDE DEF New, Above, Kept, Ahead
    <3> QED
      BY <1>2, <2>4, <2>5, <2>6, <2>7, <2>8
  <2> QED
    BY <2>9
<1> QED
  BY <1>3, <1>4

-----------------------------------------------------------------------------
(* Offsets.                                                                *)

\* Conversion leaves an offset alone or, once two offsets that fit were
\* added, makes it negative.
LEMMA StoredFits ==
  ASSUME NEW n \in Nat
  PROVE  /\ Stored(n) \in -(2^(Width - 1))..(2^(Width - 1) - 1)
         /\ Stored(n) <= n
         /\ n < 2^(Width - 1) => Stored(n) = n
         /\ n < 2 * 2^(Width - 1) => Stored(n) = n \/ Stored(n) < 0
<1>1. PICK half \in Int : half = 2^(Width - 1)
  BY ListingAssumption
<1>2. half \in Nat \ {0}
  BY <1>1, ListingAssumption
<1>3. Stored(n) = ((n + half) % (2 * half)) - half
  BY <1>1 DEF Stored
<1>4. (n + half) % (2 * half) \in 0..(2 * half - 1)
  BY <1>2
<1>5. (n + half) % (2 * half) <= n + half
  BY <1>2
<1>6. n < half => (n + half) % (2 * half) = n + half
  BY <1>2
<1>7. n >= half /\ n < 2 * half => (n + half) % (2 * half) = n - half
  <2> SUFFICES ASSUME n >= half, n < 2 * half
               PROVE  (n + half) % (2 * half) = n - half
    OBVIOUS
  <2>1. n + half = (n - half) + (2 * half) /\ n - half \in 0..(2 * half - 1)
    BY <1>2
  <2> QED
    BY <1>2, <2>1
<1>8. /\ Stored(n) \in (-half)..(half - 1)
      /\ Stored(n) <= n
      /\ n < half => Stored(n) = n
      /\ n < 2 * half => Stored(n) = n \/ Stored(n) < 0
  BY <1>2, <1>3, <1>4, <1>5, <1>6, <1>7
<1> QED
  BY <1>1, <1>8

-----------------------------------------------------------------------------
(* What the walk has received, with the page under way, where it goes on,  *)
(* what it would receive again from there, and what it has left behind.    *)

Received == seen \cup page
NextAt == IF at = "count" THEN offset + limit ELSE offset
Beyond(T, R, o) == {j \in R \cap T : Place(T, j) >= o}
Missed(T, D, R, o) == {j \in (D \cap T) \ R : Place(T, j) < o}

ListInv ==
    /\ TypeOK
    /\ at # "count" => page = {}
    /\ at = "count" => offset >= 0
    /\ at = "idle" => seen = {} /\ repeats = 0
    /\ mark <= created
    /\ due \subseteq 1..created
    /\ deleted \cap table = {}

\* An offset that began within the list stays within it.
OffsetInv ==
    /\ at \in {"rows", "count"} /\ first <= MaxJobs => offset \in 0..MaxJobs
    /\ at = "refused" => first > MaxJobs

\* Jobs received that stand where the walk goes on count as repeats already:
\* each was pushed there by a job created meanwhile.
RepeatInv ==
    /\ RepeatsBounded
    /\ at \in {"rows", "count"} /\ offset >= 0 =>
          repeats + Cardinality(seen \cap page)
            + Cardinality(Beyond(table, Received, NextAt)) <= created - mark

\* Jobs that stand before it and were not received moved there when others
\* were deleted.
SkipInv ==
    /\ SkipsBounded
    /\ at \in {"rows", "count"} =>
          Cardinality(Missed(table, due, Received, NextAt))
            <= Cardinality(deleted)

LEMMA BeyondCreated ==
  ASSUME NEW n \in Nat, NEW T \in SUBSET (1..n), NEW R \in SUBSET (1..n),
         NEW o \in Int
  PROVE  Cardinality(Beyond(T \cup {n + 1}, R, o))
            <= Cardinality(Beyond(T, R, o)) + 1
<1> DEFINE X == Beyond(T, R, o)
           Y == Beyond(T \cup {n + 1}, R, o)
<1>1. X \in SUBSET (1..n) /\ Y \in SUBSET (1..n)
  BY DEF Beyond
<1>2. /\ IsFiniteSet(X) /\ Cardinality(X) \in Nat /\ Cardinality(Y) \in Nat
      /\ Y \in SUBSET X => Cardinality(Y) <= Cardinality(X)
  BY <1>1, Counted
<1>3. \A j \in Y \ X : j \in T /\ Place(T, j) = o - 1
  <2> SUFFICES ASSUME NEW j \in Y \ X PROVE j \in T /\ Place(T, j) = o - 1
    OBVIOUS
  <2>1. j \in R /\ j \in T /\ Place(T \cup {n + 1}, j) >= o
    BY <1>1 DEF Beyond
  <2>2. ~(Place(T, j) >= o)
    BY <2>1 DEF Beyond
  <2>3. Place(T \cup {n + 1}, j) = Place(T, j) + 1 /\ Place(T, j) \in Nat
    BY <2>1, PlaceCreated, PlaceType
  <2> QED
    BY <2>1, <2>2, <2>3
<1>4. CASE Y \subseteq X
  <2> HIDE DEF X, Y
  <2>1. Cardinality(Y) <= Cardinality(X) + 1
    BY <1>2, <1>4
  <2> QED
    BY <2>1 DEF X, Y
<1>5. CASE ~(Y \subseteq X)
  <2>1. PICK i \in Y \ X : TRUE
    BY <1>5
  <2>2. \A j \in Y \ X : j = i
    BY <1>3, <2>1, PlaceIsOnes
  <2>3. Y \in SUBSET (X \cup {i}) /\ X \cup {i} \in SUBSET (1..n)
    BY <1>1, <2>1, <2>2
  <2>4. Cardinality(Y) <= Cardinality(X \cup {i})
    BY <2>3, Counted
  <2>5. Cardinality(X \cup {i}) <= Cardinality(X) + 1
    <3>1. Cardinality(X \cup {i}) = IF i \in X THEN Cardinality(X)
                                              ELSE Cardinality(X) + 1
      BY <1>2, FS_AddElement
    <3> QED
      BY <1>2, <3>1
  <2>6. Cardinality(X \cup {i}) \in Nat
    BY <2>3, Counted
  <2> HIDE DEF X, Y
  <2>7. Cardinality(Y) <= Cardinality(X) + 1
    BY <1>2, <2>4, <2>5, <2>6
  <2> QED
    BY <2>7 DEF X, Y
<1> QED
  BY <1>4, <1>5

LEMMA BeyondCleaned ==
  ASSUME NEW n \in Nat, NEW T \in SUBSET (1..n), NEW S \in SUBSET T,
         NEW R, NEW o \in Int
  PROVE  Cardinality(Beyond(T \ S, R, o)) <= Cardinality(Beyond(T, R, o))
<1>1. ASSUME NEW j \in Beyond(T \ S, R, o) PROVE j \in Beyond(T, R, o)
  <2>1. /\ Place(T \ S, j) <= Place(T, j)
        /\ Place(T \ S, j) \in Nat /\ Place(T, j) \in Nat
    <3>1. T \ S \in SUBSET (1..n)
      OBVIOUS
    <3> QED
      BY <3>1, PlaceCleaned, PlaceType
  <2> QED
    BY <1>1, <2>1 DEF Beyond
<1>2. /\ Beyond(T, R, o) \in SUBSET (1..n)
      /\ Beyond(T \ S, R, o) \in SUBSET Beyond(T, R, o)
  BY <1>1 DEF Beyond
<1> QED
  BY <1>2, Counted

LEMMA MissedCreated ==
  ASSUME NEW n \in Nat, NEW T \in SUBSET (1..n), NEW D \in SUBSET (1..n),
         NEW R, NEW o \in Int
  PROVE  Cardinality(Missed(T \cup {n + 1}, D, R, o))
            <= Cardinality(Missed(T, D, R, o))
<1>1. ASSUME NEW j \in Missed(T \cup {n + 1}, D, R, o)
      PROVE  j \in Missed(T, D, R, o)
  <2>1. j \in D /\ j \in T /\ j \notin R /\ Place(T \cup {n + 1}, j) < o
    BY <1>1 DEF Missed
  <2>2. Place(T \cup {n + 1}, j) = Place(T, j) + 1 /\ Place(T, j) \in Nat
    BY <2>1, PlaceCreated, PlaceType
  <2> QED
    BY <2>1, <2>2 DEF Missed
<1>2. /\ Missed(T, D, R, o) \in SUBSET (1..n)
      /\ Missed(T \cup {n + 1}, D, R, o) \in SUBSET Missed(T, D, R, o)
  BY <1>1 DEF Missed
<1> QED
  BY <1>2, Counted

LEMMA MissedCleaned ==
  ASSUME NEW n \in Nat, NEW T \in SUBSET (1..n), NEW S \in SUBSET T,
         NEW D, NEW R, NEW o \in Int
  PROVE  Cardinality(Missed(T \ S, D, R, o))
            <= Cardinality(Missed(T, D, R, o)) + Cardinality(S)
<1> DEFINE A == Missed(T, D, R, o)
           B == {j \in T \ S : Place(T, j) >= o /\ Place(T \ S, j) < o}
           C == Missed(T \ S, D, R, o)
<1>1. /\ A \in SUBSET (1..n) /\ B \in SUBSET (1..n) /\ C \in SUBSET (1..n)
      /\ S \in SUBSET (1..n) /\ A \cup B \in SUBSET (1..n)
  BY DEF Missed
<1>2. C \in SUBSET (A \cup B)
  <2> SUFFICES ASSUME NEW j \in C, ~(Place(T, j) >= o) PROVE j \in A
    BY DEF Missed
  <2>1. Place(T, j) \in Nat
    BY PlaceType
  <2> QED
    BY <2>1 DEF Missed
<1>3. Cardinality(B) <= Cardinality(S)
  BY MovedUp
<1>4. Cardinality(C) <= Cardinality(A \cup B)
  BY <1>1, <1>2, Counted
<1>5. Cardinality(A \cup B) <= Cardinality(A) + Cardinality(B)
  BY <1>1, CountedApart
<1>6. /\ Cardinality(A) \in Nat /\ Cardinality(B) \in Nat
      /\ Cardinality(C) \in Nat /\ Cardinality(S) \in Nat
      /\ Cardinality(A \cup B) \in Nat
  BY <1>1, Counted
<1> HIDE DEF A, B, C
<1>7. Cardinality(C) <= Cardinality(A) + Cardinality(S)
  BY <1>3, <1>4, <1>5, <1>6
<1> QED
  BY <1>7 DEF A, C

-----------------------------------------------------------------------------
(* The invariants.                                                         *)

\* The sets that are counted.
LEMMA Sizes ==
  ASSUME ListInv
  PROVE  /\ created \in Nat /\ created <= MaxJobs /\ MaxJobs \in Nat
         /\ table \in SUBSET (1..created) /\ Received \in SUBSET (1..created)
         /\ seen \in SUBSET (1..created) /\ page \in SUBSET (1..created)
         /\ due \in SUBSET (1..created) /\ deleted \in SUBSET (1..created)
         /\ limit \in Nat \ {0} /\ limit <= MaxLimit /\ MaxLimit \in Nat
         /\ offset \in Int /\ offset < 2^(Width - 1)
         /\ MaxJobs + MaxLimit < 2^(Width - 1) /\ 2^(Width - 1) \in Int
         /\ NextAt \in Int
         /\ repeats \in Nat /\ mark \in Nat /\ first \in Nat
         /\ Cardinality(table) <= MaxJobs /\ Cardinality(table) \in Nat
         /\ Cardinality(seen \cap page) \in Nat
         /\ Cardinality(deleted) \in Nat
<1>1. PICK half \in Int : half = 2^(Width - 1)
  BY ListingAssumption
<1>2. /\ created \in Nat /\ created <= MaxJobs
      /\ table \in SUBSET (1..created) /\ Received \in SUBSET (1..created)
      /\ seen \in SUBSET (1..created) /\ page \in SUBSET (1..created)
      /\ deleted \in SUBSET (1..created) /\ due \in SUBSET (1..created)
  BY ListingAssumption DEF ListInv, TypeOK, Received
<1>3. /\ limit \in Nat \ {0} /\ limit <= MaxLimit /\ offset \in Int
      /\ offset < half /\ NextAt \in Int
  BY <1>1, ListingAssumption DEF ListInv, TypeOK, NextAt
<1>4. /\ repeats \in Nat /\ mark \in Nat /\ first \in Nat
  BY ListingAssumption DEF ListInv, TypeOK
<1>5. /\ Cardinality(table) <= created /\ Cardinality(table) \in Nat
      /\ Cardinality(deleted) \in Nat
  BY <1>2, Counted
<1>6. Cardinality(seen \cap page) \in Nat
  BY <1>2, Counted
<1>7. MaxJobs + MaxLimit < half /\ MaxJobs \in Nat /\ MaxLimit \in Nat
  BY <1>1, ListingAssumption
<1> QED
  BY <1>1, <1>2, <1>3, <1>4, <1>5, <1>6, <1>7

LEMMA RowsArePlaced ==
  ASSUME NEW l, NEW o
  PROVE  /\ Rows(l, o) = {j \in table : Place(table, j) \in o..(o + l - 1)}
         /\ \A j : Position(j) = Place(table, j)
  BY DEF Rows, Position, Place

\* A page holds no more rows than were asked for.
LEMMA PageFits ==
  ASSUME NEW n \in Nat, NEW T \in SUBSET (1..n), NEW o \in Nat,
         NEW l \in Nat \ {0}
  PROVE  Cardinality({j \in T : Place(T, j) \in o..(o + l - 1)}) <= l
<1> DEFINE P == {j \in T : Place(T, j) \in o..(o + l - 1)}
           f == [j \in P |-> Place(T, j)]
<1>1. P \in SUBSET (1..n)
  OBVIOUS
<1>2. f \in Injection(P, o..(o + l - 1))
  <2>1. f \in [P -> o..(o + l - 1)]
    OBVIOUS
  <2>2. \A j, k \in P : f[j] = f[k] => j = k
    BY PlaceIsOnes
  <2> HIDE DEF f, P
  <2> QED
    BY <2>1, <2>2 DEF Injection, IsInjective
<1>3. /\ IsFiniteSet(o..(o + l - 1))
      /\ Cardinality(o..(o + l - 1)) = l
  BY FS_Interval
<1> HIDE DEF f
<1>4. Cardinality(P) <= Cardinality(o..(o + l - 1))
  BY <1>2, <1>3, FS_Injection
<1> QED
  BY <1>3, <1>4

\* The client begins.
LEMMA ListBegin ==
  ASSUME ListInv, OffsetInv, RepeatInv, SkipInv,
         NEW l \in Limits, NEW o \in Offsets, Begin(l, o)
  PROVE  (ListInv /\ OffsetInv /\ RepeatInv /\ SkipInv)'
<1>1. /\ at = "idle" /\ at' = "rows" /\ limit' = ParseLimit(l)
      /\ offset' = ParseOffset(o) /\ first' = o /\ mark' = created
      /\ due' = {j \in table : Position(j) >= o}
      /\ UNCHANGED <<table, created, page, seen, repeats, deleted>>
  BY DEF Begin, jobs
<1>2. page = {} /\ seen = {} /\ repeats = 0
  BY <1>1 DEF ListInv
<1>3. /\ created \in Nat /\ created <= MaxJobs /\ MaxJobs \in Nat
      /\ table \in SUBSET (1..created)
      /\ Cardinality(table) <= MaxJobs /\ Cardinality(table) \in Nat
      /\ MaxLimit \in Nat
      /\ MaxJobs + MaxLimit < 2^(Width - 1) /\ 2^(Width - 1) \in Int
      /\ Cardinality(deleted) \in Nat
  BY Sizes
<1>4. o \in Nat /\ offset' = Stored(o)
  BY <1>1, ListingAssumption DEF ParseOffset
<1>5. /\ offset' \in -(2^(Width - 1))..(2^(Width - 1) - 1)
      /\ o <= MaxJobs => offset' = o
  <2>1. PICK half \in Int : half = 2^(Width - 1)
    BY <1>3
  <2>2. o <= MaxJobs => o < half
    BY <1>3, <1>4, <2>1
  <2> QED
    BY <1>4, <2>1, <2>2, StoredFits
<1>6. due' = {j \in table : Place(table, j) >= o}
  BY <1>1, RowsArePlaced
<1>7. ListInv'
  <2>1. limit' \in 1..MaxLimit
    BY <1>1, ListingAssumption DEF ParseLimit
  <2>2. Cardinality(page') <= limit'
    BY <1>1, <1>2, <1>3, <2>1, FS_EmptySet
  <2>3. due' \subseteq 1..created /\ due' \subseteq 1..MaxJobs
    <3>1. due' \subseteq table
      BY <1>6
    <3>2. table \subseteq 1..created /\ table \subseteq 1..MaxJobs
      BY <1>3
    <3> QED
      BY <3>1, <3>2
  <2> QED
    BY <1>1, <1>2, <1>3, <1>4, <1>5, <2>1, <2>2, <2>3 DEF ListInv, TypeOK
<1>8. OffsetInv'
  BY <1>1, <1>4, <1>5 DEF OffsetInv
<1>9. RepeatInv'
  <2>1. seen' \cap page' = {} /\ Beyond(table', Received', NextAt') = {}
    BY <1>1, <1>2 DEF Received, Beyond
  <2>2. /\ Cardinality(seen' \cap page') = 0
        /\ Cardinality(Beyond(table', Received', NextAt')) = 0
    BY <2>1, FS_EmptySet
  <2> QED
    BY <1>1, <1>2, <1>3, <2>2 DEF RepeatInv, RepeatsBounded
<1>10. SkipInv'
  <2>1. Missed(table', due', Received', NextAt') = {}
    <3>1. NextAt' = offset'
      BY <1>1 DEF NextAt
    <3>2. CASE o <= MaxJobs
      <4>1. NextAt' = o
        BY <1>5, <3>1, <3>2
      <4>2. \A j : Place(table, j) \in Nat
        BY <1>3, PlaceType
      <4> QED
        BY <1>1, <1>4, <1>6, <4>1, <4>2 DEF Missed
    <3>3. CASE ~(o <= MaxJobs)
      <4>1. \A j \in table : Place(table, j) \in Nat
                             /\ Place(table, j) < Cardinality(table)
        BY <1>3, PlaceType
      <4>2. \A j \in table : ~(Place(table, j) >= o)
        BY <1>3, <1>4, <3>3, <4>1
      <4>3. due' = {}
        BY <1>6, <4>2
      <4> QED
        BY <4>3 DEF Missed
    <3> QED
      BY <3>2, <3>3
  <2>2. Cardinality(Missed(table', due', Received', NextAt')) = 0
    BY <2>1, FS_EmptySet
  <2> QED
    BY <1>1, <1>3, <2>2 DEF SkipInv, SkipsBounded
<1> QED
  BY <1>7, <1>8, <1>9, <1>10

\* The first query of a request.
LEMMA ListQuery ==
  ASSUME ListInv, OffsetInv, RepeatInv, SkipInv, ListRows
  PROVE  (ListInv /\ OffsetInv /\ RepeatInv /\ SkipInv)'
<1>1. /\ at = "rows" /\ at' = "count" /\ offset >= 0
      /\ page' = Rows(limit, offset)
      /\ UNCHANGED <<table, created, limit, offset, seen, repeats, first, due,
                     mark, deleted>>
  BY DEF ListRows, jobs, history
<1>2. page = {} /\ Received = seen /\ NextAt = offset
  BY <1>1 DEF ListInv, Received, NextAt
<1>3. /\ created \in Nat
      /\ table \in SUBSET (1..created) /\ seen \in SUBSET (1..created)
      /\ due \in SUBSET (1..created)
      /\ limit \in Nat \ {0} /\ offset \in Nat
      /\ repeats \in Nat /\ mark \in Nat
      /\ Cardinality(deleted) \in Nat
  BY <1>1, Sizes
<1>4. page' = {j \in table : Place(table, j) \in offset..(offset + limit - 1)}
  BY <1>1, RowsArePlaced
<1>5. \A j \in table : Place(table, j) \in Nat
  BY <1>3, PlaceType
<1>6. \A j \in table : j \in page' <=> /\ Place(table, j) >= offset
                                       /\ Place(table, j) < offset + limit
  BY <1>3, <1>4, <1>5
<1>7. NextAt' = offset + limit /\ Received' = seen \cup page'
  BY <1>1 DEF NextAt, Received
<1>8. ListInv'
  <2>1. Cardinality(page') <= limit
    BY <1>3, <1>4, PageFits
  <2>2. page' \subseteq 1..created
    BY <1>3, <1>4
  <2> QED
    BY <1>1, <2>1, <2>2 DEF ListInv, TypeOK
<1>9. OffsetInv'
  BY <1>1 DEF OffsetInv
<1>10. RepeatInv'
  <2> DEFINE A == seen \cap page'
             B == Beyond(table, seen \cup page', offset + limit)
             C == Beyond(table, seen, offset)
  <2>1. C \in SUBSET (1..created)
    BY <1>3 DEF Beyond
  <2>2. \A j \in A : j \in C
    BY <1>4, <1>6 DEF Beyond
  <2>3. \A j \in B : j \in C /\ j \notin page'
    <3> SUFFICES ASSUME NEW j \in B PROVE j \in C /\ j \notin page'
      OBVIOUS
    <3>1. j \in table /\ j \in seen \cup page'
          /\ Place(table, j) >= offset + limit /\ Place(table, j) \in Nat
      BY <1>5 DEF Beyond
    <3>2. j \notin page' /\ Place(table, j) >= offset
      BY <1>3, <1>6, <3>1
    <3> QED
      BY <3>1, <3>2 DEF Beyond
  <2>4. A \cup B \in SUBSET C /\ A \cap B = {}
    BY <2>2, <2>3
  <2>5. A \in SUBSET (1..created) /\ B \in SUBSET (1..created)
    BY <2>1, <2>4
  <2> HIDE DEF A, B, C
  <2>6. Cardinality(A) + Cardinality(B) <= Cardinality(C)
    <3>1. Cardinality(A \cup B) = Cardinality(A) + Cardinality(B)
      <4>1. IsFiniteSet(A) /\ IsFiniteSet(B)
        BY <1>3, <2>5, Counted
      <4> QED
        BY <2>4, <4>1, CountedDisjoint
    <3>2. Cardinality(A \cup B) <= Cardinality(C)
      BY <1>3, <2>1, <2>4, Counted
    <3>3. /\ Cardinality(A) \in Nat /\ Cardinality(B) \in Nat
          /\ Cardinality(C) \in Nat
      BY <1>3, <2>1, <2>5, Counted
    <3> QED
      BY <3>1, <3>2, <3>3
  <2>7. repeats + Cardinality(C) <= created - mark
    <3>1. repeats + Cardinality(seen \cap page) + Cardinality(C)
             <= created - mark
      BY <1>1, <1>2 DEF RepeatInv, C
    <3>2. Cardinality(seen \cap page) = 0
      BY <1>2, FS_EmptySet
    <3>3. Cardinality(C) \in Nat
      BY <1>3, <2>1, Counted
    <3> QED
      BY <1>3, <3>1, <3>2, <3>3
  <2>8. Cardinality(A) \in Nat /\ Cardinality(B) \in Nat /\ Cardinality(C) \in Nat
    BY <1>3, <2>1, <2>5, Counted
  <2>9. repeats + Cardinality(A) + Cardinality(B) <= created - mark
    BY <1>3, <2>6, <2>7, <2>8
  <2>10. RepeatsBounded'
    BY <1>1 DEF RepeatInv, RepeatsBounded
  <2> QED
    BY <1>1, <1>7, <2>9, <2>10 DEF RepeatInv, A, B
<1>11. SkipInv'
  <2>1. \A j \in Missed(table, due, seen \cup page', offset + limit) :
           j \in Missed(table, due, seen, offset)
    BY <1>3, <1>5, <1>6 DEF Missed
  <2>2. Missed(table, due, seen, offset) \in SUBSET (1..created)
    BY <1>3 DEF Missed
  <2>3. Cardinality(Missed(table, due, seen \cup page', offset + limit))
           <= Cardinality(Missed(table, due, seen, offset))
    BY <1>3, <2>1, <2>2, Counted
  <2>4. Cardinality(Missed(table, due, seen, offset)) <= Cardinality(deleted)
    BY <1>1, <1>2 DEF SkipInv
  <2>5. Cardinality(Missed(table, due, seen, offset)) \in Nat
    BY <1>3, <2>2, Counted
  <2>6. Missed(table, due, seen \cup page', offset + limit)
           \in SUBSET (1..created)
    BY <1>3 DEF Missed
  <2>7. Cardinality(Missed(table, due, seen \cup page', offset + limit)) \in Nat
    BY <1>3, <2>6, Counted
  <2>8. Cardinality(Missed(table, due, seen \cup page', offset + limit))
           <= Cardinality(deleted)
    BY <1>3, <2>3, <2>4, <2>5, <2>7
  <2> QED
    BY <1>1, <1>7, <2>8 DEF SkipInv, SkipsBounded
<1> QED
  BY <1>8, <1>9, <1>10, <1>11

\* The second query, after which the walk ends or goes on.
LEMMA ListCount ==
  ASSUME ListInv, OffsetInv, RepeatInv, SkipInv, CountTotal
  PROVE  (ListInv /\ OffsetInv /\ RepeatInv /\ SkipInv)'
<1> DEFINE x == offset + limit
<1>1. /\ at = "count" /\ offset >= 0
      /\ seen' = Received /\ page' = {}
      /\ repeats' = Capped(repeats + Cardinality(seen \cap page))
      /\ UNCHANGED <<table, created, limit, first, due, mark, deleted>>
  BY DEF CountTotal, jobs, Received, ListInv
<1>2. \/ /\ Stored(x) < Cardinality(table)
         /\ at' = "rows" /\ offset' = ParseOffset(x)
      \/ /\ ~(Stored(x) < Cardinality(table))
         /\ at' = "done" /\ offset' = offset
  BY DEF CountTotal, HasMore
<1>3. /\ created \in Nat /\ created <= MaxJobs /\ MaxJobs \in Nat
      /\ table \in SUBSET (1..created) /\ Received \in SUBSET (1..created)
      /\ due \in SUBSET (1..created)
      /\ limit \in Nat \ {0} /\ limit <= MaxLimit /\ MaxLimit \in Nat
      /\ offset \in Nat /\ offset < 2^(Width - 1)
      /\ MaxJobs + MaxLimit < 2^(Width - 1) /\ 2^(Width - 1) \in Int
      /\ repeats \in Nat /\ mark \in Nat
      /\ Cardinality(table) <= MaxJobs /\ Cardinality(table) \in Nat
      /\ Cardinality(seen \cap page) \in Nat
      /\ Cardinality(deleted) \in Nat
  BY <1>1, Sizes
<1>4. NextAt = x /\ Received' = Received /\ x \in Nat
  BY <1>1, <1>3 DEF NextAt, Received
<1>5. /\ Stored(x) \in -(2^(Width - 1))..(2^(Width - 1) - 1)
      /\ Stored(x) <= x
      /\ Stored(x) = x \/ Stored(x) < 0
      /\ offset <= MaxJobs => Stored(x) = x
  <2>1. PICK half \in Int : half = 2^(Width - 1)
    BY <1>3
  <2>2. x < 2 * half /\ (offset <= MaxJobs => x < half)
    BY <1>3, <2>1
  <2> HIDE DEF x
  <2> QED
    BY <1>4, <2>1, <2>2, StoredFits
<1>6. at' = "rows" => offset' = Stored(x)
  BY <1>2, <1>4 DEF ParseOffset
<1>7. /\ repeats' \in 0..(MaxJobs + 1)
      /\ repeats' <= repeats + Cardinality(seen \cap page)
  BY <1>1, <1>3 DEF Capped
<1>8. ListInv'
  <2>1. offset' \in -(2^(Width - 1))..(2^(Width - 1) - 1)
    BY <1>2, <1>5, <1>6 DEF ListInv, TypeOK
  <2>2. Cardinality(page') <= limit' /\ page' \subseteq 1..created
    BY <1>1, <1>3, FS_EmptySet
  <2>3. at' \in {"rows", "done"}
    BY <1>2
  <2>4. seen' \subseteq 1..created
    BY <1>1, <1>3
  <2> QED
    BY <1>1, <1>7, <2>1, <2>2, <2>3, <2>4 DEF ListInv, TypeOK
<1>9. OffsetInv'
  <2>1. ASSUME at' = "rows", first <= MaxJobs PROVE offset' \in 0..MaxJobs
    <3>1. offset <= MaxJobs
      BY <1>1, <1>3, <2>1 DEF OffsetInv
    <3>2. offset' = x /\ x < Cardinality(table)
      BY <1>2, <1>5, <1>6, <2>1, <3>1
    <3> QED
      BY <1>3, <1>4, <3>2
  <2> QED
    BY <1>1, <1>2, <2>1 DEF OffsetInv
<1>10. RepeatInv'
  <2> DEFINE B == Beyond(table, Received, x)
  <2>1. repeats + Cardinality(seen \cap page) + Cardinality(B)
           <= created - mark
    BY <1>1, <1>4 DEF RepeatInv
  <2>2. Cardinality(B) \in Nat
    <3>1. B \in SUBSET (1..created)
      BY <1>3 DEF Beyond
    <3> QED
      BY <1>3, <3>1, Counted
  <2>3. Cardinality(seen' \cap page') = 0
    BY <1>1, FS_EmptySet
  <2>4. at' = "rows" /\ offset' >= 0 => NextAt' = x
    BY <1>5, <1>6 DEF NextAt
  <2> HIDE DEF B, x
  <2>5. repeats' <= created - mark
        /\ repeats' + 0 + Cardinality(B) <= created - mark
    BY <1>3, <1>7, <2>1, <2>2
  <2>6. RepeatsBounded'
    BY <1>1, <2>5 DEF RepeatsBounded
  <2>7. at' \in {"rows", "count"} /\ offset' >= 0 =>
           repeats' + Cardinality(seen' \cap page')
             + Cardinality(Beyond(table', Received', NextAt'))
                <= created' - mark'
    BY <1>1, <1>2, <1>4, <2>3, <2>4, <2>5 DEF B
  <2> QED
    BY <2>6, <2>7 DEF RepeatInv
<1>11. SkipInv'
  <2> DEFINE M == Missed(table, due, Received, x)
  <2>1. /\ M \in SUBSET (1..created)
        /\ Cardinality(M) <= Cardinality(deleted)
    BY <1>1, <1>3, <1>4 DEF Missed, SkipInv
  <2>2. \A N \in SUBSET M : Cardinality(N) <= Cardinality(deleted)
    <3> TAKE N \in SUBSET M
    <3> HIDE DEF M
    <3>1. Cardinality(N) <= Cardinality(M)
      BY <1>3, <2>1, Counted
    <3>2. N \in SUBSET (1..created)
      BY <2>1
    <3>3. Cardinality(N) \in Nat /\ Cardinality(M) \in Nat
      BY <1>3, <2>1, <3>2, Counted
    <3> QED
      BY <1>3, <2>1, <3>1, <3>3
  <2>3. \A j \in table : /\ Place(table, j) \in Nat
                         /\ Place(table, j) < Cardinality(table)
    BY <1>3, PlaceType
  <2>4. CASE at' = "rows"
    <3>1. NextAt' = offset' /\ offset' \in Int /\ offset' <= x
      BY <1>3, <1>5, <1>6, <2>4 DEF NextAt
    <3>2. \A j \in Missed(table, due, Received, offset') : j \in M
      BY <1>3, <2>3, <3>1 DEF Missed
    <3>3. Cardinality(Missed(table, due, Received, offset'))
             <= Cardinality(deleted)
      BY <2>2, <3>2
    <3> QED
      BY <1>1, <1>4, <2>4, <3>1, <3>3 DEF SkipInv, SkipsBounded
  <2>5. CASE at' = "done"
    <3>1. ~(Stored(x) < Cardinality(table))
      BY <1>2, <2>5
    <3>2. \A j \in (due \cap table) \ Received : j \in M
      BY <1>3, <1>5, <2>3, <3>1 DEF Missed
    <3>3. Cardinality((due \cap table) \ Received) <= Cardinality(deleted)
      BY <2>2, <3>2
    <3> QED
      BY <1>1, <2>5, <3>3 DEF SkipInv, SkipsBounded
  <2> QED
    BY <1>2, <2>4, <2>5
<1> QED
  BY <1>8, <1>9, <1>10, <1>11

\* A job is created.
LEMMA ListCreate ==
  ASSUME ListInv, OffsetInv, RepeatInv, SkipInv, CreateJob
  PROVE  (ListInv /\ OffsetInv /\ RepeatInv /\ SkipInv)'
<1>1. /\ created < MaxJobs /\ created' = created + 1
      /\ table' = table \cup {created + 1}
      /\ UNCHANGED <<at, limit, offset, page, seen, repeats, first, due, mark,
                     deleted>>
  BY DEF CreateJob, request, history
<1>2. /\ created \in Nat /\ MaxJobs \in Nat
      /\ table \in SUBSET (1..created) /\ Received \in SUBSET (1..created)
      /\ due \in SUBSET (1..created) /\ deleted \in SUBSET (1..created)
      /\ seen \in SUBSET (1..created) /\ page \in SUBSET (1..created)
      /\ NextAt \in Int /\ repeats \in Nat /\ mark \in Nat
      /\ Cardinality(seen \cap page) \in Nat
      /\ Cardinality(deleted) \in Nat
  BY Sizes
<1>3. NextAt' = NextAt /\ Received' = Received
  BY <1>1 DEF NextAt, Received
<1>4. ListInv'
  <2>1. \A S \in SUBSET (1..created) :
           /\ S \subseteq 1..(created + 1) /\ created + 1 \notin S
    BY <1>2
  <2>2. table' \subseteq 1..created' /\ deleted' \cap table' = {}
    BY <1>1, <1>2, <2>1 DEF ListInv
  <2>3. created' \in 0..MaxJobs /\ mark' <= created'
    BY <1>1, <1>2 DEF ListInv
  <2>4. /\ page' \subseteq 1..created' /\ seen' \subseteq 1..created'
        /\ due' \subseteq 1..created' /\ deleted' \subseteq 1..created'
    BY <1>1, <1>2, <2>1
  <2> QED
    BY <1>1, <2>2, <2>3, <2>4 DEF ListInv, TypeOK
<1>5. OffsetInv'
  BY <1>1 DEF OffsetInv
<1>6. RepeatInv'
  <2> DEFINE B == Beyond(table, Received, NextAt)
             C == Beyond(table', Received, NextAt)
  <2>1. Cardinality(C) <= Cardinality(B) + 1
    BY <1>1, <1>2, BeyondCreated
  <2>2. Cardinality(B) \in Nat /\ Cardinality(C) \in Nat
    <3>1. B \in SUBSET (1..created) /\ C \in SUBSET (1..created)
      BY <1>2 DEF Beyond
    <3> QED
      BY <1>2, <3>1, Counted
  <2>3. RepeatsBounded'
    BY <1>1, <1>2 DEF RepeatInv, RepeatsBounded
  <2>4. at \in {"rows", "count"} /\ offset >= 0 =>
           repeats + Cardinality(seen \cap page) + Cardinality(B)
              <= created - mark
    BY DEF RepeatInv
  <2> HIDE DEF B, C
  <2>5. at \in {"rows", "count"} /\ offset >= 0 =>
           repeats + Cardinality(seen \cap page) + Cardinality(C)
              <= (created + 1) - mark
    BY <1>2, <2>1, <2>2, <2>4
  <2>6. at' \in {"rows", "count"} /\ offset' >= 0 =>
           repeats' + Cardinality(seen' \cap page')
             + Cardinality(Beyond(table', Received', NextAt'))
                <= created' - mark'
    BY <1>1, <1>3, <2>5 DEF C
  <2> QED
    BY <2>3, <2>6 DEF RepeatInv
<1>7. SkipInv'
  <2> DEFINE M == Missed(table, due, Received, NextAt)
             N == Missed(table', due, Received, NextAt)
  <2>1. Cardinality(N) <= Cardinality(M)
    BY <1>1, <1>2, MissedCreated
  <2>2. Cardinality(M) \in Nat /\ Cardinality(N) \in Nat
    <3>1. M \in SUBSET (1..created) /\ N \in SUBSET (1..created)
      BY <1>2 DEF Missed
    <3> QED
      BY <1>2, <3>1, Counted
  <2>3. SkipsBounded'
    <3>1. due' \cap table' = due \cap table
      BY <1>1, <1>2
    <3> QED
      BY <1>1, <3>1 DEF SkipInv, SkipsBounded
  <2>4. at \in {"rows", "count"} => Cardinality(M) <= Cardinality(deleted)
    BY DEF SkipInv
  <2> HIDE DEF M, N
  <2>5. at \in {"rows", "count"} => Cardinality(N) <= Cardinality(deleted)
    BY <1>2, <2>1, <2>2, <2>4
  <2> QED
    BY <1>1, <1>3, <2>3, <2>5 DEF SkipInv, N
<1> QED
  BY <1>4, <1>5, <1>6, <1>7

\* Jobs are deleted.
LEMMA ListCleanup ==
  ASSUME ListInv, OffsetInv, RepeatInv, SkipInv,
         NEW S \in SUBSET table, CleanupJobs(S)
  PROVE  (ListInv /\ OffsetInv /\ RepeatInv /\ SkipInv)'
<1>1. /\ table' = table \ S
      /\ deleted' = IF at = "idle" THEN deleted ELSE deleted \cup S
      /\ UNCHANGED <<created, at, limit, offset, page, seen, repeats, first,
                     due, mark>>
  BY DEF CleanupJobs, request
<1>2. /\ created \in Nat
      /\ table \in SUBSET (1..created) /\ Received \in SUBSET (1..created)
      /\ due \in SUBSET (1..created) /\ deleted \in SUBSET (1..created)
      /\ NextAt \in Int /\ repeats \in Nat /\ mark \in Nat
      /\ Cardinality(seen \cap page) \in Nat
      /\ Cardinality(deleted) \in Nat
      /\ S \in SUBSET (1..created)
  BY Sizes
<1>3. NextAt' = NextAt /\ Received' = Received
  BY <1>1 DEF NextAt, Received
<1>4. ListInv'
  <2>1. table' \subseteq 1..created /\ deleted' \subseteq 1..created
    BY <1>1, <1>2
  <2>2. deleted' \cap table' = {}
    BY <1>1 DEF ListInv
  <2> QED
    BY <1>1, <2>1, <2>2 DEF ListInv, TypeOK
<1>5. OffsetInv'
  BY <1>1 DEF OffsetInv
<1>6. RepeatInv'
  <2> DEFINE B == Beyond(table, Received, NextAt)
             C == Beyond(table', Received, NextAt)
  <2>1. Cardinality(C) <= Cardinality(B)
    BY <1>1, <1>2, BeyondCleaned
  <2>2. Cardinality(B) \in Nat /\ Cardinality(C) \in Nat
    <3>1. B \in SUBSET (1..created) /\ C \in SUBSET (1..created)
      BY <1>2 DEF Beyond
    <3> QED
      BY <1>2, <3>1, Counted
  <2>3. RepeatsBounded'
    BY <1>1 DEF RepeatInv, RepeatsBounded
  <2>4. at \in {"rows", "count"} /\ offset >= 0 =>
           repeats + Cardinality(seen \cap page) + Cardinality(B)
              <= created - mark
    BY DEF RepeatInv
  <2> HIDE DEF B, C
  <2>5. at \in {"rows", "count"} /\ offset >= 0 =>
           repeats + Cardinality(seen \cap page) + Cardinality(C)
              <= created - mark
    BY <1>2, <2>1, <2>2, <2>4
  <2> QED
    BY <1>1, <1>3, <2>3, <2>5 DEF RepeatInv, C
<1>7. SkipInv'
  <2> DEFINE M == Missed(table, due, Received, NextAt)
             N == Missed(table', due, Received, NextAt)
             I == (due \cap table) \ seen
             J == (due \cap table') \ seen
  <2>1. Cardinality(N) <= Cardinality(M) + Cardinality(S)
    BY <1>1, <1>2, MissedCleaned
  <2>2. Cardinality(J) <= Cardinality(I)
    <3>1. I \in SUBSET (1..created) /\ J \in SUBSET I
      BY <1>1, <1>2
    <3> QED
      BY <1>2, <3>1, Counted
  <2>3. /\ Cardinality(M) \in Nat /\ Cardinality(N) \in Nat
        /\ Cardinality(I) \in Nat /\ Cardinality(J) \in Nat
        /\ Cardinality(S) \in Nat
    <3>1. /\ M \in SUBSET (1..created) /\ N \in SUBSET (1..created)
          /\ I \in SUBSET (1..created) /\ J \in SUBSET (1..created)
      BY <1>2 DEF Missed
    <3> QED
      BY <1>2, <3>1, Counted
  <2>4. at # "idle" =>
           Cardinality(deleted') = Cardinality(deleted) + Cardinality(S)
    <3>1. deleted \cap S = {}
      BY DEF ListInv
    <3>2. Cardinality(deleted \cup S) = Cardinality(deleted) + Cardinality(S)
      <4>1. IsFiniteSet(deleted) /\ IsFiniteSet(S)
        BY <1>2, Counted
      <4> QED
        BY <3>1, <4>1, CountedDisjoint
    <3>3. at # "idle" => deleted' = deleted \cup S
      BY <1>1
    <3> QED
      BY <3>2, <3>3
  <2>5. /\ at \in {"rows", "count"} => Cardinality(M) <= Cardinality(deleted)
        /\ at = "done" => Cardinality(I) <= Cardinality(deleted)
    BY DEF SkipInv, SkipsBounded
  <2> HIDE DEF M, N, I, J
  <2>6. /\ at \in {"rows", "count"} => Cardinality(N) <= Cardinality(deleted')
        /\ at = "done" => Cardinality(J) <= Cardinality(deleted')
    BY <1>2, <2>1, <2>2, <2>3, <2>4, <2>5
  <2> QED
    BY <1>1, <1>3, <2>6 DEF SkipInv, SkipsBounded, N, J
<1> QED
  BY <1>4, <1>5, <1>6, <1>7

\* Postgres refuses an offset, which only one beyond the list comes to be, or
\* one of the queries fails.
LEMMA ListErrors ==
  ASSUME ListInv, OffsetInv, RepeatInv, SkipInv,
         ListRefused \/ ListFails \/ CountFails \/ UNCHANGED vars
  PROVE  (ListInv /\ OffsetInv /\ RepeatInv /\ SkipInv)'
<1>1. CASE ListRefused
  <2>1. /\ at = "rows" /\ at' = "refused" /\ offset < 0
        /\ UNCHANGED <<table, created, limit, offset, page, seen, repeats,
                       first, due, mark, deleted>>
    BY <1>1 DEF ListRefused, jobs, history
  <2>2. first \in Nat /\ MaxJobs \in Nat /\ offset \in Int
    BY Sizes
  <2>3. OffsetInv'
    BY <2>1, <2>2 DEF OffsetInv
  <2>4. ListInv'
    BY <2>1 DEF ListInv, TypeOK
  <2>5. RepeatInv' /\ SkipInv'
    BY <2>1 DEF RepeatInv, RepeatsBounded, SkipInv, SkipsBounded
  <2> QED
    BY <2>3, <2>4, <2>5
<1>2. CASE UNCHANGED vars
  <2>1. UNCHANGED <<table, created, at, limit, offset, page, seen, repeats,
                    first, due, mark, deleted>>
    BY <1>2 DEF vars, jobs, request, history
  <2>2. ListInv' /\ OffsetInv'
    BY <2>1 DEF ListInv, TypeOK, OffsetInv
  <2>3. NextAt' = NextAt /\ Received' = Received
    BY <2>1 DEF NextAt, Received
  <2>4. RepeatInv' /\ SkipInv'
    BY <2>1, <2>3 DEF RepeatInv, RepeatsBounded, SkipInv, SkipsBounded
  <2> QED
    BY <2>2, <2>4
<1>3. CASE ListFails \/ CountFails
  <2>1. /\ at \in {"rows", "count"} /\ at' = "failed" /\ page' = {}
        /\ UNCHANGED <<table, created, limit, offset, seen, repeats,
                       first, due, mark, deleted>>
    BY <1>3 DEF ListFails, CountFails, ListInv, jobs, history
  <2>2. OffsetInv' /\ RepeatInv' /\ SkipInv'
    BY <2>1 DEF OffsetInv, RepeatInv, RepeatsBounded, SkipInv, SkipsBounded
  <2>3. Cardinality(page') <= limit'
    <3>1. Cardinality(page') = 0
      BY <2>1, FS_EmptySet
    <3> QED
      BY <2>1, <3>1, Sizes
  <2>4. ListInv'
    BY <2>1, <2>3 DEF ListInv, TypeOK
  <2> QED
    BY <2>2, <2>4
<1> QED
  BY <1>1, <1>2, <1>3

LEMMA ListInit == Init => ListInv /\ OffsetInv /\ RepeatInv /\ SkipInv
<1> SUFFICES ASSUME Init PROVE ListInv /\ OffsetInv /\ RepeatInv /\ SkipInv
  OBVIOUS
<1>1. PICK half \in Int : half = 2^(Width - 1)
  BY ListingAssumption
<1>2. /\ created \in 0..MaxJobs /\ table = 1..created /\ at = "idle"
      /\ limit = DefaultLimit /\ offset = 0 /\ page = {} /\ seen = {}
      /\ repeats = 0 /\ first = 0 /\ due = {} /\ mark = 0 /\ deleted = {}
  BY DEF Init
<1>3. /\ MaxJobs \in Nat /\ MaxLimit \in Nat \ {0}
      /\ DefaultLimit \in 1..MaxLimit /\ MaxJobs + MaxLimit < half
  BY <1>1, ListingAssumption
<1>4. offset \in -(2^(Width - 1))..(2^(Width - 1) - 1)
  <2>1. 0 \in (-half)..(half - 1)
    BY <1>3
  <2> QED
    BY <1>1, <1>2, <2>1
<1>5. Cardinality(page) = 0
  BY <1>2, FS_EmptySet
<1>6. ListInv
  BY <1>2, <1>3, <1>4, <1>5 DEF ListInv, TypeOK
<1>7. OffsetInv /\ RepeatInv /\ SkipInv
  BY <1>2 DEF OffsetInv, RepeatInv, RepeatsBounded, SkipInv, SkipsBounded
<1> QED
  BY <1>6, <1>7

LEMMA ListAlways ==
  Spec => [](ListInv /\ OffsetInv /\ RepeatInv /\ SkipInv)
<1>1. ListInv /\ OffsetInv /\ RepeatInv /\ SkipInv /\ [Next]_vars
        => (ListInv /\ OffsetInv /\ RepeatInv /\ SkipInv)'
  BY ListBegin, ListQuery, ListCount, ListCreate, ListCleanup, ListErrors
     DEF Next, Walk
<1> QED
  BY ListInit, <1>1, PTL DEF Spec

\* Types: the offsets of a walk fit their integers and no page is longer than
\* the limit, for integers of every width.
THEOREM ListingTypes == Spec => []TypeOK
<1>1. ListInv => TypeOK
  BY DEF ListInv
<1> QED
  BY <1>1, ListAlways, PTL

\* A client that began within the list never sees its offset overflow: the
\* narrowing to int32 and the addition in int32 turn negative only offsets
\* beyond any list, so the database refuses no others, whichever queries fail
\* for other reasons.
THEOREM NearOffsetsAccepted == Spec => []OnlyFarOffsetsRefused
<1>1. OffsetInv => OnlyFarOffsetsRefused
  BY DEF OffsetInv, OnlyFarOffsetsRefused
<1> QED
  BY <1>1, ListAlways, PTL

\* Rows are repeated only because jobs were created between the requests, or
\* between the two queries of one, and never more of them.
THEOREM RepeatsAreBounded == Spec => []RepeatsBounded
<1>1. RepeatInv => RepeatsBounded
  BY DEF RepeatInv
<1> QED
  BY <1>1, ListAlways, PTL

\* Rows are skipped only because jobs were deleted meanwhile, and never more
\* of them, although the end of the walk is decided on a total that was
\* counted after the page was read.
THEOREM SkipsAreBounded == Spec => []SkipsBounded
<1>1. SkipInv => SkipsBounded
  BY DEF SkipInv
<1> QED
  BY <1>1, ListAlways, PTL

=============================================================================
