--------------------- MODULE UtilisationCalculator_proofs ---------------------
(***************************************************************************)
(* Lemmas about totals of percentages, and what validate_new_allocation    *)
(* guarantees, for every table and every cap.                              *)
(***************************************************************************)
EXTENDS UtilisationCalculator, TLAPS, FiniteSetTheorems, WellFoundedInduction

-----------------------------------------------------------------------------
(***************************************************************************)
(* Least and greatest ids.                                                 *)
(***************************************************************************)

\* A set of ids that is not empty has a least one.
LEMMA LeastExists ==
  ASSUME NEW S, S \subseteq Nat, S # {}
  PROVE  \E i \in S : \A j \in S : i <= j
<1>1. PICK i \in S : \A j \in S : ~ (<<j, i>> \in OpToRel(<, Nat))
  BY NatLessThanWellFounded, WFMin, Zenon
<1>2. \A j \in S : ~ (j < i)
  BY <1>1 DEF OpToRel
<1> QED
  BY <1>2

\* A set of ids that is bounded and not empty has a greatest one.
LEMMA GreatestExists ==
  ASSUME NEW N \in Nat, NEW S, S \subseteq 1 .. N, S # {}
  PROVE  \E m \in S : \A j \in S : j <= m
<1> DEFINE Above == {k \in Nat : \A j \in S : j <= k}
<1>1. Above \subseteq Nat /\ N \in Above
  OBVIOUS
<1>2. PICK k \in Above : \A n \in Above : k <= n
  BY <1>1, LeastExists
<1>3. k \in S
  <2>1. SUFFICES ASSUME k \notin S PROVE FALSE
    OBVIOUS
  <2>2. \A j \in S : j <= k - 1
    BY <2>1
  <2>3. PICK j \in S : j \in 1 .. N /\ j <= k - 1
    BY <2>2
  <2>4. k - 1 \in Above
    BY <2>2, <2>3
  <2> QED
    BY <1>2, <2>4
<1> QED
  BY <1>3

\* So has a set that is finite and not empty, whatever bounds it.
LEMMA FiniteGreatest ==
  ASSUME NEW S, S \subseteq Nat, IsFiniteSet(S), S # {}
  PROVE  \E m \in S : \A j \in S : j <= m
<1> DEFINE Tail(k) == {j \in S : k <= j}
           Tails == {Tail(k) : k \in S}
<1>1. IsWellFoundedOn(StrictSubsetOrdering(S), FiniteSubsetsOf(S))
  BY FS_StrictSubsetOrderingWellFounded
<1>2. Tails \subseteq FiniteSubsetsOf(S) /\ Tails # {}
  <2>1. ASSUME NEW k \in S PROVE Tail(k) \in FiniteSubsetsOf(S)
    <3>1. Tail(k) \in SUBSET S
      OBVIOUS
    <3>2. IsFiniteSet(Tail(k))
      BY <3>1, FS_Subset
    <3> QED
      BY <3>1, <3>2 DEF FiniteSubsetsOf
  <2> QED
    BY <2>1
<1>3. PICK T \in Tails : \A U \in Tails : ~ (<<U, T>> \in StrictSubsetOrdering(S))
  <2> HIDE DEF Tails
  <2> QED
    BY <1>1, <1>2, WFMin, Zenon
<1>4. PICK m \in S : T = Tail(m)
  BY <1>3
<1>5. ASSUME NEW j \in S, ~ (j <= m) PROVE FALSE
  <2>1. Tail(j) \in SUBSET S /\ T \in SUBSET S
    BY <1>4
  <2>2. ASSUME NEW k \in Tail(j) PROVE k \in T
    <3>1. j \in Nat /\ k \in Nat /\ m \in Nat /\ j <= k
      OBVIOUS
    <3> QED
      BY <1>4, <1>5, <3>1
  <2>3. m \in T /\ m \notin Tail(j)
    BY <1>4, <1>5
  <2>4. <<Tail(j), T>> \in StrictSubsetOrdering(S)
    BY <2>1, <2>2, <2>3 DEF StrictSubsetOrdering
  <2> QED
    BY <1>3, <2>4
<1> QED
  BY <1>5

-----------------------------------------------------------------------------
(***************************************************************************)
(* Totals.                                                                 *)
(***************************************************************************)

\* A finite set of rows has a total.
LEMMA TotalType ==
  ASSUME NEW table, NEW S, IsFiniteSet(S)
  PROVE  IsFiniteSet(Points(table, S)) /\ TotalPercent(table, S) \in Nat
<1> DEFINE All == S \X (1 .. MaxUtilisationPercent)
<1>1. IsFiniteSet(1 .. MaxUtilisationPercent)
  BY MaxAssumption, FS_Interval
<1>2. IsFiniteSet(All)
  BY <1>1, FS_Product
<1>3. Points(table, S) \in SUBSET All
  BY DEF Points
<1>4. IsFiniteSet(Points(table, S))
  BY <1>2, <1>3, FS_Subset
<1> QED
  BY <1>4, FS_CardinalityType DEF TotalPercent

\* More rows, in a table that has them with the same percentages, never total less.
LEMMA TotalMonotone ==
  ASSUME NEW table, NEW other, NEW S, NEW T, IsFiniteSet(T), S \subseteq T,
         \A i \in S : table[i].utilisation_percent = other[i].utilisation_percent
  PROVE  TotalPercent(table, S) <= TotalPercent(other, T)
<1>1. Points(table, S) \in SUBSET Points(other, T)
  BY DEF Points
<1>2. IsFiniteSet(Points(other, T))
  BY TotalType
<1> QED
  BY <1>1, <1>2, FS_Subset DEF TotalPercent

\* One more row adds at most its percentage.
LEMMA TotalAdd ==
  ASSUME NEW table, NEW S, IsFiniteSet(S), NEW m,
         table[m].utilisation_percent \in 1 .. MaxUtilisationPercent
  PROVE  TotalPercent(table, S \cup {m})
           <= TotalPercent(table, S) + table[m].utilisation_percent
<1> DEFINE p == table[m].utilisation_percent
           Own == {m} \X (1 .. p)
<1>1. IsFiniteSet(1 .. p) /\ Cardinality(1 .. p) = p
  <2> HIDE DEF p
  <2>1. p \in Nat \ {0}
    BY MaxAssumption DEF p
  <2> QED
    BY <2>1, FS_Interval
<1>2. IsFiniteSet(Own) /\ Cardinality(Own) = p
  <2> HIDE DEF p
  <2>1. p \in Nat \ {0}
    BY MaxAssumption DEF p
  <2>2. IsFiniteSet({m}) /\ Cardinality({m}) = 1
    BY FS_Singleton
  <2>3. /\ IsFiniteSet(Own)
        /\ Cardinality(Own) = Cardinality({m}) * Cardinality(1 .. p)
    BY <1>1, <2>2, FS_Product, Zenon
  <2>4. Cardinality(Own) = 1 * p
    BY <1>1, <2>2, <2>3, Zenon
  <2> QED
    BY <2>1, <2>3, <2>4
<1>3. IsFiniteSet(Points(table, S)) /\ TotalPercent(table, S) \in Nat
  BY TotalType
<1>4. Points(table, S \cup {m}) \in SUBSET (Points(table, S) \cup Own)
  BY DEF Points
<1>5. /\ IsFiniteSet(Points(table, S) \cup Own)
      /\ Cardinality(Points(table, S) \cup Own) <= TotalPercent(table, S) + p
  <2> HIDE DEF Own, p
  <2>1. IsFiniteSet(Points(table, S) \cap Own)
    BY <1>3, FS_Intersection
  <2>2. Cardinality(Points(table, S) \cap Own) \in Nat
    BY <2>1, FS_CardinalityType
  <2>3. p \in Nat
    BY MaxAssumption DEF p
  <2>4. /\ IsFiniteSet(Points(table, S) \cup Own)
        /\ Cardinality(Points(table, S) \cup Own)
             = Cardinality(Points(table, S)) + Cardinality(Own)
                 - Cardinality(Points(table, S) \cap Own)
    BY <1>2, <1>3, FS_Union
  <2> QED
    BY <1>2, <1>3, <2>2, <2>3, <2>4 DEF TotalPercent
<1>6. Cardinality(Points(table, S \cup {m})) <= Cardinality(Points(table, S) \cup Own)
  BY <1>4, <1>5, FS_Subset
<1>7. TotalPercent(table, S \cup {m}) \in Nat
  <2>1. IsFiniteSet(S \cup {m})
    BY FS_AddElement
  <2> QED
    BY <2>1, TotalType
<1>8. Cardinality(Points(table, S) \cup Own) \in Nat
  BY <1>5, FS_CardinalityType
<1> QED
  BY <1>3, <1>5, <1>6, <1>7, <1>8, MaxAssumption DEF TotalPercent

-----------------------------------------------------------------------------
(***************************************************************************)
(* The rule.                                                               *)
(***************************************************************************)

\* Two rows that cover the same day overlap.
LEMMA SameDayOverlaps ==
  ASSUME NEW row, NEW other, NEW d \in Int,
         row.from_date \in Int, row.to_date \in Int \cup {NoDate},
         other.from_date \in Int, other.to_date \in Int \cup {NoDate},
         Covers(row, d), Covers(other, d), other.status = "ACTIVE"
  PROVE  OverlapsPeriod(other, row.from_date, row.to_date)
<1> QED
  BY NoDateAssumption DEF Covers, OverlapsPeriod

\* What validate_new_allocation accepts fits under the cap on every day it covers,
\* beside what the engineer is allocated on that day, although the code never
\* looks at a day: it adds up whatever overlaps the requested period anywhere.
THEOREM ValidationKeepsEveryDay ==
  ASSUME NEW table, NEW row, NEW d \in Int,
         IsFiniteSet(DOMAIN table),
         \A i \in DOMAIN table :
           table[i].from_date \in Int /\ table[i].to_date \in Int \cup {NoDate},
         row.from_date \in Int, row.to_date \in Int \cup {NoDate},
         ValidateNewAllocation(table, row), Covers(row, d)
  PROVE  ComputeUtilisationOn(table, row.user_id, d) + row.utilisation_percent
           <= MaxUtilisationPercent
<1> DEFINE Day == ActiveOn(table, row.user_id, d)
           Period == FindOverlapping(table, row.user_id, row.from_date, row.to_date)
<1>1. Day \subseteq Period
  BY SameDayOverlaps DEF ActiveOn, FindActiveByUser, FindOverlapping, IsActiveOn
<1>2. IsFiniteSet(Period) /\ IsFiniteSet(Day)
  <2>1. Period \in SUBSET DOMAIN table /\ Day \in SUBSET DOMAIN table
    BY DEF ActiveOn, FindActiveByUser, FindOverlapping
  <2> QED
    BY <2>1, FS_Subset
<1>3. TotalPercent(table, Day) <= TotalPercent(table, Period)
  BY <1>1, <1>2, TotalMonotone
<1>4. TotalPercent(table, Day) \in Nat /\ TotalPercent(table, Period) \in Nat
  BY <1>2, TotalType
<1>5. /\ row.utilisation_percent \in 1 .. MaxUtilisationPercent
      /\ TotalPercent(table, Period) + row.utilisation_percent <= MaxUtilisationPercent
  BY DEF ValidateNewAllocation
<1> QED
  BY <1>3, <1>4, <1>5, MaxAssumption DEF ComputeUtilisationOn

=============================================================================
