------------------------ MODULE UtilisationCalculator ------------------------
(***************************************************************************)
(* The allocation rules that hold no state: which days an allocation       *)
(* covers, which rows the repository selects, and the percentage they add  *)
(* up to.                                                                  *)
(*                                                                         *)
(* `table' is the allocations table: a function from the ids of the rows   *)
(* that exist to the rows.  Dates are numbered days, NoDate is a NULL      *)
(* to_date (an allocation without an end).                                 *)
(*                                                                         *)
(* Percentages are counted as sets of points: a row of p percent holds the *)
(* points <<id, 1>>, ..., <<id, p>>, and a total is the number of points   *)
(* of a set of rows.  That makes the sums of the code a cardinality, which *)
(* the proofs can reason about without induction.                          *)
(***************************************************************************)
EXTENDS Integers, FiniteSets

CONSTANTS
  MaxUtilisationPercent,   \* 100 in the code; smaller units in small instances
  NoDate                   \* to_date is NULL

ASSUME MaxAssumption == MaxUtilisationPercent \in Nat \ {0}
ASSUME NoDateAssumption == NoDate \notin Int

(***************************************************************************)
(* Days.                                                                   *)
(***************************************************************************)

\* The day lies in [from_date, to_date], NoDate standing for no upper end.
Covers(row, day) ==
  /\ row.from_date <= day
  /\ row.to_date # NoDate => day <= row.to_date

\* Allocation.is_active_on
IsActiveOn(row, day) ==
  /\ row.status = "ACTIVE"
  /\ Covers(row, day)

\* Mutated form: an allocation no longer counts on its last day.
OverlapsPeriodExclusive(row, from, to) ==
  /\ row.status = "ACTIVE"
  /\ to # NoDate => row.from_date <= to
  /\ row.to_date # NoDate => from < row.to_date

\* Allocation.overlaps_period
OverlapsPeriod(row, from, to) ==
  /\ row.status = "ACTIVE"
  /\ to # NoDate => row.from_date <= to
  /\ row.to_date # NoDate => from <= row.to_date

(***************************************************************************)
(* Repository selections.                                                  *)
(***************************************************************************)

FindActiveByUser(table, user) ==
  {i \in DOMAIN table : table[i].user_id = user /\ table[i].status = "ACTIVE"}

FindOverlapping(table, user, from, to) ==
  {i \in FindActiveByUser(table, user) : OverlapsPeriod(table[i], from, to)}

ActiveOn(table, user, day) ==
  {i \in FindActiveByUser(table, user) : IsActiveOn(table[i], day)}

(***************************************************************************)
(* Totals and the cap.                                                     *)
(***************************************************************************)

Points(table, S) ==
  {p \in S \X (1 .. MaxUtilisationPercent) : p[2] <= table[p[1]].utilisation_percent}

TotalPercent(table, S) == Cardinality(Points(table, S))

\* UtilisationCalculator.compute_utilisation_on
ComputeUtilisationOn(table, user, day) ==
  TotalPercent(table, ActiveOn(table, user, day))

\* UtilisationCalculator.validate_new_allocation, for a requested row.
ValidateNewAllocation(table, row) ==
  /\ row.utilisation_percent \in 1 .. MaxUtilisationPercent
  /\ row.to_date # NoDate => row.from_date <= row.to_date
  /\ LET overlapping == FindOverlapping(table, row.user_id, row.from_date, row.to_date)
     IN  TotalPercent(table, overlapping) + row.utilisation_percent
           <= MaxUtilisationPercent

=============================================================================
