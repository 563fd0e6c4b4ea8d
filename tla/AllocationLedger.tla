--------------------------- MODULE AllocationLedger ---------------------------
(***************************************************************************)
(* What the allocations table is for, said without requests, statements or *)
(* transactions: a ledger in which allocations are granted while there is  *)
(* room for them on every day they cover, and closed once.                 *)
(*                                                                         *)
(* The code checks more than this asks: it adds up every allocation that   *)
(* overlaps the requested period anywhere, also two that never meet.       *)
(***************************************************************************)
EXTENDS UtilisationCalculator

CONSTANTS
  Ids,      \* ids that can be granted
  Rows,     \* rows a grant may record
  Dates     \* days of the calendar

VARIABLE ledger

Grant(id, row) ==
  /\ id \notin DOMAIN ledger
  /\ row.status = "ACTIVE"
  /\ \A d \in Dates : Covers(row, d) =>
       ComputeUtilisationOn(ledger, row.user_id, d) + row.utilisation_percent
         <= MaxUtilisationPercent
  /\ ledger' = [i \in DOMAIN ledger \cup {id} |-> IF i = id THEN row ELSE ledger[i]]

\* Some active allocations of one engineer end, all on the same day.
Close(user, S, day) ==
  /\ S # {}
  /\ S \subseteq FindActiveByUser(ledger, user)
  /\ ledger' = [i \in DOMAIN ledger |->
       IF i \in S THEN [ledger[i] EXCEPT !.status = "ENDED", !.to_date = day] ELSE ledger[i]]

Init == ledger = [i \in {} |-> i]

Next ==
  \/ \E id \in Ids, row \in Rows : Grant(id, row)
  \/ \E S \in SUBSET DOMAIN ledger, day \in Dates : \E i \in S : Close(ledger[i].user_id, S, day)

Spec == Init /\ [][Next]_ledger

=============================================================================
