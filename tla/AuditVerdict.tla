---------------------------- MODULE AuditVerdict ----------------------------
(***************************************************************************)
(* What check_bq.py promises, whatever transports it goes through: it has  *)
(* counted rows or it has not, rows once counted stay counted, and the one *)
(* report it makes agrees with that.  "pass" needs rows that were counted  *)
(* in an audit table that has them; "empty" is only said when nothing was  *)
(* counted; "failed" and "unset" may be said at any time.                  *)
(***************************************************************************)
EXTENDS Naturals

VARIABLES
  rows,     \* rows of the audit table
  counted,  \* some transport has counted rows
  report

vars == <<rows, counted, report>>

Init == rows \in Nat /\ counted = FALSE /\ report = "none"

\* The gateway streams a row.
Stream == rows' = rows + 1 /\ UNCHANGED <<counted, report>>

Count ==
  /\ report = "none"
  /\ rows > 0
  /\ counted' = TRUE
  /\ UNCHANGED <<rows, report>>

Report ==
  /\ report = "none"
  /\ report' \in {"failed", "unset"} \union (IF counted THEN {"pass"} ELSE {"empty"})
  /\ UNCHANGED <<rows, counted>>

Next == Stream \/ Count \/ Report
Spec == Init /\ [][Next]_vars
=============================================================================
