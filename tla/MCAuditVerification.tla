------------------------ MODULE MCAuditVerification ------------------------
(***************************************************************************)
(* Instances of AuditVerification for TLC: a table that is empty or holds  *)
(* a row of earlier traffic.                                               *)
(***************************************************************************)
EXTENDS AuditVerification

EmptyOrUsed == {0, 1}
=============================================================================
