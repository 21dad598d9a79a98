---------------------------- MODULE MCAuditPath ----------------------------
(* Instances of AuditPath for TLC. *)
EXTENDS AuditPath, TLC

CONSTANTS t1, t2, p1

OneProcess == t1 :> p1 @@ t2 :> p1
OneThread == t1 :> p1

=============================================================================
