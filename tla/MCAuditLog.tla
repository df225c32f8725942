----------------------------- MODULE MCAuditLog -----------------------------
(* Instances of AuditLog for TLC.                                           *)
EXTENDS AuditLog

\* Events of two tenants, and one the service refuses.
EventSet   == 1..3
TwoTenants == [e \in EventSet |-> IF e = 2 THEN 2 ELSE 1]
OneProcess == [e \in EventSet |-> "a"]
=============================================================================
