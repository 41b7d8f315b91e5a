----------------------------- MODULE MCAuditTrail -----------------------------
(* Instances of AuditTrail for TLC: which request is whose, and how long.   *)
EXTENDS AuditTrail

CONSTANTS r1, r2, r3, t1, t2, rdA, rdB

\* the second request is another tenant's, and of another round
TwoTenants == [r \in Requests |-> IF r = r2 THEN t2 ELSE t1]
RoundsABA == [r \in Requests |-> IF r = r2 THEN rdB ELSE rdA]

\* single-item requests
Singles == [r \in Requests |-> 1]

\* two batches of two beside a single-item request
TwoBatches == [r \in Requests |-> IF r = r2 THEN 1 ELSE 2]
=============================================================================
