----------------------------- MODULE MCPayroll -----------------------------
(* Instances of the payroll for TLC. *)
EXTENDS Payroll, TLC

CONSTANTS p1, p2, r1, r2, e1, a1, a2, a3, q1, q2

OneEngagement == [p \in Payables |-> e1]

\* Action constraint: members of the staff are alike, so the creator of a run is
\* called a1, and a reviewer who is somebody else a2.
Named == \A r \in Runs : creator'[r] \in {a1, None} /\ reviewer'[r] \in {a1, a2, None}
=============================================================================
