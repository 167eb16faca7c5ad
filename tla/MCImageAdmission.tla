-------------------------- MODULE MCImageAdmission --------------------------
(* Instances of ImageAdmission for TLC. *)
EXTENDS ImageAdmission, TLC

CONSTANTS r1, r2, r3, r4

\* r1 and r2 are one user's, r3 and r4 another's.
TwoUsers == [r \in Requests |-> IF r \in {r1, r2} THEN "alice" ELSE "bob"]
=============================================================================
