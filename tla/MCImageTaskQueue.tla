-------------------------- MODULE MCImageTaskQueue --------------------------
(* Instances of ImageTaskQueue for TLC. *)
EXTENDS ImageTaskQueue, TLC

CONSTANTS n1, n2, w2, s2

\* Worker w2 and sweeper s2 are on the second node, everybody else on the first.
TwoNodes == [a \in Actors |-> IF a \in {w2, s2} THEN n2 ELSE n1]

OneNode == [a \in Actors |-> n1]

=============================================================================
