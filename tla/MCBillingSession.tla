-------------------------- MODULE MCBillingSession --------------------------
(* Instances of BillingSession for TLC. *)
EXTENDS BillingSession, TLC

\* Requests of the same user are interchangeable.
RequestSymmetry == Permutations(Requests)

\* A reservation that is refused and rolled back may be repeated, and after a stale
\* save the clamp may keep its roll back each time.
MaxClamped == 1
BoundedClamp == \A r \in Requests : net[r].clamped <= MaxClamped

\* Either a reset time goes by, on the subscription that ends first, or statements fail.
ResetOrFaults ==
    \A k \in SubIds : period[k] > 0 => k = 1 /\ \A r \in Requests : faults[r] = 0

Followed == BoundedClamp /\ ResetOrFaults
=============================================================================
