----------------------------- MODULE TaskLedger -----------------------------
(***************************************************************************)
(* What the asynchronous tasks of the tasks table promise about money.  A  *)
(* task is charged when it is stored.  It ends once, in SUCCESS or in      *)
(* FAILURE.  Its charge is then dealt with at most once, in the way its    *)
(* outcome calls for: settled after a success, refunded (or kept, when the *)
(* failure is the user's) after a failure, and never before the outcome is *)
(* in the table.  This is the contract service/task_lifecycle.go states    *)
(* for TransitionTaskStatus: "the single CAS boundary for tasks stored in  *)
(* the shared tasks table.  Billing must only run after this function      *)
(* returns true".                                                          *)
(***************************************************************************)
CONSTANT Tasks

VARIABLES
    outcome,     \* outcome[t]: none (not stored), pending, SUCCESS or FAILURE
    bill         \* bill[t]: held until the charge of t has been dealt with

vars == <<outcome, bill>>

Outcomes == {"none", "pending", "SUCCESS", "FAILURE"}
Bills == {"held", "settled", "refunded", "kept"}

TypeOK == outcome \in [Tasks -> Outcomes] /\ bill \in [Tasks -> Bills]

Init ==
    /\ outcome = [t \in Tasks |-> "none"]
    /\ bill = [t \in Tasks |-> "held"]

Submit(t) ==
    /\ outcome[t] = "none"
    /\ outcome' = [outcome EXCEPT ![t] = "pending"]
    /\ UNCHANGED bill

End(t, result) ==
    /\ outcome[t] = "pending"
    /\ outcome' = [outcome EXCEPT ![t] = result]
    /\ UNCHANGED bill

\* How the charge of a task with this outcome may be dealt with.
Ways(result) ==
    IF result = "SUCCESS" THEN {"settled"}
    ELSE IF result = "FAILURE" THEN {"refunded", "kept"} ELSE {}

Bill(t) ==
    /\ bill[t] = "held"
    /\ \E way \in Ways(outcome[t]) : bill' = [bill EXCEPT ![t] = way]
    /\ UNCHANGED outcome

Next ==
    \E t \in Tasks :
        Submit(t) \/ Bill(t) \/ \E result \in {"SUCCESS", "FAILURE"} : End(t, result)

Spec == Init /\ [][Next]_vars
=============================================================================
