--------------------------- MODULE ImageAdmission ---------------------------
(***************************************************************************)
(* Admission to the image task queue.  A request is checked against the    *)
(* limits, charged, and stored by a transaction that takes a lock, counts  *)
(* the active tasks again and inserts the row; whatever goes wrong, the    *)
(* handler gives the charge back.  What the lock guarantees depends on the *)
(* database: Postgres holds its advisory lock until the transaction ends,  *)
(* MySQL's named lock is released when the callback returns, which is      *)
(* before the commit, and SQLite has a mutex, released at the same point,  *)
(* and refuses the write of a transaction that has read an older state.    *)
(*                                                                         *)
(* Each action is one statement; the two counts of a check are one.  A     *)
(* count sees the committed rows.  The charge is BillingSession's affair   *)
(* and one step here.                                                      *)
(***************************************************************************)
EXTENDS Naturals, FiniteSets

CONSTANTS
    Requests,
    UserOf,        \* UserOf[r]
    SyncWait,      \* the requests that wait for their image (image_sync_wait)
    Free,          \* the requests for a free model
    Databases,     \* the databases it may run on: postgres, mysql, sqlite
    GlobalLimit,   \* IMAGE_ASYNC_MAX_QUEUED_GLOBAL, 0 for none
    SyncLimit,     \* IMAGE_SYNC_MAX_BACKLOG
    PerUserLimit,  \* IMAGE_ASYNC_MAX_QUEUED_PER_USER, 0 for none
    MaxFaults      \* bound on the errors

ASSUME RequestAssumption ==
    /\ IsFiniteSet(Requests) /\ "none" \notin Requests
    /\ SyncWait \subseteq Requests /\ Free \subseteq Requests
ASSUME DatabaseAssumption == Databases \subseteq {"postgres", "mysql", "sqlite"}
ASSUME LimitAssumption ==
    /\ GlobalLimit \in Nat /\ SyncLimit \in Nat /\ PerUserLimit \in Nat
    /\ MaxFaults \in Nat

VARIABLES
    db,          \* the database of this installation
    pc,          \* pc[r]: where the handler of r is
    charge,      \* charge[r]: none, held or refunded
    lock,        \* the request that holds the admission lock
    active,      \* the committed rows that are SUBMITTED, QUEUED or IN_PROGRESS
    stored,      \* history: the rows that were ever committed
    stale,       \* the transactions that have counted before the last commit
    faults

vars == <<db, pc, charge, lock, active, stored, stale, faults>>

Unlocked == "none"
PCs == {"new", "checked", "charged", "locked", "counted", "inserted", "released",
        "accepted", "rejected"}

TypeOK ==
    /\ db \in Databases
    /\ pc \in [Requests -> PCs]
    /\ charge \in [Requests -> {"none", "held", "refunded"}]
    /\ lock \in Requests \cup {Unlocked}
    /\ active \in SUBSET Requests
    /\ stored \in SUBSET Requests
    /\ stale \in SUBSET Requests
    /\ faults \in 0..MaxFaults

Init ==
    /\ db \in Databases
    /\ pc = [r \in Requests |-> "new"]
    /\ charge = [r \in Requests |-> "none"]
    /\ lock = Unlocked
    /\ active = {} /\ stored = {} /\ stale = {}
    /\ faults = 0

Fault == faults < MaxFaults /\ faults' = faults + 1

Goto(r, where) == pc' = [pc EXCEPT ![r] = where]

\* Mutant: the charge is kept.
RefundedNever(r) == charge[r]

\* MaybeRefundBilling; the reasons for which it keeps a charge do not occur here.
Refunded(r) == IF charge[r] = "held" THEN "refunded" ELSE charge[r]

\* Mutant: an error path that forgets the lock.
LockAfterRejectKept(r) == lock

\* The deferred release() and the rollback.
LockAfterReject(r) == IF lock = r THEN Unlocked ELSE lock

\* The handler returns an error: the transaction, if any, is rolled back and
\* gives up its lock, and what was charged is given back.
Reject(r) ==
    /\ Goto(r, "rejected")
    /\ charge' = [charge EXCEPT ![r] = Refunded(r)]
    /\ lock' = LockAfterReject(r)
    /\ stale' = stale \ {r}
    /\ UNCHANGED <<active, stored>>

-----------------------------------------------------------------------------

Limit(r) == IF r \in SyncWait THEN SyncLimit ELSE GlobalLimit

ActiveOf(u) == {r \in active : UserOf[r] = u}

\* There is a place for one more task of r's user.
Room(r) ==
    /\ Limit(r) > 0 => Cardinality(active) < Limit(r)
    /\ PerUserLimit > 0 => Cardinality(ActiveOf(UserOf[r])) < PerUserLimit

\* enforceImageTaskAdmission.
PreCheck(r) ==
    /\ pc[r] = "new"
    /\ \/ /\ Room(r) /\ Goto(r, "checked")
          /\ UNCHANGED <<charge, lock, active, stored, stale, faults>>
       \/ ~Room(r) /\ Reject(r) /\ UNCHANGED faults
       \/ Fault /\ Reject(r)

\* Mutant: a free model gets a state of its own, which nothing else knows.
ChargedRaw(r) == IF r \in Free THEN "free" ELSE "held"

Charged(r) == IF r \in Free THEN "none" ELSE "held"

\* PreConsumeBilling, unless the model is free; it may refuse.
PreConsume(r) ==
    /\ pc[r] = "checked"
    /\ \/ /\ Goto(r, "charged")
          /\ charge' = [charge EXCEPT ![r] = Charged(r)]
          /\ UNCHANGED <<lock, active, stored, stale, faults>>
       \/ Fault /\ Reject(r)

\* lockImageTaskAdmission.  The fault is a request that cannot be stored, a
\* transaction that does not start, or a lock that is not granted in time.
AcquireLock(r) ==
    /\ pc[r] = "charged"
    /\ \/ /\ lock = Unlocked /\ lock' = r
          /\ Goto(r, "locked")
          /\ UNCHANGED <<charge, active, stored, stale, faults>>
       \/ Fault /\ Reject(r)

\* The counts of InsertImageTaskWithAdmission.
Count(r) ==
    /\ pc[r] = "locked"
    /\ \/ /\ Room(r) /\ Goto(r, "counted")
          /\ UNCHANGED <<charge, lock, active, stored, stale, faults>>
       \/ ~Room(r) /\ Reject(r) /\ UNCHANGED faults
       \/ Fault /\ Reject(r)

\* SQLite: another connection is writing, or has written since r has counted.
Busy(r) ==
    /\ db = "sqlite"
    /\ r \in stale \/ \E q \in Requests \ {r} : pc[q] \in {"inserted", "released"}

\* tx.Create.
Insert(r) ==
    /\ pc[r] = "counted"
    /\ \/ /\ ~Busy(r) /\ Goto(r, "inserted")
          /\ UNCHANGED <<charge, lock, active, stored, stale, faults>>
       \/ Busy(r) /\ Reject(r) /\ UNCHANGED faults
       \/ Fault /\ Reject(r)

\* Mutant: the lock is given up before the commit.
LockAfterReleaseEarly(r) == Unlocked

\* The deferred release(): nothing to do for Postgres.
LockAfterRelease(r) == IF db = "postgres" THEN r ELSE Unlocked

Release(r) ==
    /\ pc[r] = "inserted"
    /\ lock' = LockAfterRelease(r)
    /\ Goto(r, "released")
    /\ UNCHANGED <<charge, active, stored, stale, faults>>

\* The transaction commits, which ends a lock it holds; an error is a rollback.
\* The handler then enqueues the task and answers.
Commit(r) ==
    /\ pc[r] = "released"
    /\ \/ /\ active' = active \cup {r}
          /\ stored' = stored \cup {r}
          /\ lock' = IF lock = r THEN Unlocked ELSE lock
          /\ stale' = {q \in Requests \ {r} : pc[q] = "counted"} \cup (stale \ {r})
          /\ Goto(r, "accepted")
          /\ UNCHANGED <<charge, faults>>
       \/ Fault /\ Reject(r)

\* A worker or the sweep ends the task.
EndTask(r) ==
    /\ r \in active
    /\ active' = active \ {r}
    /\ stale' = stale \cup {q \in Requests : pc[q] = "counted"}
    /\ UNCHANGED <<db, pc, charge, lock, stored, faults>>

RequestStep(r) ==
    /\ PreCheck(r) \/ PreConsume(r) \/ AcquireLock(r) \/ Count(r) \/ Insert(r)
       \/ Release(r) \/ Commit(r)
    /\ UNCHANGED db

Next == \E r \in Requests : RequestStep(r) \/ EndTask(r)

Spec == Init /\ [][Next]_vars

\* A handler runs to its end, and the lock is granted to somebody when it is
\* free.  Nothing is assumed of the workers.
FairSpec == Spec /\ \A r \in Requests : WF_vars(RequestStep(r))

-----------------------------------------------------------------------------
(* Properties *)

Within(r) ==
    /\ Limit(r) > 0 => Cardinality(active) <= Limit(r)
    /\ PerUserLimit > 0 => Cardinality(ActiveOf(UserOf[r])) <= PerUserLimit

\* A request is admitted only if the queue, with its task, is within the limits
\* that apply to it, at the moment its row becomes visible: however many API
\* processes count and insert at the same time.
AdmittedWithinLimits ==
    [][\A r \in Requests : (r \in active' /\ r \notin active) => Within(r)']_vars

\* The charge of a request follows its row: what is stored is paid for, and a
\* request that was refused owes nothing, whichever statement refused it.
ChargeFollowsRow ==
    \A r \in Requests :
        /\ r \in stored => charge[r] = "held" \/ r \in Free
        /\ pc[r] = "accepted" <=> r \in stored
        /\ pc[r] = "rejected" => charge[r] # "held"

\* Every request is answered: no error path leaves the lock behind.
EveryRequestAnswered ==
    \A r \in Requests : <>(pc[r] \in {"accepted", "rejected"})
=============================================================================
