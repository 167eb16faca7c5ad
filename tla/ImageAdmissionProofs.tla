------------------------ MODULE ImageAdmissionProofs ------------------------
(***************************************************************************)
(* Proofs about ImageAdmission, for any set of requests and any limits:    *)
(* type correctness, that the charge follows the row on every database,    *)
(* and that on Postgres and SQLite every admission is within its limits.   *)
(***************************************************************************)
EXTENDS ImageAdmission, FiniteSetTheorems, TLAPS

\* The requests whose transaction is open and past the lock.
InTransaction(r) == pc[r] \in {"locked", "counted", "inserted", "released"}

\* The transaction that has the lock is the only one open.
LockInv == \A r \in Requests : InTransaction(r) => lock = r

\* The room a transaction has counted is still there.
RoomInv == \A r \in Requests : pc[r] \in {"counted", "inserted", "released"} => Room(r)

\* The charge at every point of the handler.
ChargeInv ==
    \A r \in Requests :
        /\ pc[r] \in {"new", "checked"} => charge[r] = "none"
        /\ (InTransaction(r) \/ pc[r] \in {"charged", "accepted"}) => charge[r] = Charged(r)
        /\ pc[r] = "rejected" => charge[r] # "held"
        /\ pc[r] = "accepted" <=> r \in stored

-----------------------------------------------------------------------------
(* Type correctness *)

LEMMA RejectType ==
    ASSUME TypeOK, NEW r \in Requests, Reject(r)
    PROVE  /\ pc' \in [Requests -> PCs]
           /\ charge' \in [Requests -> {"none", "held", "refunded"}]
           /\ lock' \in Requests \cup {Unlocked}
           /\ active' \in SUBSET Requests /\ stored' \in SUBSET Requests
           /\ stale' \in SUBSET Requests
BY DEF TypeOK, Reject, Goto, PCs, Refunded, LockAfterReject

LEMMA DatabaseStays ==
    ASSUME [Next]_vars
    PROVE  db' = db
BY DEF Next, RequestStep, EndTask, vars

LEMMA TypeStep ==
    ASSUME TypeOK, [Next]_vars
    PROVE  TypeOK'
<1>1. CASE UNCHANGED vars
  BY <1>1 DEF vars, TypeOK
<1>2. CASE Next
  <2>0. db' \in Databases
    BY DatabaseStays DEF TypeOK
  <2>1. PICK r \in Requests : RequestStep(r) \/ EndTask(r)
    BY <1>2 DEF Next
  <2>2. Fault => faults' \in 0..MaxFaults
    BY LimitAssumption DEF Fault, TypeOK
  <2>3. CASE PreCheck(r)
    BY <2>0, <2>2, <2>3, RejectType DEF PreCheck, Goto, TypeOK, PCs
  <2>4. CASE PreConsume(r)
    BY <2>0, <2>2, <2>4, RejectType DEF PreConsume, Goto, TypeOK, PCs, Charged
  <2>5. CASE AcquireLock(r)
    BY <2>0, <2>2, <2>5, RejectType DEF AcquireLock, Goto, TypeOK, PCs
  <2>6. CASE Count(r)
    BY <2>0, <2>2, <2>6, RejectType DEF Count, Goto, TypeOK, PCs
  <2>7. CASE Insert(r)
    BY <2>0, <2>2, <2>7, RejectType DEF Insert, Goto, TypeOK, PCs
  <2>8. CASE Release(r)
    BY <2>0, <2>8 DEF Release, Goto, TypeOK, PCs, LockAfterRelease
  <2>9. CASE Commit(r)
    BY <2>0, <2>2, <2>9, RejectType DEF Commit, Goto, TypeOK, PCs
  <2>10. CASE EndTask(r)
    BY <2>0, <2>10 DEF EndTask, TypeOK
  <2> QED
    BY <2>1, <2>3, <2>4, <2>5, <2>6, <2>7, <2>8, <2>9, <2>10 DEF RequestStep
<1> QED
  BY <1>1, <1>2

\* The state of the admission stays within its types, whatever the database and
\* however many requests there are.
THEOREM AdmissionTypeCorrect == Spec => []TypeOK
<1>1. Init => TypeOK
  BY LimitAssumption DEF Init, TypeOK, PCs, Unlocked
<1>2. TypeOK /\ [Next]_vars => TypeOK'
  BY TypeStep
<1> QED
  BY <1>1, <1>2, PTL DEF Spec

-----------------------------------------------------------------------------
(* The charge follows the row *)

LEMMA ChargeStep ==
    ASSUME TypeOK, ChargeInv, [Next]_vars
    PROVE  ChargeInv'
<1>1. CASE UNCHANGED vars
  BY <1>1 DEF vars, ChargeInv, InTransaction, Charged
<1>2. CASE Next
  <2>1. PICK r \in Requests : RequestStep(r) \/ EndTask(r)
    BY <1>2 DEF Next
  <2>2. CASE Reject(r) /\ pc[r] \notin {"accepted", "rejected"}
    BY <2>2 DEF Reject, Goto, Refunded, ChargeInv, InTransaction, Charged, TypeOK
  <2>3. CASE PreCheck(r)
    BY <2>2, <2>3 DEF PreCheck, Goto, ChargeInv, InTransaction, Charged, TypeOK
  <2>4. CASE PreConsume(r)
    BY <2>2, <2>4 DEF PreConsume, Goto, ChargeInv, InTransaction, Charged, TypeOK
  <2>5. CASE AcquireLock(r)
    BY <2>2, <2>5 DEF AcquireLock, Goto, ChargeInv, InTransaction, Charged, TypeOK
  <2>6. CASE Count(r)
    BY <2>2, <2>6 DEF Count, Goto, ChargeInv, InTransaction, Charged, TypeOK
  <2>7. CASE Insert(r)
    BY <2>2, <2>7 DEF Insert, Goto, ChargeInv, InTransaction, Charged, TypeOK
  <2>8. CASE Release(r)
    BY <2>8 DEF Release, Goto, ChargeInv, InTransaction, Charged, TypeOK
  <2>9. CASE Commit(r)
    BY <2>2, <2>9 DEF Commit, Goto, ChargeInv, InTransaction, Charged, TypeOK
  <2>10. CASE EndTask(r)
    BY <2>10 DEF EndTask, ChargeInv, InTransaction, Charged
  <2> QED
    BY <2>1, <2>3, <2>4, <2>5, <2>6, <2>7, <2>8, <2>9, <2>10 DEF RequestStep
<1> QED
  BY <1>1, <1>2

\* On every database and along every error path of RelayImageTaskSubmit, a
\* stored task is paid for and a refused request owes nothing.
THEOREM AdmissionChargeFollowsRow == Spec => []ChargeFollowsRow
<1>1. Init => TypeOK /\ ChargeInv
  BY LimitAssumption DEF Init, TypeOK, PCs, Unlocked, ChargeInv, InTransaction
<1>2. TypeOK /\ ChargeInv /\ [Next]_vars => (TypeOK /\ ChargeInv)'
  BY TypeStep, ChargeStep
<1>3. ChargeInv => ChargeFollowsRow
  BY DEF ChargeInv, ChargeFollowsRow, Charged
<1> QED
  BY <1>1, <1>2, <1>3, PTL DEF Spec

-----------------------------------------------------------------------------
(* Admission within the limits, with Postgres' lock *)

LEMMA ActiveIsFinite ==
    ASSUME TypeOK
    PROVE  /\ IsFiniteSet(active) /\ Cardinality(active) \in Nat
           /\ \A u : IsFiniteSet(ActiveOf(u)) /\ Cardinality(ActiveOf(u)) \in Nat
<1>1. IsFiniteSet(active)
  BY RequestAssumption, FS_Subset DEF TypeOK
<1>2. ASSUME NEW u PROVE IsFiniteSet(ActiveOf(u))
  <2>1. ActiveOf(u) \in SUBSET active
    BY DEF ActiveOf
  <2> QED
    BY <1>1, <2>1, FS_Subset
<1> QED
  BY <1>1, <1>2, FS_CardinalityType

\* One more task takes no more than the room there was.
LEMMA CommitWithin ==
    ASSUME TypeOK, NEW r \in Requests, Room(r), active' = active \cup {r}
    PROVE  Within(r)'
<1> DEFINE u == UserOf[r]
<1>1. Cardinality(active') <= Cardinality(active) + 1
  <2>1. IsFiniteSet(active) /\ Cardinality(active) \in Nat
    BY ActiveIsFinite
  <2>2. Cardinality(active \cup {r}) =
          IF r \in active THEN Cardinality(active) ELSE Cardinality(active) + 1
    BY <2>1, FS_AddElement
  <2> QED
    BY <2>1, <2>2
<1>2. ActiveOf(u)' = ActiveOf(u) \cup {r}
  BY DEF ActiveOf
<1>3. Cardinality(ActiveOf(u)') <= Cardinality(ActiveOf(u)) + 1
  <2> HIDE DEF u
  <2>1. IsFiniteSet(ActiveOf(u)) /\ Cardinality(ActiveOf(u)) \in Nat
    BY ActiveIsFinite
  <2>2. Cardinality(ActiveOf(u) \cup {r}) =
          IF r \in ActiveOf(u) THEN Cardinality(ActiveOf(u)) ELSE Cardinality(ActiveOf(u)) + 1
    BY <2>1, FS_AddElement
  <2> QED
    BY <1>2, <2>1, <2>2
<1>4. Cardinality(active') \in Nat /\ Cardinality(ActiveOf(u)') \in Nat
  <2> HIDE DEF u
  <2> QED
    BY <1>2, ActiveIsFinite, FS_AddElement, FS_CardinalityType
<1>5. Limit(r) \in Nat /\ PerUserLimit \in Nat /\ Limit(r)' = Limit(r)
  BY LimitAssumption DEF Limit
<1>6. Limit(r) > 0 => Cardinality(active') <= Limit(r)
  BY <1>1, <1>4, <1>5, ActiveIsFinite DEF Room
<1>7. PerUserLimit > 0 => Cardinality(ActiveOf(u)') <= PerUserLimit
  BY <1>3, <1>4, <1>5, ActiveIsFinite DEF Room
<1> QED
  BY <1>5, <1>6, <1>7 DEF Within

\* A task that ends takes no room away.
LEMMA EndKeepsRoom ==
    ASSUME TypeOK, NEW r \in Requests, EndTask(r), NEW q \in Requests, Room(q)
    PROVE  Room(q)'
<1> DEFINE u == UserOf[q]
<1>1. active' \in SUBSET active /\ ActiveOf(u)' \in SUBSET ActiveOf(u)
  BY DEF EndTask, ActiveOf
<1>2. /\ Cardinality(active') \in Nat /\ Cardinality(active') <= Cardinality(active)
      /\ Cardinality(ActiveOf(u)') \in Nat
      /\ Cardinality(ActiveOf(u)') <= Cardinality(ActiveOf(u))
  <2> HIDE DEF u
  <2> QED
    BY <1>1, ActiveIsFinite, FS_Subset, FS_CardinalityType
<1>3. Limit(q) \in Nat /\ PerUserLimit \in Nat /\ Limit(q)' = Limit(q)
  BY LimitAssumption DEF Limit
<1> QED
  BY <1>2, <1>3, ActiveIsFinite DEF Room

LEMMA AdmissionStep ==
    ASSUME db = "postgres", TypeOK, LockInv, RoomInv, [Next]_vars
    PROVE  /\ LockInv' /\ RoomInv'
           /\ \A r \in Requests : (r \in active' /\ r \notin active) => Within(r)'
<1>1. CASE UNCHANGED vars
  BY <1>1 DEF vars, LockInv, RoomInv, InTransaction, Room, Limit, ActiveOf
<1>2. CASE Next
  <2>1. PICK r \in Requests : RequestStep(r) \/ EndTask(r)
    BY <1>2 DEF Next
  <2>2. active' = active => \A q \in Requests : Room(q)' = Room(q)
    BY DEF Room, Limit, ActiveOf
  <2>3. CASE Reject(r)
    BY <2>2, <2>3 DEF Reject, Goto, LockAfterReject, LockInv, RoomInv, InTransaction, TypeOK
  <2>4. CASE PreCheck(r)
    BY <2>2, <2>3, <2>4 DEF PreCheck, Goto, LockInv, RoomInv, InTransaction, TypeOK
  <2>5. CASE PreConsume(r)
    BY <2>2, <2>3, <2>5 DEF PreConsume, Goto, LockInv, RoomInv, InTransaction, TypeOK
  <2>6. CASE AcquireLock(r)
    BY <2>2, <2>3, <2>6, RequestAssumption
       DEF AcquireLock, Goto, LockInv, RoomInv, InTransaction, TypeOK, Unlocked
  <2>7. CASE Count(r)
    BY <2>2, <2>3, <2>7 DEF Count, Goto, LockInv, RoomInv, InTransaction, TypeOK
  <2>8. CASE Insert(r)
    BY <2>2, <2>3, <2>8 DEF Insert, Goto, LockInv, RoomInv, InTransaction, TypeOK
  <2>9. CASE Release(r)
    BY <2>2, <2>9 DEF Release, LockAfterRelease, Goto, LockInv, RoomInv, InTransaction, TypeOK
  <2>10. CASE Commit(r)
    <3>1. CASE active' = active \cup {r} /\ Goto(r, "accepted") /\ lock' = Unlocked /\ lock = r
      <4>1. \A q \in Requests : InTransaction(q) => q = r
        BY <3>1 DEF LockInv
      <4>2. LockInv' /\ RoomInv'
        BY <3>1, <4>1 DEF LockInv, RoomInv, InTransaction, Goto, TypeOK
      <4>3. Within(r)'
        BY <2>10, <3>1, CommitWithin DEF RoomInv, Commit
      <4> QED
        BY <3>1, <4>2, <4>3
    <3> QED
      BY <2>3, <2>10, <3>1 DEF Commit, LockInv, InTransaction
  <2>11. CASE EndTask(r)
    BY <2>11, EndKeepsRoom DEF EndTask, LockInv, RoomInv, InTransaction
  <2> QED
    BY <2>1, <2>4, <2>5, <2>6, <2>7, <2>8, <2>9, <2>10, <2>11 DEF RequestStep
<1> QED
  BY <1>1, <1>2

\* With a lock that lives as long as the transaction, no number of concurrent
\* requests, and no mixture of limits, admits a task beyond the limits that
\* apply to it.
THEOREM PostgresAdmitsWithinLimits ==
    Spec /\ db = "postgres" => AdmittedWithinLimits
<1> DEFINE Inv == db = "postgres" /\ TypeOK /\ LockInv /\ RoomInv
<1>1. Init /\ db = "postgres" => Inv
  BY LimitAssumption DEF Init, TypeOK, PCs, Unlocked, LockInv, RoomInv, InTransaction
<1>2. Inv /\ [Next]_vars => Inv'
  BY TypeStep, AdmissionStep, DatabaseStays
<1>3. Inv /\ [Next]_vars =>
        [\A r \in Requests : (r \in active' /\ r \notin active) => Within(r)']_vars
  BY AdmissionStep
<1> QED
  BY <1>1, <1>2, <1>3, PTL DEF Spec, AdmittedWithinLimits

-----------------------------------------------------------------------------
(***************************************************************************)
(* SQLite.  The mutex is given up before the commit and is not what keeps  *)
(* the limits: of two transactions that have counted, one writes first,    *)
(* the other may not write while that one is open, and not after its       *)
(* commit either, because it has counted before it.                        *)
(***************************************************************************)

Writing(r) == pc[r] \in {"inserted", "released"}

\* One transaction writes at a time, and it has room; one that has only counted
\* has room as long as nothing was committed since.
SnapshotInv ==
    /\ \A q, r \in Requests : Writing(q) /\ Writing(r) => q = r
    /\ \A r \in Requests : Writing(r) => Room(r)
    /\ \A r \in Requests : pc[r] = "counted" /\ r \notin stale => Room(r)

LEMMA SnapshotStep ==
    ASSUME db = "sqlite", TypeOK, SnapshotInv, [Next]_vars
    PROVE  /\ SnapshotInv'
           /\ \A r \in Requests : (r \in active' /\ r \notin active) => Within(r)'
<1>1. CASE UNCHANGED vars
  BY <1>1 DEF vars, SnapshotInv, Writing, Room, Limit, ActiveOf
<1>2. CASE Next
  <2>1. PICK r \in Requests : RequestStep(r) \/ EndTask(r)
    BY <1>2 DEF Next
  <2>2. active' = active => \A q \in Requests : Room(q)' = Room(q)
    BY DEF Room, Limit, ActiveOf
  <2>3. CASE Reject(r)
    BY <2>2, <2>3 DEF Reject, Goto, SnapshotInv, Writing, TypeOK
  <2>4. CASE PreCheck(r)
    BY <2>2, <2>3, <2>4 DEF PreCheck, Goto, SnapshotInv, Writing, TypeOK
  <2>5. CASE PreConsume(r)
    BY <2>2, <2>3, <2>5 DEF PreConsume, Goto, SnapshotInv, Writing, TypeOK
  <2>6. CASE AcquireLock(r)
    BY <2>2, <2>3, <2>6 DEF AcquireLock, Goto, SnapshotInv, Writing, TypeOK
  <2>7. CASE Count(r)
    BY <2>2, <2>3, <2>7 DEF Count, Goto, SnapshotInv, Writing, TypeOK
  <2>8. CASE Insert(r)
    BY <2>2, <2>3, <2>8 DEF Insert, Busy, Goto, SnapshotInv, Writing, TypeOK
  <2>9. CASE Release(r)
    BY <2>2, <2>9 DEF Release, Goto, SnapshotInv, Writing, TypeOK
  <2>10. CASE Commit(r)
    <3>1. CASE /\ active' = active \cup {r} /\ Goto(r, "accepted")
               /\ stale' = {q \in Requests \ {r} : pc[q] = "counted"} \cup (stale \ {r})
      <4>1. \A q \in Requests : Writing(q) => q = r
        BY <2>10 DEF Commit, SnapshotInv, Writing
      <4>2. \A q \in Requests : ~Writing(q)' /\ (pc'[q] = "counted" => q \in stale')
        BY <3>1, <4>1 DEF Writing, Goto, TypeOK
      <4>3. Within(r)'
        BY <2>10, <3>1, CommitWithin DEF SnapshotInv, Writing, Commit
      <4> QED
        BY <3>1, <4>2, <4>3 DEF SnapshotInv
    <3> QED
      BY <2>3, <2>10, <3>1 DEF Commit, Reject
  <2>11. CASE EndTask(r)
    BY <2>11, EndKeepsRoom DEF EndTask, SnapshotInv, Writing
  <2> QED
    BY <2>1, <2>4, <2>5, <2>6, <2>7, <2>8, <2>9, <2>10, <2>11 DEF RequestStep
<1> QED
  BY <1>1, <1>2

\* On SQLite, too, no number of concurrent requests admits a task beyond its
\* limits: although InsertImageTaskWithAdmission releases the mutex before the
\* commit, a transaction that has counted before another one's commit may not
\* write any more.
THEOREM SqliteAdmitsWithinLimits ==
    Spec /\ db = "sqlite" => AdmittedWithinLimits
<1> DEFINE Inv == db = "sqlite" /\ TypeOK /\ SnapshotInv
<1>1. Init /\ db = "sqlite" => Inv
  BY LimitAssumption DEF Init, TypeOK, PCs, Unlocked, SnapshotInv, Writing
<1>2. Inv /\ [Next]_vars => Inv'
  BY TypeStep, SnapshotStep, DatabaseStays
<1>3. Inv /\ [Next]_vars =>
        [\A r \in Requests : (r \in active' /\ r \notin active) => Within(r)']_vars
  BY SnapshotStep
<1> QED
  BY <1>1, <1>2, <1>3, PTL DEF Spec, AdmittedWithinLimits

\* Wherever MySQL is not used, every admission of InsertImageTaskWithAdmission
\* is within its limits.
THEOREM AdmissionWithinLimits ==
    ASSUME "mysql" \notin Databases
    PROVE  Spec => AdmittedWithinLimits
<1>1. Init => db = "postgres" \/ db = "sqlite"
  BY DatabaseAssumption DEF Init
<1> QED
  BY <1>1, PostgresAdmitsWithinLimits, SqliteAdmitsWithinLimits, PTL DEF Spec
=============================================================================
