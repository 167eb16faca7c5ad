--------------------------- MODULE ImageTaskQueue ---------------------------
(***************************************************************************)
(* The durable queue of asynchronous image tasks.  A submitted task is a   *)
(* QUEUED row of the tasks table; Redis and the in-process channels carry  *)
(* only hints.  Workers of several processes claim rows with a lease, run  *)
(* the upstream call while a heartbeat renews the lease, and end the task  *)
(* with a compare-and-swap on status and lease owner; whoever wins it      *)
(* bills the task.  A leader scans the table for rows whose hint was lost  *)
(* or whose lease has expired, and the timeout sweep of the polling loop   *)
(* ends old tasks whoever works on them.                                   *)
(*                                                                         *)
(* A node is one process: its owner string holds the process id, so a      *)
(* restarted process is another node.  Each action is one statement        *)
(* against the database or Redis, or one step of a goroutine between two.  *)
(***************************************************************************)
EXTENDS Integers, Sequences, FiniteSets

CONSTANTS
    Tasks,
    Nodes,
    Workers,       \* the imageAsyncWorkerLoop goroutines of all nodes
    Sweepers,      \* the TaskPollingLoop goroutines, one per master node
    NodeOf,        \* the node each of them runs on
    Legacy,        \* the tasks submitted before legacyTaskCutoff
    UseRedis,      \* common.RedisEnabled
    QueueCapacity, \* imageWorkerConfig.queueCapacity
    MaxAttempts    \* imageWorkerConfig.maxAttempts

CONSTANTS
    MaxNotify,     \* bound on the length of the Redis list
    MaxExpiries,   \* bound on the leases of one task that expire under a worker
    MaxFaults,     \* bound on the database and Redis errors
    MaxCrashes     \* bound on the processes that die

Actors == Workers \cup Sweepers

ASSUME ActorAssumption ==
    /\ Workers \cap Sweepers = {}
    /\ NodeOf \in [Actors -> Nodes]
ASSUME BoundAssumption ==
    /\ QueueCapacity \in Nat /\ MaxAttempts \in Nat /\ MaxNotify \in Nat
    /\ MaxExpiries \in Nat /\ MaxFaults \in Nat /\ MaxCrashes \in Nat
    /\ UseRedis \in BOOLEAN /\ Legacy \subseteq Tasks
ASSUME NoneAssumption == "none" \notin Nodes \cup Tasks

VARIABLES
    status,      \* status[t]: the column, "none" while the row does not exist
    owner,       \* owner[t]: lease_owner
    lease,       \* lease[t]: whether lease_expires_at has passed
    attempt,     \* attempt[t]
    hint,        \* hint[t]: the node whose submit handler has still to enqueue t
    notify,      \* the Redis list imageTaskNotifyQueue
    dedup,       \* the tasks whose dedup key is set in Redis
    queue,       \* queue[n]: dispatcher.queue, the channel of node n
    queued,      \* queued[n]: dispatcher.queued, the ids the channel accepted
    sending,     \* the calls of enqueueLocalImageTask under way
    leader,      \* the node that holds the dispatch leadership
    alive,       \* the running nodes
    pc,          \* pc[a]: where the worker or sweeper a is
    job,         \* job[a]: the task it works on
    result,      \* result[a]: how it is about to end that task
    seen,        \* seen[s]: the status with which the sweep's query returned t
    funding,     \* funding[t]: quota t has taken from its wallet or subscription
    tokenQuota,  \* tokenQuota[t]: quota t has taken from its token
    bill,        \* history: how the charge of t has been dealt with
    expiries,    \* history: how often a lease of t has expired
    runs,        \* history: how often the upstream call of t was made
    tainted,     \* history: tasks whose billing an error or a crash cut short
    faults,
    crashes

row == <<status, owner, lease, attempt>>
hints == <<hint, notify, dedup, queue, queued, sending, leader>>
actor == <<pc, job, result, seen>>
money == <<funding, tokenQuota, bill, tainted>>
vars == <<row, hints, actor, money, alive, expiries, runs, faults, crashes>>

NoNode == "none"
NoTask == "none"

Statuses == {"none", "QUEUED", "IN_PROGRESS", "SUCCESS", "FAILURE"}
PCs == {"idle", "claim", "load", "run", "finish", "bill", "token", "sweep", "dead"}
Results == {"none", "SUCCESS", "FAILURE", "EXCEEDED", "TIMEOUT"}
Bills == {"held", "settled", "refunded", "kept"}

\* A call of enqueueLocalImageTask that has put its id into the map: by the
\* submit handler or the leader, about to send it or, the channel being full,
\* to take it out of the map again.
Senders == [node : Nodes, task : Tasks, by : {"handler", "leader"}, step : {"send", "drop"}]

TypeOK ==
    /\ status \in [Tasks -> Statuses]
    /\ owner \in [Tasks -> Nodes \cup {NoNode}]
    /\ lease \in [Tasks -> {"live", "expired"}]
    /\ attempt \in [Tasks -> Nat]
    /\ hint \in [Tasks -> Nodes \cup {NoNode}]
    /\ notify \in Seq(Tasks)
    /\ dedup \in SUBSET Tasks
    /\ queue \in [Nodes -> Seq(Tasks)]
    /\ queued \in [Nodes -> SUBSET Tasks]
    /\ sending \in SUBSET Senders
    /\ leader \in Nodes \cup {NoNode}
    /\ alive \in SUBSET Nodes
    /\ pc \in [Actors -> PCs]
    /\ job \in [Actors -> Tasks \cup {NoTask}]
    /\ result \in [Actors -> Results]
    /\ seen \in [Sweepers -> [Tasks -> Statuses]]
    /\ funding \in [Tasks -> Int]
    /\ tokenQuota \in [Tasks -> Int]
    /\ bill \in [Tasks -> Bills]
    /\ expiries \in [Tasks -> Nat]
    /\ runs \in [Tasks -> Nat]
    /\ tainted \in SUBSET Tasks
    /\ faults \in 0..MaxFaults
    /\ crashes \in 0..MaxCrashes

Init ==
    /\ status = [t \in Tasks |-> "none"]
    /\ owner = [t \in Tasks |-> NoNode]
    /\ lease = [t \in Tasks |-> "expired"]
    /\ attempt = [t \in Tasks |-> 0]
    /\ hint = [t \in Tasks |-> NoNode]
    /\ notify = <<>>
    /\ dedup = {}
    /\ queue = [n \in Nodes |-> <<>>]
    /\ queued = [n \in Nodes |-> {}]
    /\ sending = {}
    /\ leader = NoNode
    /\ alive = Nodes
    /\ pc = [a \in Actors |-> "idle"]
    /\ job = [a \in Actors |-> NoTask]
    /\ result = [a \in Actors |-> "none"]
    /\ seen = [s \in Sweepers |-> [t \in Tasks |-> "none"]]
    /\ funding = [t \in Tasks |-> 0]
    /\ tokenQuota = [t \in Tasks |-> 0]
    /\ bill = [t \in Tasks |-> "held"]
    /\ expiries = [t \in Tasks |-> 0]
    /\ runs = [t \in Tasks |-> 0]
    /\ tainted = {}
    /\ faults = 0
    /\ crashes = 0

-----------------------------------------------------------------------------
(* Faults: a statement against the database or Redis returns an error *)

NoFault == UNCHANGED <<faults, crashes>>

Fault ==
    /\ faults < MaxFaults
    /\ faults' = faults + 1
    /\ UNCHANGED crashes

Quota == 1

Node(a) == NodeOf[a]

-----------------------------------------------------------------------------
(* Hints *)

\* enqueueLocalImageTask up to the send: an id that is in the map already counts
\* as delivered.
EnqueueLocal(n, t, by) ==
    /\ UNCHANGED <<notify, queue>>
    /\ \/ /\ t \notin queued[n]
          /\ queued' = [queued EXCEPT ![n] = @ \cup {t}]
          /\ sending' = sending \cup {[node |-> n, task |-> t, by |-> by, step |-> "send"]}
       \/ t \in queued[n] /\ UNCHANGED <<queued, sending>>

\* SetNX of the dedup key, then RPush.  While the key lives the hint counts as
\* delivered.
EnqueueRedis(t) ==
    /\ UNCHANGED <<queue, queued, sending>>
    /\ \/ t \in dedup /\ UNCHANGED <<notify, dedup>>
       \/ /\ t \notin dedup /\ Len(notify) < MaxNotify
          /\ dedup' = dedup \cup {t}
          /\ notify' = Append(notify, t)

\* enqueueImageTask on node n: Redis first, the local channel without Redis or
\* when Redis fails (a dedup key that was set is then deleted, if Redis lets).
Enqueue(n, t, by) ==
    \/ UseRedis /\ EnqueueRedis(t) /\ NoFault
    \/ /\ UseRedis /\ Fault
       /\ EnqueueLocal(n, t, by) /\ dedup' \in {dedup, dedup \cup {t}}
    \/ ~UseRedis /\ NoFault /\ EnqueueLocal(n, t, by) /\ UNCHANGED dedup

\* The select of enqueueLocalImageTask: the id is sent, unless the channel is full.
SendLocal(x) ==
    /\ x \in sending /\ x.step = "send"
    /\ \/ /\ Len(queue[x.node]) < QueueCapacity
          /\ queue' = [queue EXCEPT ![x.node] = Append(@, x.task)]
          /\ sending' = sending \ {x}
       \/ /\ Len(queue[x.node]) >= QueueCapacity
          /\ sending' = (sending \ {x}) \cup {[x EXCEPT !.step = "drop"]}
          /\ UNCHANGED queue
    /\ NoFault
    /\ UNCHANGED <<row, hint, notify, dedup, queued, leader, actor, money, alive,
                   expiries, runs>>

\* Mutant: the id stays in the map when the channel is full.
DroppedLeak(x) == queued

\* The map without the id the channel had no room for.
Dropped(x) == [queued EXCEPT ![x.node] = @ \ {x.task}]

\* The default case of that select: the hint is dropped.
DropLocal(x) ==
    /\ x \in sending /\ x.step = "drop"
    /\ queued' = Dropped(x)
    /\ sending' = sending \ {x}
    /\ NoFault
    /\ UNCHANGED <<row, hint, notify, dedup, queue, leader, actor, money, alive,
                   expiries, runs>>

\* The handler RelayImageTaskSubmit on node n has pre-consumed the quota and
\* stores the task.
Submit(n, t) ==
    /\ n \in alive
    /\ status[t] = "none"
    /\ status' = [status EXCEPT ![t] = "QUEUED"]
    /\ funding' = [funding EXCEPT ![t] = Quota]
    /\ tokenQuota' = [tokenQuota EXCEPT ![t] = Quota]
    /\ hint' = [hint EXCEPT ![t] = n]
    /\ NoFault
    /\ UNCHANGED <<owner, lease, attempt, notify, dedup, queue, queued, sending, leader, actor,
                   bill, tainted, alive, expiries, runs>>

\* EnqueueTaskForChannel, the last thing the submit handler does.
EnqueueTask(t) ==
    /\ hint[t] \in Nodes
    /\ Enqueue(hint[t], t, "handler")
    /\ hint' = [hint EXCEPT ![t] = NoNode]
    /\ UNCHANGED <<row, leader, actor, money, alive, expiries, runs>>

\* The dedup key is gone 30 seconds after SetNX.
DedupExpires(t) ==
    /\ t \in dedup
    /\ dedup' = dedup \ {t}
    /\ NoFault
    /\ UNCHANGED <<row, hint, notify, queue, queued, sending, leader, actor, money, alive,
                   expiries, runs>>

-----------------------------------------------------------------------------
(* Dispatch: one leader hints at the rows that are ready to run *)

\* Mutant: a row whose lease has expired is never picked up again.
ClaimableQueued(t) == status[t] = "QUEUED"

\* The condition of GetClaimableImageAsyncTaskIDs and of ClaimImageAsyncTask.
\* (An IN_PROGRESS row without an owner exists only for a row of another
\* TaskKind, whose lease ReleaseImageAsyncTaskLease gives up at once.)
Claimable(t) ==
    \/ status[t] = "QUEUED"
    \/ status[t] = "IN_PROGRESS" /\ lease[t] = "expired"

AcquireLeadership(n) ==
    /\ n \in alive /\ leader = NoNode
    /\ leader' = n
    /\ NoFault
    /\ UNCHANGED <<row, hint, notify, dedup, queue, queued, sending, actor, money, alive,
                   expiries, runs>>

\* The ping of the leader's database session fails.
LoseLeadership(n) ==
    /\ leader = n
    /\ leader' = NoNode
    /\ Fault
    /\ UNCHANGED <<row, hint, notify, dedup, queue, queued, sending, actor, money, alive,
                   expiries, runs>>

\* dispatchClaimableImageTasks, for one id of its scan; one at a time.
Dispatch(n, t) ==
    /\ leader = n
    /\ \A x \in sending : ~(x.node = n /\ x.by = "leader")
    /\ Claimable(t)
    /\ Enqueue(n, t, "leader")
    /\ UNCHANGED <<row, hint, leader, actor, money, alive, expiries, runs>>

-----------------------------------------------------------------------------
(* Workers *)

Claims(w, t) ==
    /\ pc' = [pc EXCEPT ![w] = "claim"]
    /\ job' = [job EXCEPT ![w] = t]
    /\ NoFault
    /\ UNCHANGED <<row, hint, dedup, queued, sending, leader, result, seen, money, alive,
                   expiries, runs>>

\* nextImageAsyncTaskID: the channel first.
TakeLocal(w) ==
    /\ pc[w] = "idle" /\ queue[Node(w)] # <<>>
    /\ Claims(w, Head(queue[Node(w)]))
    /\ queue' = [queue EXCEPT ![Node(w)] = Tail(@)]
    /\ UNCHANGED notify

\* BLPop: the hint is gone from Redis whatever becomes of the worker.
TakeRedis(w) ==
    /\ UseRedis
    /\ pc[w] = "idle" /\ notify # <<>>
    /\ Claims(w, Head(notify))
    /\ notify' = Tail(notify)
    /\ UNCHANGED queue

\* processImageAsyncTask returns to the loop, which forgets the id.
Return(w) ==
    /\ pc' = [pc EXCEPT ![w] = "idle"]
    /\ job' = [job EXCEPT ![w] = NoTask]
    /\ result' = [result EXCEPT ![w] = "none"]
    /\ queued' = [queued EXCEPT ![Node(w)] = @ \ {job[w]}]
    /\ UNCHANGED seen

\* Mutant: a live lease is no obstacle.
MayClaimAnyLease(t) == status[t] \in {"QUEUED", "IN_PROGRESS"}

MayClaim(t) == Claimable(t)

\* The UPDATE of ClaimImageAsyncTask.
Claim(w) ==
    /\ pc[w] = "claim"
    /\ LET t == job[w] IN
       \/ /\ MayClaim(t) /\ NoFault
          /\ status' = [status EXCEPT ![t] = "IN_PROGRESS"]
          /\ owner' = [owner EXCEPT ![t] = Node(w)]
          /\ lease' = [lease EXCEPT ![t] = "live"]
          /\ attempt' = [attempt EXCEPT ![t] = @ + 1]
          /\ pc' = [pc EXCEPT ![w] = "load"]
          /\ UNCHANGED <<job, result, seen, queued>>
       \/ ~MayClaim(t) /\ NoFault /\ Return(w) /\ UNCHANGED row
       \/ Fault /\ Return(w) /\ UNCHANGED row
    /\ UNCHANGED <<hint, notify, dedup, queue, sending, leader, money, alive, expiries, runs>>

\* Mutant: the attempts are not counted.
ExceededNever(t) == FALSE

Exceeded(t) == attempt[t] > MaxAttempts

\* The SELECT of ClaimImageAsyncTask, by task and owner, and the check of the
\* attempts.  A row another node has claimed meanwhile is not found.
Load(w) ==
    /\ pc[w] = "load"
    /\ LET t == job[w] IN
       \/ /\ owner[t] = Node(w) /\ NoFault
          /\ dedup' = dedup \ {t}
          /\ \/ /\ Exceeded(t)
                /\ pc' = [pc EXCEPT ![w] = "finish"]
                /\ result' = [result EXCEPT ![w] = "EXCEEDED"]
                /\ UNCHANGED runs
             \/ /\ ~Exceeded(t)
                /\ pc' = [pc EXCEPT ![w] = "run"]
                /\ runs' = [runs EXCEPT ![t] = @ + 1]
                /\ UNCHANGED result
          /\ UNCHANGED <<job, seen, queued>>
       \/ owner[t] # Node(w) /\ NoFault /\ Return(w) /\ UNCHANGED <<dedup, runs>>
       \/ Fault /\ Return(w) /\ UNCHANGED <<dedup, runs>>
    /\ UNCHANGED <<row, hint, notify, queue, sending, leader, money, alive, expiries>>

\* executeTaskUpstream and resolveTaskImageResultURLs: external.
Execute(w) ==
    /\ pc[w] = "run"
    /\ \E outcome \in {"SUCCESS", "FAILURE"} :
        result' = [result EXCEPT ![w] = outcome]
    /\ pc' = [pc EXCEPT ![w] = "finish"]
    /\ NoFault
    /\ UNCHANGED <<row, hints, job, seen, money, alive, expiries, runs>>

\* The heartbeat goroutine of w runs until processImageAsyncTask returns.
Beating(w) ==
    /\ pc[w] \in {"run", "finish", "bill", "token"}
    /\ result[w] # "EXCEEDED"

\* RenewImageAsyncTaskLease.  When it finds the lease lost it cancels the
\* upstream call, which is one of the reasons for Execute to fail.
Renew(w) ==
    /\ Beating(w)
    /\ LET t == job[w] IN
       /\ status[t] = "IN_PROGRESS" /\ owner[t] = Node(w)
       /\ lease[t] = "expired"
       /\ lease' = [lease EXCEPT ![t] = "live"]
    /\ NoFault
    /\ UNCHANGED <<status, owner, attempt, hints, actor, money, alive, expiries, runs>>

\* Nobody works on t for the node that holds its lease any more.
Orphan(t) ==
    \A w \in Workers :
        ~(job[w] = t /\ Node(w) = owner[t] /\ pc[w] \in {"load", "run", "finish"})

\* lease_expires_at passes: nobody works on the task any more, or the renewals
\* fail or come too late.
LeaseExpires(t) ==
    /\ status[t] = "IN_PROGRESS" /\ lease[t] = "live"
    /\ Orphan(t) \/ expiries[t] < MaxExpiries
    /\ lease' = [lease EXCEPT ![t] = "expired"]
    /\ expiries' = [expiries EXCEPT ![t] = @ + 1]
    /\ NoFault
    /\ UNCHANGED <<status, owner, attempt, hints, actor, money, alive, runs>>

\* Mutant: only the owner is compared.
HoldsLeaseAnyStatus(w, t) == owner[t] = Node(w)

\* The WHERE clause of UpdateImageTaskWithLease.
HoldsLease(w, t) == status[t] = "IN_PROGRESS" /\ owner[t] = Node(w)

\* Mutant: the reason of the failure is stored as the status.
OutcomeRaw(w) == result[w]

Outcome(w) == IF result[w] = "SUCCESS" THEN "SUCCESS" ELSE "FAILURE"

\* UpdateImageTaskWithLease, at the end of processImageAsyncTask and in
\* failImageAsyncTask.  Only the winner goes on to bill the task.
Finish(w) ==
    /\ w \in Workers /\ pc[w] = "finish"
    /\ LET t == job[w] IN
       \/ /\ HoldsLease(w, t) /\ NoFault
          /\ status' = [status EXCEPT ![t] = Outcome(w)]
          /\ owner' = [owner EXCEPT ![t] = NoNode]
          /\ lease' = [lease EXCEPT ![t] = "expired"]
          /\ pc' = [pc EXCEPT ![w] = "bill"]
          /\ UNCHANGED <<attempt, job, result, seen, queued>>
       \/ ~HoldsLease(w, t) /\ NoFault /\ Return(w) /\ UNCHANGED row
       \/ Fault /\ Return(w) /\ UNCHANGED row
    /\ UNCHANGED <<hint, notify, dedup, queue, sending, leader, money, alive, expiries, runs>>

-----------------------------------------------------------------------------
(* Billing, by the worker or the sweeper that ended the task *)

\* Where the actor goes when the billing of its task is over.
Leave(a) ==
    \/ a \in Workers /\ Return(a)
    \/ /\ a \in Sweepers
       /\ pc' = [pc EXCEPT ![a] = "sweep"]
       /\ job' = [job EXCEPT ![a] = NoTask]
       /\ result' = [result EXCEPT ![a] = "none"]
       /\ UNCHANGED <<seen, queued>>

\* RecalculateTaskQuota with the quota already taken: nothing to move.
SettleTask(a) ==
    /\ pc[a] = "bill" /\ Outcome(a) = "SUCCESS"
    /\ bill' = [bill EXCEPT ![job[a]] = "settled"]
    /\ Leave(a)
    /\ NoFault
    /\ UNCHANGED <<row, hint, notify, dedup, queue, sending, leader, funding, tokenQuota,
                   tainted, alive, expiries, runs>>

\* RefundTaskQuota up to taskAdjustFunding.  A failure the user has to pay for
\* keeps the charge, and so do the tasks of the old system that time out.
RefundTaskQuota(a) ==
    /\ pc[a] = "bill" /\ Outcome(a) = "FAILURE"
    /\ LET t == job[a]
           legacy == result[a] = "TIMEOUT" /\ t \in Legacy
       IN
       \/ /\ result[a] = "FAILURE" \/ legacy
          /\ bill' = [bill EXCEPT ![t] = "kept"]
          /\ Leave(a) /\ NoFault /\ UNCHANGED <<funding, tainted>>
       \/ /\ ~legacy
          /\ funding' = [funding EXCEPT ![t] = @ - Quota]
          /\ bill' = [bill EXCEPT ![t] = "refunded"]
          /\ pc' = [pc EXCEPT ![a] = "token"]
          /\ NoFault /\ UNCHANGED <<job, result, seen, queued, tainted>>
       \/ /\ ~legacy
          /\ Fault /\ Leave(a)
          /\ tainted' = tainted \cup {t}
          /\ UNCHANGED <<bill, funding>>
    /\ UNCHANGED <<row, hint, notify, dedup, queue, sending, leader, tokenQuota, alive,
                   expiries, runs>>

\* Mutant: the token is not given its quota back.
TokenAfterRefundKept(t) == tokenQuota[t]

TokenAfterRefund(t) == tokenQuota[t] - Quota

\* taskAdjustTokenQuota: an error is only logged.
RefundTaskToken(a) ==
    /\ pc[a] = "token"
    /\ LET t == job[a] IN
       \/ /\ tokenQuota' = [tokenQuota EXCEPT ![t] = TokenAfterRefund(t)]
          /\ NoFault /\ UNCHANGED tainted
       \/ Fault /\ tainted' = tainted \cup {t} /\ UNCHANGED tokenQuota
    /\ Leave(a)
    /\ UNCHANGED <<row, hint, notify, dedup, queue, sending, leader, funding, bill, alive,
                   expiries, runs>>

-----------------------------------------------------------------------------
(* sweepTimedOutTasks *)

Unfinished(t) == status[t] \in {"QUEUED", "IN_PROGRESS"}

\* GetTimedOutUnfinishedTasks: any unfinished tasks may be old enough.
SweepScan(s) ==
    /\ pc[s] = "idle"
    /\ \E old \in SUBSET {t \in Tasks : Unfinished(t)} :
        /\ old # {}
        /\ seen' = [seen EXCEPT ![s] = [t \in Tasks |-> IF t \in old THEN status[t] ELSE "none"]]
    /\ pc' = [pc EXCEPT ![s] = "sweep"]
    /\ NoFault
    /\ UNCHANGED <<row, hints, job, result, money, alive, expiries, runs>>

\* The WHERE clause of UpdateWithStatus.
StillAsSeen(s, t) == status[t] = seen[s][t]

\* One task of the sweep: TransitionTaskStatus from the status read before.
SweepTask(s, t) ==
    /\ pc[s] = "sweep" /\ seen[s][t] # "none"
    /\ seen' = [seen EXCEPT ![s][t] = "none"]
    /\ \/ /\ StillAsSeen(s, t) /\ NoFault
          /\ status' = [status EXCEPT ![t] = "FAILURE"]
          /\ pc' = [pc EXCEPT ![s] = "bill"]
          /\ job' = [job EXCEPT ![s] = t]
          /\ result' = [result EXCEPT ![s] = "TIMEOUT"]
       \/ ~StillAsSeen(s, t) /\ NoFault /\ UNCHANGED <<status, pc, job, result>>
       \/ Fault /\ UNCHANGED <<status, pc, job, result>>
    /\ UNCHANGED <<owner, lease, attempt, hints, money, alive, expiries, runs>>

SweepEnds(s) ==
    /\ pc[s] = "sweep" /\ \A t \in Tasks : seen[s][t] = "none"
    /\ pc' = [pc EXCEPT ![s] = "idle"]
    /\ NoFault
    /\ UNCHANGED <<row, hints, job, result, seen, money, alive, expiries, runs>>

-----------------------------------------------------------------------------

\* A process dies with its channel, its goroutines and its database sessions.
Crash(n) ==
    /\ n \in alive /\ crashes < MaxCrashes
    /\ alive' = alive \ {n}
    /\ pc' = [a \in Actors |-> IF Node(a) = n THEN "dead" ELSE pc[a]]
    /\ job' = [a \in Actors |-> IF Node(a) = n THEN NoTask ELSE job[a]]
    /\ result' = [a \in Actors |-> IF Node(a) = n THEN "none" ELSE result[a]]
    /\ hint' = [t \in Tasks |-> IF hint[t] = n THEN NoNode ELSE hint[t]]
    /\ queue' = [queue EXCEPT ![n] = <<>>]
    /\ queued' = [queued EXCEPT ![n] = {}]
    /\ sending' = {x \in sending : x.node # n}
    /\ leader' = IF leader = n THEN NoNode ELSE leader
    /\ tainted' = tainted \cup {t \in Tasks : \E a \in Actors :
                      Node(a) = n /\ job[a] = t /\ pc[a] \in {"bill", "token"}}
    /\ crashes' = crashes + 1
    /\ UNCHANGED <<row, notify, dedup, seen, funding, tokenQuota, bill, expiries, runs,
                   faults>>

WorkerStep(w) ==
    \/ TakeLocal(w) \/ TakeRedis(w) \/ Claim(w) \/ Load(w) \/ Execute(w) \/ Finish(w)
    \/ SettleTask(w) \/ RefundTaskQuota(w) \/ RefundTaskToken(w)

SweeperStep(s) ==
    \/ SweepScan(s) \/ SweepEnds(s) \/ \E t \in Tasks : SweepTask(s, t)
    \/ RefundTaskQuota(s) \/ RefundTaskToken(s)

Next ==
    \/ \E t \in Tasks : \/ \E n \in Nodes : Submit(n, t) \/ Dispatch(n, t)
                        \/ EnqueueTask(t) \/ DedupExpires(t) \/ LeaseExpires(t)
    \/ \E x \in sending : SendLocal(x) \/ DropLocal(x)
    \/ \E n \in Nodes : AcquireLeadership(n) \/ LoseLeadership(n) \/ Crash(n)
    \/ \E w \in Workers : WorkerStep(w) \/ Renew(w)
    \/ \E s \in Sweepers : SweeperStep(s)

Spec == Init /\ [][Next]_vars

\* The goroutines of a live node go on, the scan is repeated every
\* dbScanInterval, dedup keys and leases nobody renews run out.  Nothing is
\* assumed of submissions, renewals or the submit handler's hint, and of the
\* sweep only that it bills the task it has ended: it may never be run.
Fairness ==
    /\ \A w \in Workers : WF_vars(WorkerStep(w))
    /\ \A s \in Sweepers : WF_vars(RefundTaskQuota(s) \/ RefundTaskToken(s))
    /\ \A x \in Senders : WF_vars(SendLocal(x) \/ DropLocal(x))
    /\ \A n \in Nodes : WF_vars(AcquireLeadership(n))
    /\ \A n \in Nodes, t \in Tasks : WF_vars(Dispatch(n, t))
    /\ \A t \in Tasks : WF_vars(DedupExpires(t))
    /\ \A t \in Tasks : WF_vars(LeaseExpires(t) /\ Orphan(t))

FairSpec == Spec /\ Fairness

-----------------------------------------------------------------------------
(* Properties *)

Finished(t) == status[t] \in {"SUCCESS", "FAILURE"}

\* Some actor that is still running has t's billing in hand.
InBilling(t) == \E a \in Actors : pc[a] \in {"bill", "token"} /\ job[a] = t

TaskMoney(t) ==
    /\ funding[t] = IF status[t] = "none" \/ bill[t] = "refunded" THEN 0 ELSE Quota
    /\ bill[t] # "refunded" => tokenQuota[t] = funding[t]
    /\ tokenQuota[t] \in 0..Quota
    /\ bill[t] \in {"refunded", "kept"} => status[t] = "FAILURE"
    /\ bill[t] = "settled" => status[t] = "SUCCESS"
    /\ (Finished(t) /\ t \notin tainted /\ ~InBilling(t)) =>
          bill[t] # "held" /\ tokenQuota[t] = funding[t]

\* The money of a task: what it took is given back at most once on each ledger,
\* never while it can still succeed and never after it has; and a failed task
\* whose charge is still held is being billed right now, unless an error or a
\* crash hit its billing.  However many workers and sweeps race for a task, one
\* of them bills it.
TaskMoneyExact == \A t \in Tasks : TaskMoney(t)

\* The upstream call of a task, which costs the operator money, is made at most
\* MaxAttempts times, crashes and lost leases included; and not a second time
\* unless a lease has expired, so that a task is with one worker at a time as
\* long as its lease is kept alive.
UpstreamCallsBounded ==
    \A t \in Tasks : runs[t] <= MaxAttempts /\ runs[t] <= 1 + expiries[t]

\* The claim is exclusive: two workers have the same task in hand only when a
\* lease of it has expired.
ClaimIsExclusive ==
    \A t \in Tasks : expiries[t] = 0 =>
        \A v, w \in Workers :
            (/\ job[v] = t /\ pc[v] \in {"load", "run", "finish"}
             /\ job[w] = t /\ pc[w] \in {"load", "run", "finish"}) => v = w

\* An id in the map of the local channel is in the channel, with a worker of the
\* node, or with a call of enqueueLocalImageTask under way: were it left behind,
\* that function would answer "already queued" for ever and the node would never
\* run the task.
QueuedIsBacked ==
    \A n \in Nodes : \A t \in queued[n] :
        \/ \E x \in sending : x.node = n /\ x.task = t
        \/ \E i \in DOMAIN queue[n] : queue[n][i] = t
        \/ \E w \in Workers : Node(w) = n /\ job[w] = t

\* A finished task never changes its status again: a late worker, a late sweep
\* and a reclaim all lose the compare-and-swap.
FinishedIsFinal ==
    [][\A t \in Tasks : Finished(t) => status'[t] = status[t]]_vars

\* The queue implements the ledger's contract.
Ledger == INSTANCE TaskLedger WITH
    outcome <- [t \in Tasks |-> IF Unfinished(t) THEN "pending" ELSE status[t]]
ImplementsLedger == Ledger!Spec

\* Every stored task ends and its charge is dealt with, although hints get lost,
\* processes die and leases expire: as long as one node with a worker stays up
\* and no error or crash hits the billing itself.
EveryTaskEnds ==
    \A t \in Tasks :
        status[t] = "QUEUED" ~> (Finished(t) /\ (bill[t] # "held" \/ t \in tainted))
=============================================================================
