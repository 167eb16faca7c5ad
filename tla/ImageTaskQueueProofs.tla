------------------------ MODULE ImageTaskQueueProofs ------------------------
(***************************************************************************)
(* Proofs about ImageTaskQueue, for every number of tasks, nodes, workers  *)
(* and sweepers and every bound.                                           *)
(***************************************************************************)
EXTENDS ImageTaskQueue, FiniteSetTheorems, SequenceTheorems, TLAPS

Busy == {"claim", "load", "run", "finish", "bill", "token"}
Billing == {"bill", "token"}

\* A goroutine that is busy works on a task.
JobInv == \A a \in Actors : pc[a] \in Busy => job[a] \in Tasks

TypeInv == TypeOK /\ JobInv

\* Workers and sweepers end their work on a task in the same few ways.
LEMMA LeaveType ==
    ASSUME TypeInv, NEW a \in Actors, Leave(a)
    PROVE  /\ pc' \in [Actors -> PCs]
           /\ job' \in [Actors -> Tasks \cup {NoTask}]
           /\ result' \in [Actors -> Results]
           /\ seen' \in [Sweepers -> [Tasks -> Statuses]]
           /\ queued' \in [Nodes -> SUBSET Tasks]
           /\ JobInv'
<1>0. /\ pc \in [Actors -> PCs] /\ job \in [Actors -> Tasks \cup {NoTask}]
      /\ result \in [Actors -> Results] /\ queued \in [Nodes -> SUBSET Tasks]
      /\ seen \in [Sweepers -> [Tasks -> Statuses]] /\ JobInv
  BY DEF TypeInv, TypeOK
<1>1. \E place \in {"idle", "sweep"} : pc' = [pc EXCEPT ![a] = place]
  BY DEF Leave, Return
<1>2. /\ job' = [job EXCEPT ![a] = NoTask] /\ result' = [result EXCEPT ![a] = "none"]
      /\ seen' = seen
  BY DEF Leave, Return
<1>3. \/ queued' = queued
      \/ queued' = [queued EXCEPT ![Node(a)] = @ \ {job[a]}]
  BY DEF Leave, Return
<1>4. queued' \in [Nodes -> SUBSET Tasks]
  BY <1>0, <1>3
<1>5. pc' \in [Actors -> PCs] /\ job' \in [Actors -> Tasks \cup {NoTask}]
  BY <1>0, <1>1, <1>2 DEF PCs
<1>6. result' \in [Actors -> Results]
  BY <1>0, <1>2 DEF Results
<1>7. JobInv'
  BY <1>0, <1>1, <1>2 DEF JobInv, Busy
<1>. QED  BY <1>0, <1>2, <1>4, <1>5, <1>6, <1>7

LEMMA ReturnType ==
    ASSUME TypeInv, NEW a \in Workers, Return(a)
    PROVE  /\ pc' \in [Actors -> PCs]
           /\ job' \in [Actors -> Tasks \cup {NoTask}]
           /\ result' \in [Actors -> Results]
           /\ seen' \in [Sweepers -> [Tasks -> Statuses]]
           /\ queued' \in [Nodes -> SUBSET Tasks]
           /\ JobInv'
  BY LeaveType DEF Leave, Actors

LEMMA EnqueueType ==
    ASSUME TypeInv, NEW n \in Nodes, NEW t \in Tasks, NEW by \in {"handler", "leader"},
           Enqueue(n, t, by)
    PROVE  /\ notify' \in Seq(Tasks)
           /\ dedup' \in SUBSET Tasks
           /\ queue' \in [Nodes -> Seq(Tasks)]
           /\ queued' \in [Nodes -> SUBSET Tasks]
           /\ sending' \in SUBSET Senders
           /\ faults' \in 0..MaxFaults
           /\ crashes' \in 0..MaxCrashes
<1>0. /\ notify \in Seq(Tasks) /\ dedup \in SUBSET Tasks
      /\ queue \in [Nodes -> Seq(Tasks)] /\ queued \in [Nodes -> SUBSET Tasks]
      /\ sending \in SUBSET Senders
      /\ faults \in 0..MaxFaults /\ crashes \in 0..MaxCrashes
  BY DEF TypeInv, TypeOK
<1>1. ASSUME EnqueueLocal(n, t, by)
      PROVE  /\ notify' \in Seq(Tasks)
             /\ queue' \in [Nodes -> Seq(Tasks)]
             /\ queued' \in [Nodes -> SUBSET Tasks]
             /\ sending' \in SUBSET Senders
  <2>1. [node |-> n, task |-> t, by |-> by, step |-> "send"] \in Senders
    BY DEF Senders
  <2>. QED  BY <1>0, <1>1, <2>1 DEF EnqueueLocal
<1>2. ASSUME EnqueueRedis(t)
      PROVE  /\ notify' \in Seq(Tasks) /\ dedup' \in SUBSET Tasks
             /\ queue' \in [Nodes -> Seq(Tasks)]
             /\ queued' \in [Nodes -> SUBSET Tasks]
             /\ sending' \in SUBSET Senders
  <2>1. Append(notify, t) \in Seq(Tasks)
    BY <1>0
  <2>. QED  BY <1>0, <1>2, <2>1 DEF EnqueueRedis
<1>3. faults' \in 0..MaxFaults /\ crashes' \in 0..MaxCrashes
  BY <1>0, BoundAssumption DEF Enqueue, NoFault, Fault
<1>4. CASE UseRedis /\ EnqueueRedis(t)
  BY <1>2, <1>3, <1>4
<1>5. CASE EnqueueLocal(n, t, by) /\ dedup' \in {dedup, dedup \cup {t}}
  BY <1>0, <1>1, <1>3, <1>5
<1>. QED  BY <1>4, <1>5 DEF Enqueue

LEMMA FaultType ==
    ASSUME TypeInv, NoFault \/ Fault
    PROVE  faults' \in 0..MaxFaults /\ crashes' \in 0..MaxCrashes
  BY BoundAssumption DEF TypeInv, TypeOK, NoFault, Fault

\* The two ends of enqueueLocalImageTask touch the channel and its map only.
LEMMA SendFrame ==
    ASSUME NEW x \in sending, SendLocal(x) \/ DropLocal(x)
    PROVE  /\ UNCHANGED row /\ UNCHANGED actor /\ UNCHANGED money
           /\ UNCHANGED <<hint, notify, dedup, leader, alive, expiries, runs>> /\ NoFault
  BY DEF SendLocal, DropLocal

LEMMA HeadTail ==
    ASSUME NEW S, NEW s \in Seq(S), s # <<>>
    PROVE  Head(s) \in S /\ Tail(s) \in Seq(S)
  OBVIOUS

LEMMA TypeInit == Init => TypeInv
<1>. SUFFICES ASSUME Init PROVE TypeInv
  OBVIOUS
<1>1. TypeOK
  BY BoundAssumption
     DEF Init, TypeOK, NoNode, NoTask, Statuses, PCs, Results, Bills
<1>2. JobInv
  BY DEF Init, JobInv, Busy
<1>. QED  BY <1>1, <1>2 DEF TypeInv

LEMMA TypeStep == TypeInv /\ [Next]_vars => TypeInv'
<1>. SUFFICES ASSUME TypeInv, [Next]_vars PROVE TypeInv'
  OBVIOUS
<1>. USE DEF TypeInv, TypeOK
<1>1. ASSUME NEW n \in Nodes, NEW t \in Tasks, Submit(n, t) PROVE TypeInv'
  BY <1>1, FaultType DEF Submit, NoFault, actor, JobInv, Busy, Statuses, Quota
<1>2. ASSUME NEW n \in Nodes, NEW t \in Tasks, Dispatch(n, t) PROVE TypeInv'
  BY <1>2, EnqueueType DEF Dispatch, row, actor, money, JobInv
<1>3. ASSUME NEW t \in Tasks, EnqueueTask(t) PROVE TypeInv'
  BY <1>3, EnqueueType DEF EnqueueTask, row, actor, money, JobInv, NoNode
<1>4. ASSUME NEW t \in Tasks, DedupExpires(t) PROVE TypeInv'
  BY <1>4, FaultType DEF DedupExpires, row, actor, money, JobInv
<1>5. ASSUME NEW t \in Tasks, LeaseExpires(t) PROVE TypeInv'
  BY <1>5, FaultType, SMTT(30) DEF LeaseExpires, hints, actor, money, JobInv
<1>6. ASSUME NEW n \in Nodes, AcquireLeadership(n) \/ LoseLeadership(n) PROVE TypeInv'
  BY <1>6, FaultType
     DEF AcquireLeadership, LoseLeadership, row, actor, money, JobInv, NoNode
<1>7. ASSUME NEW n \in Nodes, Crash(n) PROVE TypeInv'
  <2>1. pc' \in [Actors -> PCs] /\ job' \in [Actors -> Tasks \cup {NoTask}] /\ JobInv'
    BY <1>7 DEF Crash, PCs, JobInv, Busy
  <2>2. result' \in [Actors -> Results]
    BY <1>7 DEF Crash, Results
  <2>3. /\ hint' \in [Tasks -> Nodes \cup {NoNode}] /\ queue' \in [Nodes -> Seq(Tasks)]
        /\ queued' \in [Nodes -> SUBSET Tasks] /\ leader' \in Nodes \cup {NoNode}
        /\ alive' \in SUBSET Nodes /\ tainted' \in SUBSET Tasks
        /\ sending' \in SUBSET Senders
    BY <1>7 DEF Crash
  <2>4. crashes' \in 0..MaxCrashes
    BY <1>7, BoundAssumption DEF Crash
  <2>. QED  BY <1>7, <2>1, <2>2, <2>3, <2>4 DEF Crash, row
<1>8. ASSUME NEW w \in Workers, TakeLocal(w) \/ TakeRedis(w) PROVE TypeInv'
  <2>0. w \in Actors /\ Node(w) \in Nodes
    BY ActorAssumption DEF Actors, Node
  <2>1. ASSUME NEW t \in Tasks, Claims(w, t)
        PROVE  /\ pc' \in [Actors -> PCs] /\ job' \in [Actors -> Tasks \cup {NoTask}]
               /\ JobInv'
    BY <2>0, <2>1 DEF Claims, PCs, JobInv, Busy
  <2>2. CASE TakeLocal(w)
    <3>1. Head(queue[Node(w)]) \in Tasks /\ Tail(queue[Node(w)]) \in Seq(Tasks)
      BY <2>0, <2>2, HeadTail DEF TakeLocal
    <3>2. queue' \in [Nodes -> Seq(Tasks)]
      BY <2>0, <2>2, <3>1 DEF TakeLocal
    <3>. QED
      BY <2>1, <2>2, <3>1, <3>2, FaultType DEF TakeLocal, Claims, row, money
  <2>3. CASE TakeRedis(w)
    <3>1. Head(notify) \in Tasks /\ Tail(notify) \in Seq(Tasks)
      BY <2>3, HeadTail DEF TakeRedis
    <3>. QED
      BY <2>1, <2>3, <3>1, FaultType DEF TakeRedis, Claims, row, money
  <2>. QED  BY <1>8, <2>2, <2>3
<1>9. ASSUME NEW w \in Workers, Claim(w) PROVE TypeInv'
  <2>0. w \in Actors /\ Node(w) \in Nodes /\ job[w] \in Tasks
    BY <1>9, ActorAssumption DEF Actors, Node, Claim, JobInv, Busy
  <2>1. CASE Return(w) /\ UNCHANGED row
    BY <1>9, <2>1, ReturnType, FaultType DEF Claim, row, money
  <2>2. CASE ~(Return(w) /\ UNCHANGED row)
    <3>1. pc' = [pc EXCEPT ![w] = "load"] /\ UNCHANGED <<job, result, seen, queued>>
      BY <1>9, <2>2 DEF Claim
    <3>2. /\ status' = [status EXCEPT ![job[w]] = "IN_PROGRESS"]
          /\ owner' = [owner EXCEPT ![job[w]] = Node(w)]
          /\ lease' = [lease EXCEPT ![job[w]] = "live"]
          /\ attempt' = [attempt EXCEPT ![job[w]] = @ + 1]
      BY <1>9, <2>2 DEF Claim
    <3>3. pc' \in [Actors -> PCs] /\ JobInv'
      BY <2>0, <3>1 DEF PCs, JobInv, Busy
    <3>4. status' \in [Tasks -> Statuses] /\ lease' \in [Tasks -> {"live", "expired"}]
      BY <3>2 DEF Statuses
    <3>5. owner' \in [Tasks -> Nodes \cup {NoNode}] /\ attempt' \in [Tasks -> Nat]
      BY <2>0, <3>2
    <3>. QED
      BY <1>9, <2>2, <3>1, <3>3, <3>4, <3>5, FaultType DEF Claim, money
  <2>. QED  BY <2>1, <2>2
<1>10. ASSUME NEW w \in Workers, Load(w) PROVE TypeInv'
  <2>0. w \in Actors /\ job[w] \in Tasks
    BY <1>10 DEF Actors, Load, JobInv, Busy
  <2>1. CASE Return(w) /\ UNCHANGED <<dedup, runs>>
    BY <1>10, <2>1, ReturnType, FaultType DEF Load, row, money
  <2>2. CASE ~(Return(w) /\ UNCHANGED <<dedup, runs>>)
    <3>1. pc' \in [Actors -> PCs] /\ JobInv'
      BY <1>10, <2>0, <2>2 DEF Load, PCs, JobInv, Busy
    <3>2. result' \in [Actors -> Results]
      BY <1>10, <2>0, <2>2 DEF Load, Results
    <3>3. runs' \in [Tasks -> Nat] /\ dedup' \in SUBSET Tasks
      <4>1. runs' = runs \/ runs' = [runs EXCEPT ![job[w]] = @ + 1]
        BY <1>10, <2>2 DEF Load
      <4>2. dedup' = dedup \ {job[w]}
        BY <1>10, <2>2 DEF Load
      <4>3. ASSUME NEW t \in Tasks PROVE runs[t] + 1 \in Nat
        OBVIOUS
      <4>4. runs' \in [Tasks -> Nat]
        BY <2>0, <4>1, <4>3
      <4>. QED  BY <4>2, <4>4
    <3>. QED
      BY <1>10, <2>2, <3>1, <3>2, <3>3, FaultType DEF Load, row, money
  <2>. QED  BY <2>1, <2>2
<1>11. ASSUME NEW w \in Workers, Execute(w) PROVE TypeInv'
  <2>0. w \in Actors
    BY DEF Actors
  <2>1. pc' \in [Actors -> PCs] /\ JobInv'
    BY <1>11, <2>0 DEF Execute, PCs, JobInv, Busy
  <2>2. result' \in [Actors -> Results]
    BY <1>11, <2>0 DEF Execute, Results
  <2>. QED  BY <1>11, <2>1, <2>2, FaultType DEF Execute, row, hints, money
<1>12. ASSUME NEW w \in Workers, Renew(w) PROVE TypeInv'
  BY <1>12, FaultType DEF Renew, hints, actor, money, JobInv
<1>13. ASSUME NEW w \in Workers, Finish(w) PROVE TypeInv'
  <2>0. w \in Actors /\ job[w] \in Tasks
    BY <1>13 DEF Actors, Finish, JobInv, Busy
  <2>1. CASE Return(w) /\ UNCHANGED row
    BY <1>13, <2>1, ReturnType, FaultType DEF Finish, row, money
  <2>2. CASE ~(Return(w) /\ UNCHANGED row)
    <3>1. pc' \in [Actors -> PCs] /\ JobInv'
      BY <1>13, <2>0, <2>2 DEF Finish, PCs, JobInv, Busy
    <3>2. status' \in [Tasks -> Statuses]
      BY <1>13, <2>0, <2>2 DEF Finish, Statuses, Outcome
    <3>3. owner' \in [Tasks -> Nodes \cup {NoNode}] /\ lease' \in [Tasks -> {"live", "expired"}]
      BY <1>13, <2>0, <2>2 DEF Finish
    <3>. QED
      BY <1>13, <2>2, <3>1, <3>2, <3>3, FaultType DEF Finish, money
  <2>. QED  BY <2>1, <2>2
<1>14. ASSUME NEW a \in Actors, SettleTask(a) PROVE TypeInv'
  <2>1. bill' \in [Tasks -> Bills]
    BY <1>14 DEF SettleTask, Bills
  <2>. QED  BY <1>14, <2>1, LeaveType, FaultType DEF SettleTask, row
<1>15. ASSUME NEW a \in Actors, RefundTaskQuota(a) PROVE TypeInv'
  <2>0. job[a] \in Tasks
    BY <1>15 DEF RefundTaskQuota, JobInv, Busy
  <2>1. /\ bill' \in [Tasks -> Bills] /\ funding' \in [Tasks -> Int]
        /\ tainted' \in SUBSET Tasks
    <3>1. bill' = bill \/ \E way \in Bills : bill' = [bill EXCEPT ![job[a]] = way]
      BY <1>15 DEF RefundTaskQuota, Bills
    <3>2. funding' = funding \/ funding' = [funding EXCEPT ![job[a]] = @ - 1]
      BY <1>15 DEF RefundTaskQuota, Quota
    <3>3. tainted' = tainted \/ tainted' = tainted \cup {job[a]}
      BY <1>15 DEF RefundTaskQuota
    <3>4. bill' \in [Tasks -> Bills]
      BY <2>0, <3>1
    <3>5. funding' \in [Tasks -> Int]
      BY <2>0, <3>2
    <3>. QED  BY <2>0, <3>3, <3>4, <3>5
  <2>2. NoFault \/ Fault
    BY <1>15 DEF RefundTaskQuota
  <2>3. CASE Leave(a)
    BY <1>15, <2>1, <2>2, <2>3, LeaveType, FaultType DEF RefundTaskQuota, row
  <2>4. CASE ~Leave(a)
    <3>1. pc' = [pc EXCEPT ![a] = "token"] /\ UNCHANGED <<job, result, seen, queued>>
      BY <1>15, <2>4 DEF RefundTaskQuota
    <3>2. pc' \in [Actors -> PCs] /\ JobInv'
      BY <2>0, <3>1 DEF PCs, JobInv, Busy
    <3>. QED  BY <1>15, <2>1, <2>2, <3>1, <3>2, FaultType DEF RefundTaskQuota, row
  <2>. QED  BY <2>3, <2>4
<1>16. ASSUME NEW a \in Actors, RefundTaskToken(a) PROVE TypeInv'
  <2>0. job[a] \in Tasks
    BY <1>16 DEF RefundTaskToken, JobInv, Busy
  <2>1. tokenQuota' \in [Tasks -> Int] /\ tainted' \in SUBSET Tasks
    BY <1>16, <2>0 DEF RefundTaskToken, TokenAfterRefund, Quota
  <2>. QED  BY <1>16, <2>1, LeaveType, FaultType DEF RefundTaskToken, row
<1>17. ASSUME NEW s \in Sweepers, SweepScan(s) \/ SweepEnds(s) PROVE TypeInv'
  <2>0. s \in Actors
    BY DEF Actors
  <2>1. pc' \in [Actors -> PCs] /\ JobInv'
    BY <1>17, <2>0 DEF SweepScan, SweepEnds, PCs, JobInv, Busy
  <2>2. seen' \in [Sweepers -> [Tasks -> Statuses]]
    <3>1. CASE SweepScan(s)
      <4>1. PICK old \in SUBSET Tasks : seen' = [seen EXCEPT ![s] =
                [t \in Tasks |-> IF t \in old THEN status[t] ELSE "none"]]
        BY <3>1 DEF SweepScan
      <4>2. [t \in Tasks |-> IF t \in old THEN status[t] ELSE "none"] \in [Tasks -> Statuses]
        BY DEF Statuses
      <4>. QED  BY <4>1, <4>2
    <3>. QED  BY <1>17, <3>1 DEF SweepEnds
  <2>. QED  BY <1>17, <2>1, <2>2, FaultType DEF SweepScan, SweepEnds, row, hints, money
<1>18. ASSUME NEW s \in Sweepers, NEW t \in Tasks, SweepTask(s, t) PROVE TypeInv'
  <2>0. s \in Actors
    BY DEF Actors
  <2>1. pc' \in [Actors -> PCs] /\ job' \in [Actors -> Tasks \cup {NoTask}] /\ JobInv'
    <3>1. \/ UNCHANGED <<pc, job>>
          \/ pc' = [pc EXCEPT ![s] = "bill"] /\ job' = [job EXCEPT ![s] = t]
      BY <1>18 DEF SweepTask
    <3>2. pc' \in [Actors -> PCs] /\ job' \in [Actors -> Tasks \cup {NoTask}]
      <4>1. pc \in [Actors -> PCs] /\ job \in [Actors -> Tasks \cup {NoTask}]
        OBVIOUS
      <4>2. "bill" \in PCs
        BY DEF PCs
      <4>3. pc' \in [Actors -> PCs]
        BY <2>0, <3>1, <4>1, <4>2
      <4>4. job' \in [Actors -> Tasks \cup {NoTask}]
        BY <2>0, <3>1, <4>1
      <4>. QED  BY <4>3, <4>4
    <3>3. \A b \in Actors : (pc'[b] = pc[b] /\ job'[b] = job[b]) \/ (b = s /\ job'[b] = t)
      BY <2>0, <3>1
    <3>4. JobInv /\ t \in Tasks
      OBVIOUS
    <3>5. JobInv'
      BY ONLY <3>3, <3>4 DEF JobInv
    <3>. QED  BY <3>2, <3>5
  <2>2. result' \in [Actors -> Results]
    BY <1>18, <2>0 DEF SweepTask, Results
  <2>3. status' \in [Tasks -> Statuses] /\ seen' \in [Sweepers -> [Tasks -> Statuses]]
    BY <1>18 DEF SweepTask, Statuses
  <2>. QED  BY <1>18, <2>1, <2>2, <2>3, FaultType DEF SweepTask, hints, money
<1>19. ASSUME NEW x \in sending, SendLocal(x) \/ DropLocal(x) PROVE TypeInv'
  <2>0. x \in Senders /\ x.node \in Nodes /\ x.task \in Tasks
        /\ [x EXCEPT !.step = "drop"] \in Senders
    BY DEF Senders
  <2>1. queue' \in [Nodes -> Seq(Tasks)]
    <3>1. Append(queue[x.node], x.task) \in Seq(Tasks)
      BY <2>0
    <3>. QED  BY <1>19, <2>0, <3>1 DEF SendLocal, DropLocal
  <2>2. queued' \in [Nodes -> SUBSET Tasks] /\ sending' \in SUBSET Senders
    BY <1>19, <2>0 DEF SendLocal, DropLocal, Dropped
  <2>. QED  BY <1>19, <2>1, <2>2, SendFrame, FaultType DEF row, actor, money, JobInv
<1>20. CASE UNCHANGED vars
  BY <1>20 DEF vars, row, hints, actor, money, JobInv
<1>. QED
  BY <1>1, <1>2, <1>3, <1>4, <1>5, <1>6, <1>7, <1>8, <1>9, <1>10, <1>11, <1>12, <1>13,
     <1>14, <1>15, <1>16, <1>17, <1>18, <1>19, <1>20
  DEF Next, WorkerStep, SweeperStep, Actors

\* Type correctness of the queue: whatever the tasks, nodes, workers and bounds,
\* the rows, hints, goroutines and ledgers stay within their types; in
\* particular a goroutine that claims, runs, ends or bills works on a task.
THEOREM QueueTypeCorrect == Spec => []TypeOK
<1>1. TypeInv => TypeOK
  BY DEF TypeInv
<1>. QED  BY <1>1, TypeInit, TypeStep, PTL DEF Spec

-----------------------------------------------------------------------------
(***************************************************************************)
(* The money of a task.  TaskMoneyExact is not inductive: that a task is   *)
(* billed once needs to know that whoever is about to bill it has ended it *)
(* (BillInv), that nobody else has the same task in billing (SoleBiller)   *)
(* and that a sweep only holds unfinished tasks (SeenInv).                 *)
(***************************************************************************)

\* Whoever is about to bill a task has ended it the way it is going to bill it,
\* and the charge, or the token's part of it, is still there.
BillInv ==
    \A a \in Actors :
        /\ pc[a] = "bill" => status[job[a]] = Outcome(a) /\ bill[job[a]] = "held"
        /\ pc[a] = "token" => bill[job[a]] = "refunded" /\ tokenQuota[job[a]] = Quota

SoleBiller ==
    \A a, b \in Actors :
        pc[a] \in Billing /\ pc[b] \in Billing /\ job[a] = job[b] => a = b

SeenInv ==
    \A s \in Sweepers, t \in Tasks : seen[s][t] \in {"none", "QUEUED", "IN_PROGRESS"}

MoneyInv == BillInv /\ SoleBiller /\ TaskMoneyExact

QueueInv == TypeInv /\ SeenInv /\ MoneyInv

\* The actors other than a are where they were.
OthersStay(a) ==
    \A b \in Actors \ {a} : pc'[b] = pc[b] /\ job'[b] = job[b] /\ result'[b] = result[b]

\* No task is stored, ended or reopened.
NoOutcome == \A t \in Tasks : status'[t] = status[t] \/ (Unfinished(t) /\ Unfinished(t)')

\* Steps of an actor that is not billing, and does not start to, leave the money
\* alone.
LEMMA PlainStep ==
    ASSUME QueueInv, NEW a \in Actors, pc[a] \notin Billing, pc'[a] \notin Billing,
           OthersStay(a), NoOutcome, UNCHANGED money
    PROVE  MoneyInv'
<1>0. /\ \A b \in Actors : pc[b] \in Billing => job[b] \in Tasks
      /\ status \in [Tasks -> Statuses] /\ pc \in [Actors -> PCs]
  BY DEF QueueInv, TypeInv, TypeOK, JobInv, Busy, Billing
<1>1. \A b \in Actors : pc'[b] \in Billing =>
          b # a /\ pc[b] = pc'[b] /\ job'[b] = job[b] /\ result'[b] = result[b]
  BY DEF OthersStay
<1>2. \A b \in Actors : pc[b] \in Billing =>
          pc[b] = pc'[b] /\ job'[b] = job[b] /\ result'[b] = result[b]
  BY DEF OthersStay
<1>3. BillInv'
  <2>. SUFFICES ASSUME NEW b \in Actors, pc'[b] \in Billing
       PROVE /\ pc'[b] = "bill" => status'[job'[b]] = Outcome(b)' /\ bill'[job'[b]] = "held"
             /\ pc'[b] = "token" => bill'[job'[b]] = "refunded" /\ tokenQuota'[job'[b]] = Quota
    BY DEF BillInv, Billing
  <2>1. pc[b] = pc'[b] /\ job'[b] = job[b] /\ Outcome(b)' = Outcome(b) /\ job[b] \in Tasks
    BY <1>0, <1>1 DEF Outcome
  <2>2. pc[b] = "bill" => status[job[b]] = Outcome(b) /\ status'[job[b]] = status[job[b]]
    BY <2>1 DEF QueueInv, MoneyInv, BillInv, NoOutcome, Unfinished, Outcome
  <2>. QED  BY <2>1, <2>2 DEF QueueInv, MoneyInv, BillInv, money
<1>4. SoleBiller'
  BY <1>1 DEF QueueInv, MoneyInv, SoleBiller
<1>5. ASSUME NEW t \in Tasks PROVE TaskMoney(t)'
  <2>1. TaskMoney(t)
    BY DEF QueueInv, MoneyInv, TaskMoneyExact
  <2>2. InBilling(t)' <=> InBilling(t)
    BY <1>1, <1>2 DEF InBilling, Billing
  <2>3. Finished(t)' <=> Finished(t)
    BY DEF NoOutcome, Unfinished, Finished
  <2>4. CASE status'[t] = status[t]
    BY <2>1, <2>2, <2>4 DEF TaskMoney, money, Finished
  <2>5. CASE Unfinished(t) /\ Unfinished(t)'
    BY <2>1, <2>2, <2>3, <2>5 DEF TaskMoney, money, Unfinished
  <2>. QED  BY <2>4, <2>5 DEF NoOutcome
<1>. QED  BY <1>3, <1>4, <1>5 DEF MoneyInv, TaskMoneyExact

\* The winner of a compare-and-swap on an unfinished task starts to bill it.
LEMMA WinningStep ==
    ASSUME QueueInv, NEW a \in Actors, NEW t \in Tasks,
           pc[a] \notin Billing, pc'[a] = "bill", job'[a] = t,
           OthersStay(a), Unfinished(t), Outcome(a)' \in {"SUCCESS", "FAILURE"},
           status' = [status EXCEPT ![t] = Outcome(a)'], UNCHANGED money
    PROVE  MoneyInv'
<1>0. /\ \A b \in Actors : pc[b] \in Billing => job[b] \in Tasks
      /\ status \in [Tasks -> Statuses]
  BY DEF QueueInv, TypeInv, TypeOK, JobInv, Busy, Billing
<1>1. \A b \in Actors \ {a} : pc'[b] = pc[b] /\ job'[b] = job[b] /\ Outcome(b)' = Outcome(b)
  BY DEF OthersStay, Outcome
<1>2. bill[t] = "held"
  BY DEF QueueInv, TypeInv, TypeOK, MoneyInv, TaskMoneyExact, TaskMoney, Unfinished, Bills
<1>3. \A b \in Actors : pc[b] \in Billing => job[b] # t
  BY <1>2 DEF QueueInv, MoneyInv, BillInv, Billing, Unfinished, Outcome
<1>4. BillInv'
  BY <1>0, <1>1, <1>2, <1>3 DEF QueueInv, MoneyInv, BillInv, Billing, money
<1>5. SoleBiller'
  BY <1>1, <1>3 DEF QueueInv, MoneyInv, SoleBiller, Billing
<1>6. ASSUME NEW u \in Tasks PROVE TaskMoney(u)'
  <2>1. TaskMoney(u)
    BY DEF QueueInv, MoneyInv, TaskMoneyExact
  <2>2. CASE u = t
    <3>1. InBilling(u)'
      BY <2>2 DEF InBilling
    <3>2. status'[u] \in {"SUCCESS", "FAILURE"} /\ status[u] # "none"
      BY <1>0, <2>2 DEF Unfinished
    <3>. QED  BY <1>2, <2>1, <2>2, <3>1, <3>2 DEF TaskMoney, money
  <2>3. CASE u # t
    <3>1. InBilling(u)' <=> InBilling(u)
      BY <1>1, <2>3 DEF InBilling, Billing
    <3>2. status'[u] = status[u]
      BY <1>0, <2>3
    <3>. QED  BY <2>1, <3>1, <3>2 DEF TaskMoney, money, Finished
  <2>. QED  BY <2>2, <2>3
<1>. QED  BY <1>4, <1>5, <1>6 DEF MoneyInv, TaskMoneyExact

\* A step of a biller touches the money of its own task only.
LEMMA BillingStep ==
    ASSUME QueueInv, NEW a \in Actors, NEW t \in Tasks,
           pc[a] \in Billing, job[a] = t, OthersStay(a), UNCHANGED status,
           pc'[a] \in Billing => pc'[a] = "token" /\ job'[a] = t
                                 /\ bill'[t] = "refunded" /\ tokenQuota'[t] = Quota,
           \A u \in Tasks \ {t} : /\ funding'[u] = funding[u] /\ bill'[u] = bill[u]
                                  /\ tokenQuota'[u] = tokenQuota[u]
                                  /\ u \in tainted' <=> u \in tainted,
           TaskMoney(t)'
    PROVE  MoneyInv'
<1>0. \A b \in Actors : pc[b] \in Billing => job[b] \in Tasks
  BY DEF QueueInv, TypeInv, JobInv, Busy, Billing
<1>1. \A b \in Actors \ {a} : pc'[b] = pc[b] /\ job'[b] = job[b] /\ Outcome(b)' = Outcome(b)
  BY DEF OthersStay, Outcome
<1>2. \A b \in Actors \ {a} : pc[b] \in Billing => job[b] # t
  BY DEF QueueInv, MoneyInv, SoleBiller
<1>3. BillInv'
  <2>1. ASSUME NEW b \in Actors \ {a}, pc'[b] \in Billing
        PROVE /\ pc'[b] = "bill" => status'[job'[b]] = Outcome(b)' /\ bill'[job'[b]] = "held"
              /\ pc'[b] = "token" => bill'[job'[b]] = "refunded" /\ tokenQuota'[job'[b]] = Quota
    <3>1. pc[b] = pc'[b] /\ job'[b] = job[b] /\ job[b] \in Tasks \ {t}
      BY <1>0, <1>1, <1>2, <2>1
    <3>. QED  BY <1>1, <2>1, <3>1 DEF QueueInv, MoneyInv, BillInv
  <2>. QED  BY <2>1 DEF BillInv, Billing
<1>4. SoleBiller'
  BY <1>1, <1>2 DEF QueueInv, MoneyInv, SoleBiller
<1>5. ASSUME NEW u \in Tasks \ {t} PROVE TaskMoney(u)'
  <2>1. TaskMoney(u)
    BY DEF QueueInv, MoneyInv, TaskMoneyExact
  <2>2. InBilling(u)' <=> InBilling(u)
    BY <1>1, <1>2, <1>5 DEF InBilling, Billing
  <2>. QED  BY <2>1, <2>2 DEF TaskMoney, Finished
<1>. QED  BY <1>3, <1>4, <1>5 DEF MoneyInv, TaskMoneyExact

\* Whoever leaves the billing of a task bills nothing any more.
LEMMA LeaveStops ==
    ASSUME TypeInv, NEW a \in Actors, Leave(a)
    PROVE  OthersStay(a) /\ pc'[a] \notin Billing
<1>1. pc \in [Actors -> PCs] /\ job \in [Actors -> Tasks \cup {NoTask}]
      /\ result \in [Actors -> Results]
  BY DEF TypeInv, TypeOK
<1>. QED  BY <1>1 DEF Leave, Return, OthersStay, Billing

\* RefundTaskQuota, RefundTaskToken and SettleTask: the charge of the task is
\* still held when it is dealt with, so it is dealt with once.
LEMMA BillingSteps ==
    ASSUME QueueInv, TypeInv', NEW a \in Actors,
           SettleTask(a) \/ RefundTaskQuota(a) \/ RefundTaskToken(a)
    PROVE  MoneyInv'
<1>t. PICK t \in Tasks : t = job[a]
  BY DEF SettleTask, RefundTaskQuota, RefundTaskToken, Busy, QueueInv, TypeInv, JobInv
<1>0. pc[a] \in Billing /\ job[a] = t /\ status' = status /\ TaskMoney(t)
  BY <1>t DEF SettleTask, RefundTaskQuota, RefundTaskToken, row, Billing, QueueInv,
              MoneyInv, TaskMoneyExact
<1>1. /\ bill \in [Tasks -> Bills] /\ funding \in [Tasks -> Int]
      /\ tokenQuota \in [Tasks -> Int] /\ pc \in [Actors -> PCs]
  BY DEF QueueInv, TypeInv, TypeOK
<1>2. CASE SettleTask(a)
  <2>1. status[t] = "SUCCESS" /\ bill[t] = "held"
    BY <1>0, <1>2 DEF SettleTask, QueueInv, MoneyInv, BillInv
  <2>2. /\ bill' = [bill EXCEPT ![t] = "settled"]
        /\ UNCHANGED <<funding, tokenQuota, tainted>>
    BY <1>0, <1>2 DEF SettleTask
  <2>3. TaskMoney(t)'
    BY <1>0, <1>1, <2>1, <2>2 DEF TaskMoney
  <2>4. OthersStay(a) /\ pc'[a] \notin Billing
    BY <1>2, LeaveStops DEF SettleTask, QueueInv
  <2>. QED  BY <1>0, <1>1, <2>2, <2>3, <2>4, BillingStep
<1>3. CASE RefundTaskQuota(a)
  <2>1. status[t] = "FAILURE" /\ bill[t] = "held" /\ tokenQuota[t] = Quota
        /\ funding[t] = Quota
    BY <1>0, <1>3 DEF RefundTaskQuota, QueueInv, MoneyInv, BillInv, TaskMoney
  <2>2. CASE /\ bill' = [bill EXCEPT ![t] = "kept"]
             /\ Leave(a) /\ UNCHANGED <<funding, tainted>>
    <3>1. TaskMoney(t)'
      BY <1>0, <1>1, <1>3, <2>1, <2>2 DEF TaskMoney, RefundTaskQuota
    <3>2. OthersStay(a) /\ pc'[a] \notin Billing
      BY <2>2, LeaveStops DEF QueueInv
    <3>3. UNCHANGED tokenQuota
      BY <1>3 DEF RefundTaskQuota
    <3>. QED  BY <1>0, <1>1, <2>2, <3>1, <3>2, <3>3, BillingStep
  <2>3. CASE /\ funding' = [funding EXCEPT ![t] = @ - Quota]
             /\ bill' = [bill EXCEPT ![t] = "refunded"]
             /\ pc' = [pc EXCEPT ![a] = "token"]
             /\ UNCHANGED <<job, result, tainted>>
    <3>1. UNCHANGED tokenQuota
      BY <1>3 DEF RefundTaskQuota
    <3>2. pc'[a] = "token" /\ job'[a] = t /\ InBilling(t)'
      BY <1>0, <1>1, <2>3 DEF InBilling
    <3>3. TaskMoney(t)'
      BY <1>0, <1>1, <2>1, <2>3, <3>1, <3>2 DEF TaskMoney, Quota
    <3>4. OthersStay(a)
      BY <1>1, <2>3 DEF OthersStay
    <3>. QED  BY <1>0, <1>1, <2>1, <2>3, <3>1, <3>2, <3>3, <3>4, BillingStep
  <2>4. CASE Leave(a) /\ tainted' = tainted \cup {t} /\ UNCHANGED <<bill, funding>>
    <3>1. UNCHANGED tokenQuota
      BY <1>3 DEF RefundTaskQuota
    <3>2. TaskMoney(t)'
      BY <1>0, <2>1, <2>4, <3>1 DEF TaskMoney
    <3>3. OthersStay(a) /\ pc'[a] \notin Billing
      BY <2>4, LeaveStops DEF QueueInv
    <3>. QED  BY <1>0, <2>4, <3>1, <3>2, <3>3, BillingStep
  <2>. QED  BY <1>0, <1>3, <2>2, <2>3, <2>4 DEF RefundTaskQuota
<1>4. CASE RefundTaskToken(a)
  <2>1. bill[t] = "refunded" /\ tokenQuota[t] = Quota /\ funding[t] = 0
        /\ status[t] = "FAILURE"
    BY <1>0, <1>4 DEF RefundTaskToken, QueueInv, MoneyInv, BillInv, TaskMoney
  <2>2. Leave(a) /\ UNCHANGED <<funding, bill>>
    BY <1>4 DEF RefundTaskToken
  <2>3. OthersStay(a) /\ pc'[a] \notin Billing
    BY <2>2, LeaveStops DEF QueueInv
  <2>4. CASE tokenQuota' = [tokenQuota EXCEPT ![t] = TokenAfterRefund(t)] /\ UNCHANGED tainted
    <3>1. tokenQuota'[t] = 0
      BY <1>0, <1>1, <2>1, <2>4 DEF TokenAfterRefund, Quota
    <3>2. TaskMoney(t)'
      BY <1>0, <2>1, <2>2, <3>1 DEF TaskMoney, Quota
    <3>. QED  BY <1>0, <1>1, <2>2, <2>3, <2>4, <3>2, BillingStep
  <2>5. CASE tainted' = tainted \cup {t} /\ UNCHANGED tokenQuota
    <3>1. TaskMoney(t)'
      BY <1>0, <2>1, <2>2, <2>5 DEF TaskMoney
    <3>. QED  BY <1>0, <2>2, <2>3, <2>5, <3>1, BillingStep
  <2>. QED  BY <1>0, <1>4, <2>4, <2>5 DEF RefundTaskToken
<1>. QED  BY <1>2, <1>3, <1>4

LEMMA CrashStep ==
    ASSUME QueueInv, NEW n \in Nodes, Crash(n)
    PROVE  MoneyInv'
<1>1. \A b \in Actors : pc'[b] \in Billing =>
          pc[b] = pc'[b] /\ job'[b] = job[b] /\ result'[b] = result[b]
  BY DEF Crash, Billing
<1>2. UNCHANGED <<status, funding, tokenQuota, bill>> /\ tainted \subseteq tainted'
  BY DEF Crash, row
<1>3. BillInv'
  BY <1>1, <1>2 DEF QueueInv, MoneyInv, BillInv, Billing, Outcome
<1>4. SoleBiller'
  BY <1>1 DEF QueueInv, MoneyInv, SoleBiller
<1>5. ASSUME NEW t \in Tasks PROVE TaskMoney(t)'
  <2>1. TaskMoney(t)
    BY DEF QueueInv, MoneyInv, TaskMoneyExact
  <2>2. InBilling(t) => InBilling(t)' \/ t \in tainted'
    BY DEF InBilling, Crash
  <2>. QED  BY <1>2, <2>1, <2>2 DEF TaskMoney, Finished
<1>. QED  BY <1>3, <1>4, <1>5 DEF MoneyInv, TaskMoneyExact

\* Steps that touch neither an actor nor a status nor money.
LEMMA QuietStep ==
    ASSUME QueueInv, UNCHANGED <<status, pc, job, result, money>>
    PROVE  MoneyInv'
  BY DEF QueueInv, MoneyInv, BillInv, SoleBiller, TaskMoneyExact, TaskMoney, Outcome,
         Finished, InBilling, money

\* Workers take, claim, load and execute; sweepers scan: nothing is billed.
LEMMA WorkingSteps ==
    ASSUME QueueInv, NEW a \in Actors,
           \/ a \in Workers /\ (TakeLocal(a) \/ TakeRedis(a) \/ Claim(a) \/ Load(a) \/ Execute(a))
           \/ a \in Sweepers /\ (SweepScan(a) \/ SweepEnds(a))
    PROVE  MoneyInv'
<1>0. /\ pc \in [Actors -> PCs] /\ job \in [Actors -> Tasks \cup {NoTask}]
      /\ result \in [Actors -> Results] /\ status \in [Tasks -> Statuses]
  BY DEF QueueInv, TypeInv, TypeOK
<1>1. UNCHANGED money
  BY DEF TakeLocal, TakeRedis, Claims, Claim, Load, Execute, SweepScan, SweepEnds
<1>2. ASSUME a \in Workers, Return(a) PROVE OthersStay(a) /\ pc'[a] \notin Billing
  BY <1>2, LeaveStops DEF Leave, QueueInv
<1>3. CASE a \in Workers /\ (TakeLocal(a) \/ TakeRedis(a))
  <2>1. OthersStay(a) /\ pc[a] \notin Billing /\ pc'[a] \notin Billing
    BY <1>0, <1>3 DEF TakeLocal, TakeRedis, Claims, OthersStay, Billing
  <2>2. NoOutcome
    BY <1>3 DEF TakeLocal, TakeRedis, Claims, NoOutcome, row
  <2>. QED  BY <1>1, <2>1, <2>2, PlainStep
<1>4. CASE a \in Workers /\ Claim(a)
  <2>1. pc[a] \notin Billing /\ job[a] \in Tasks
    BY <1>4 DEF Claim, Billing, Busy, QueueInv, TypeInv, JobInv
  <2>2. OthersStay(a) /\ pc'[a] \notin Billing
    <3>1. CASE Return(a)
      BY <1>2, <1>4, <3>1
    <3>2. CASE ~Return(a)
      BY <1>0, <1>4, <3>2 DEF Claim, OthersStay, Billing
    <3>. QED  BY <3>1, <3>2
  <2>3. NoOutcome
    BY <1>0, <1>4, <2>1 DEF Claim, MayClaim, Claimable, NoOutcome, Unfinished, row
  <2>. QED  BY <1>1, <2>1, <2>2, <2>3, PlainStep
<1>5. CASE a \in Workers /\ Load(a)
  <2>1. OthersStay(a) /\ pc'[a] \notin Billing
    <3>1. CASE Return(a)
      BY <1>2, <1>5, <3>1
    <3>2. CASE ~Return(a)
      BY <1>0, <1>5, <3>2 DEF Load, OthersStay, Billing
    <3>. QED  BY <3>1, <3>2
  <2>2. NoOutcome /\ pc[a] \notin Billing
    BY <1>5 DEF Load, NoOutcome, row, Billing
  <2>. QED  BY <1>1, <2>1, <2>2, PlainStep
<1>6. CASE a \in Workers /\ Execute(a)
  <2>1. OthersStay(a) /\ pc[a] \notin Billing /\ pc'[a] \notin Billing
    BY <1>0, <1>6 DEF Execute, OthersStay, Billing
  <2>2. NoOutcome
    BY <1>6 DEF Execute, NoOutcome, row
  <2>. QED  BY <1>1, <2>1, <2>2, PlainStep
<1>7. CASE a \in Sweepers /\ (SweepScan(a) \/ SweepEnds(a))
  <2>1. OthersStay(a) /\ pc[a] \notin Billing /\ pc'[a] \notin Billing
    BY <1>0, <1>7 DEF SweepScan, SweepEnds, OthersStay, Billing
  <2>2. NoOutcome
    BY <1>7 DEF SweepScan, SweepEnds, NoOutcome, row
  <2>. QED  BY <1>1, <2>1, <2>2, PlainStep
<1>. QED  BY <1>3, <1>4, <1>5, <1>6, <1>7

\* The two compare-and-swaps: the winner bills, the loser does nothing.
LEMMA EndingSteps ==
    ASSUME QueueInv, NEW a \in Actors,
           \/ a \in Workers /\ Finish(a)
           \/ a \in Sweepers /\ \E t \in Tasks : SweepTask(a, t)
    PROVE  MoneyInv'
<1>0. /\ pc \in [Actors -> PCs] /\ job \in [Actors -> Tasks \cup {NoTask}]
      /\ result \in [Actors -> Results] /\ status \in [Tasks -> Statuses]
  BY DEF QueueInv, TypeInv, TypeOK
<1>1. UNCHANGED money /\ pc[a] \notin Billing
  BY DEF Finish, SweepTask, Billing
<1>2. CASE a \in Workers /\ Finish(a)
  <2>1. CASE Return(a) /\ UNCHANGED row
    <3>1. OthersStay(a) /\ pc'[a] \notin Billing
      BY <1>2, <2>1, LeaveStops DEF Leave, QueueInv
    <3>2. NoOutcome
      BY <2>1 DEF NoOutcome, row
    <3>. QED  BY <1>1, <3>1, <3>2, PlainStep
  <2>2. CASE ~(Return(a) /\ UNCHANGED row)
    <3>1. PICK t \in Tasks : t = job[a]
      BY <1>2 DEF Finish, QueueInv, TypeInv, JobInv, Busy
    <3>2. /\ status' = [status EXCEPT ![t] = Outcome(a)] /\ status[t] = "IN_PROGRESS"
          /\ pc' = [pc EXCEPT ![a] = "bill"] /\ UNCHANGED <<job, result>>
      BY <1>2, <2>2, <3>1 DEF Finish, HoldsLease
    <3>3. Outcome(a)' = Outcome(a) /\ Outcome(a) \in {"SUCCESS", "FAILURE"}
      BY <3>2 DEF Outcome
    <3>4. OthersStay(a) /\ pc'[a] = "bill" /\ job'[a] = t /\ Unfinished(t)
      BY <1>0, <3>1, <3>2 DEF OthersStay, Unfinished
    <3>. QED  BY <1>1, <3>2, <3>3, <3>4, WinningStep
  <2>. QED  BY <2>1, <2>2
<1>3. CASE a \in Sweepers /\ \E t \in Tasks : SweepTask(a, t)
  <2>1. PICK t \in Tasks : SweepTask(a, t)
    BY <1>3
  <2>2. CASE UNCHANGED <<status, pc, job, result>>
    <3>1. OthersStay(a) /\ pc'[a] \notin Billing /\ NoOutcome
      BY <1>1, <2>2 DEF OthersStay, NoOutcome
    <3>. QED  BY <1>1, <3>1, PlainStep
  <2>3. CASE ~UNCHANGED <<status, pc, job, result>>
    <3>1. /\ status[t] = seen[a][t] /\ seen[a][t] # "none"
          /\ status' = [status EXCEPT ![t] = "FAILURE"]
          /\ pc' = [pc EXCEPT ![a] = "bill"] /\ job' = [job EXCEPT ![a] = t]
          /\ result' = [result EXCEPT ![a] = "TIMEOUT"]
      BY <2>1, <2>3 DEF SweepTask, StillAsSeen
    <3>2. Unfinished(t)
      BY <1>3, <3>1 DEF Unfinished, QueueInv, SeenInv
    <3>3. Outcome(a)' = "FAILURE"
      BY <1>0, <3>1 DEF Outcome
    <3>4. OthersStay(a) /\ pc'[a] = "bill" /\ job'[a] = t
      BY <1>0, <3>1 DEF OthersStay
    <3>. QED  BY <1>1, <3>1, <3>2, <3>3, <3>4, WinningStep
  <2>. QED  BY <2>2, <2>3
<1>. QED  BY <1>2, <1>3

LEMMA SubmitStep ==
    ASSUME QueueInv, NEW n \in Nodes, NEW t \in Tasks, Submit(n, t)
    PROVE  MoneyInv'
<1>0. /\ \A b \in Actors : pc[b] \in Billing => job[b] \in Tasks
      /\ status \in [Tasks -> Statuses] /\ funding \in [Tasks -> Int]
      /\ tokenQuota \in [Tasks -> Int] /\ bill \in [Tasks -> Bills]
  BY DEF QueueInv, TypeInv, TypeOK, JobInv, Busy, Billing
<1>1. /\ UNCHANGED <<pc, job, result, bill, tainted>> /\ status[t] = "none"
      /\ status' = [status EXCEPT ![t] = "QUEUED"]
      /\ funding' = [funding EXCEPT ![t] = Quota]
      /\ tokenQuota' = [tokenQuota EXCEPT ![t] = Quota]
  BY DEF Submit, actor
<1>2. TaskMoney(t) /\ bill[t] = "held"
  BY <1>0, <1>1 DEF QueueInv, MoneyInv, TaskMoneyExact, TaskMoney, Bills
<1>3. \A b \in Actors : pc[b] \in Billing => job[b] # t
  BY <1>1, <1>2 DEF QueueInv, MoneyInv, BillInv, Billing, Outcome
<1>4. BillInv'
  BY <1>0, <1>1, <1>3 DEF QueueInv, MoneyInv, BillInv, Billing, Outcome
<1>5. SoleBiller'
  BY <1>1 DEF QueueInv, MoneyInv, SoleBiller
<1>6. ASSUME NEW u \in Tasks PROVE TaskMoney(u)'
  <2>1. TaskMoney(u) /\ (InBilling(u)' <=> InBilling(u))
    BY <1>1 DEF QueueInv, MoneyInv, TaskMoneyExact, InBilling
  <2>2. CASE u = t
    BY <1>0, <1>1, <1>2, <2>2 DEF TaskMoney, Quota, Finished
  <2>3. CASE u # t
    BY <1>0, <1>1, <2>1, <2>3 DEF TaskMoney, Finished
  <2>. QED  BY <2>2, <2>3
<1>. QED  BY <1>4, <1>5, <1>6 DEF MoneyInv, TaskMoneyExact

LEMMA SeenStep == QueueInv /\ [Next]_vars => SeenInv'
<1>. SUFFICES ASSUME QueueInv, [Next]_vars PROVE SeenInv'
  OBVIOUS
<1>0. seen \in [Sweepers -> [Tasks -> Statuses]] /\ SeenInv
  BY DEF QueueInv, TypeInv, TypeOK
<1>1. CASE UNCHANGED seen
  BY <1>0, <1>1 DEF SeenInv
<1>2. ASSUME NEW s \in Sweepers, SweepScan(s) PROVE SeenInv'
  <2>1. PICK old \in SUBSET {t \in Tasks : Unfinished(t)} : seen' = [seen EXCEPT ![s] =
            [t \in Tasks |-> IF t \in old THEN status[t] ELSE "none"]]
    BY <1>2 DEF SweepScan
  <2>. QED  BY <1>0, <2>1 DEF SeenInv, Unfinished
<1>3. ASSUME NEW s \in Sweepers, NEW t \in Tasks, SweepTask(s, t) PROVE SeenInv'
  BY <1>0, <1>3 DEF SweepTask, SeenInv
<1>4. ASSUME NEW a \in Actors, SettleTask(a) \/ RefundTaskQuota(a) \/ RefundTaskToken(a)
      PROVE  UNCHANGED seen
  BY <1>4 DEF SettleTask, RefundTaskQuota, RefundTaskToken, Leave, Return
<1>5. ASSUME NEW w \in Workers, WorkerStep(w) \/ Renew(w) PROVE UNCHANGED seen
  BY <1>4, <1>5 DEF WorkerStep, TakeLocal, TakeRedis, Claims, Claim, Load, Execute,
                    Finish, Return, Renew, actor, Actors
<1>6. ASSUME NEW s \in Sweepers, SweeperStep(s) PROVE SeenInv'
  <2>1. ASSUME SweepEnds(s) PROVE UNCHANGED seen
    BY <2>1 DEF SweepEnds
  <2>. QED  BY <1>1, <1>2, <1>3, <1>4, <1>6, <2>1 DEF SweeperStep, Actors
<1>7. ASSUME NEW n \in Nodes, NEW t \in Tasks, Submit(n, t) \/ Dispatch(n, t)
      PROVE  UNCHANGED seen
  BY <1>7 DEF Submit, Dispatch, actor
<1>8. ASSUME NEW t \in Tasks, EnqueueTask(t) \/ DedupExpires(t) \/ LeaseExpires(t)
      PROVE  UNCHANGED seen
  BY <1>8 DEF EnqueueTask, DedupExpires, LeaseExpires, actor
<1>9. ASSUME NEW n \in Nodes, AcquireLeadership(n) \/ LoseLeadership(n) \/ Crash(n)
      PROVE  UNCHANGED seen
  BY <1>9 DEF AcquireLeadership, LoseLeadership, Crash, actor
<1>10. ASSUME NEW x \in sending, SendLocal(x) \/ DropLocal(x) PROVE UNCHANGED seen
  BY <1>10, SendFrame DEF actor
<1>11. CASE UNCHANGED vars
  BY <1>1, <1>11 DEF vars, actor
<1>. QED  BY <1>1, <1>5, <1>6, <1>7, <1>8, <1>9, <1>10, <1>11 DEF Next

LEMMA QueueInit == Init => QueueInv
<1>. SUFFICES ASSUME Init PROVE QueueInv
  OBVIOUS
<1>1. TypeInv
  BY TypeInit
<1>2. SeenInv
  BY DEF Init, SeenInv
<1>3. BillInv /\ SoleBiller
  BY DEF Init, BillInv, SoleBiller, Billing
<1>4. TaskMoneyExact
  BY DEF Init, TaskMoneyExact, TaskMoney, Quota, Finished
<1>. QED  BY <1>1, <1>2, <1>3, <1>4 DEF QueueInv, MoneyInv

LEMMA QueueStep == QueueInv /\ [Next]_vars => QueueInv'
<1>. SUFFICES ASSUME QueueInv, [Next]_vars PROVE QueueInv'
  OBVIOUS
<1>0. TypeInv' /\ SeenInv'
  BY TypeStep, SeenStep DEF QueueInv
<1>1. ASSUME NEW n \in Nodes, NEW t \in Tasks, Submit(n, t) \/ Dispatch(n, t) PROVE MoneyInv'
  BY <1>1, SubmitStep, QuietStep DEF Dispatch, row, actor
<1>2. ASSUME NEW t \in Tasks, EnqueueTask(t) \/ DedupExpires(t) \/ LeaseExpires(t)
      PROVE MoneyInv'
  BY <1>2, QuietStep DEF EnqueueTask, DedupExpires, LeaseExpires, row, actor
<1>3. ASSUME NEW n \in Nodes, AcquireLeadership(n) \/ LoseLeadership(n) \/ Crash(n)
      PROVE MoneyInv'
  BY <1>3, CrashStep, QuietStep DEF AcquireLeadership, LoseLeadership, row, actor
<1>4. ASSUME NEW w \in Workers, WorkerStep(w) PROVE MoneyInv'
  <2>1. w \in Actors
    BY DEF Actors
  <2>. QED  BY <1>0, <1>4, <2>1, WorkingSteps, EndingSteps, BillingSteps DEF WorkerStep
<1>5. ASSUME NEW w \in Workers, Renew(w) PROVE MoneyInv'
  BY <1>5, QuietStep DEF Renew, actor
<1>6. ASSUME NEW s \in Sweepers, SweeperStep(s) PROVE MoneyInv'
  <2>1. s \in Actors
    BY DEF Actors
  <2>. QED  BY <1>0, <1>6, <2>1, WorkingSteps, EndingSteps, BillingSteps DEF SweeperStep
<1>7. ASSUME UNCHANGED vars PROVE MoneyInv'
  <2>1. UNCHANGED row /\ UNCHANGED actor /\ UNCHANGED money
    BY <1>7 DEF vars
  <2>. QED  BY <2>1, QuietStep DEF row, actor
<1>8. ASSUME NEW x \in sending, SendLocal(x) \/ DropLocal(x) PROVE MoneyInv'
  BY <1>8, SendFrame, QuietStep DEF row, actor
<1>. QED
  BY <1>0, <1>1, <1>2, <1>3, <1>4, <1>5, <1>6, <1>7, <1>8 DEF Next, QueueInv

\* However many workers, sweeps, crashes and lost leases race for a task, its
\* charge is held until it ends and then dealt with exactly once, on the funding
\* source and on the token (UpdateImageTaskWithLease, UpdateWithStatus and the
\* billing that follows them).
THEOREM QueueMoneyExact == Spec => []TaskMoneyExact
<1>1. QueueInv => TaskMoneyExact
  BY DEF QueueInv, MoneyInv
<1>. QED  BY <1>1, QueueInit, QueueStep, PTL DEF Spec

-----------------------------------------------------------------------------
(* What a step may do to the outcome and the charge of the tasks *)

LedgerStays == UNCHANGED bill /\ NoOutcome

\* Every step is a step of the ledger.
LEMMA LedgerSteps ==
    ASSUME QueueInv, [Next]_vars
    PROVE  \/ LedgerStays
           \/ /\ UNCHANGED bill
              /\ \E t \in Tasks : /\ status[t] = "none"
                                   /\ status' = [status EXCEPT ![t] = "QUEUED"]
           \/ /\ UNCHANGED bill
              /\ \E t \in Tasks, result_t \in {"SUCCESS", "FAILURE"} :
                    Unfinished(t) /\ status' = [status EXCEPT ![t] = result_t]
           \/ /\ UNCHANGED status
              /\ \E t \in Tasks, way \in {"settled", "refunded", "kept"} :
                    /\ bill[t] = "held" /\ bill' = [bill EXCEPT ![t] = way]
                    /\ status[t] = IF way = "settled" THEN "SUCCESS" ELSE "FAILURE"
<1>0. status \in [Tasks -> Statuses] /\ bill \in [Tasks -> Bills]
  BY DEF QueueInv, TypeInv, TypeOK
<1>1. CASE UNCHANGED <<status, bill>>
  BY <1>1 DEF LedgerStays, NoOutcome
<1>2. ASSUME NEW n \in Nodes, NEW t \in Tasks, Submit(n, t)
      PROVE  /\ UNCHANGED bill /\ status[t] = "none"
             /\ status' = [status EXCEPT ![t] = "QUEUED"]
  BY <1>2 DEF Submit
<1>3. ASSUME NEW n \in Nodes, NEW t \in Tasks, Dispatch(n, t)
      PROVE  UNCHANGED <<status, bill>>
  BY <1>3 DEF Dispatch, row, money
<1>4. ASSUME NEW t \in Tasks, EnqueueTask(t) \/ DedupExpires(t) \/ LeaseExpires(t)
      PROVE  UNCHANGED <<status, bill>>
  BY <1>4 DEF EnqueueTask, DedupExpires, LeaseExpires, row, money
<1>5. ASSUME NEW n \in Nodes, AcquireLeadership(n) \/ LoseLeadership(n) \/ Crash(n)
      PROVE  UNCHANGED <<status, bill>>
  BY <1>5 DEF AcquireLeadership, LoseLeadership, Crash, row, money
<1>6. ASSUME NEW w \in Workers, TakeLocal(w) \/ TakeRedis(w) \/ Load(w) \/ Execute(w) \/ Renew(w)
      PROVE  UNCHANGED <<status, bill>>
  BY <1>6 DEF TakeLocal, TakeRedis, Claims, Load, Execute, Renew, row, money
<1>7. ASSUME NEW w \in Workers, Claim(w) PROVE LedgerStays
  <2>1. job[w] \in Tasks
    BY <1>7 DEF Claim, QueueInv, TypeInv, JobInv, Busy, Actors
  <2>. QED
    BY <1>0, <1>7, <2>1
       DEF Claim, MayClaim, Claimable, LedgerStays, NoOutcome, Unfinished, row, money
<1>8. ASSUME NEW w \in Workers, Finish(w)
      PROVE  /\ UNCHANGED bill
             /\ \/ UNCHANGED status
                \/ \E t \in Tasks, result_t \in {"SUCCESS", "FAILURE"} :
                       Unfinished(t) /\ status' = [status EXCEPT ![t] = result_t]
  <2>1. job[w] \in Tasks /\ Outcome(w) \in {"SUCCESS", "FAILURE"}
    BY <1>8 DEF Finish, QueueInv, TypeInv, JobInv, Busy, Outcome, Actors
  <2>. QED  BY <1>8, <2>1 DEF Finish, HoldsLease, Unfinished, row, money
<1>9. ASSUME NEW s \in Sweepers, NEW t \in Tasks, SweepTask(s, t)
      PROVE  /\ UNCHANGED bill
             /\ \/ UNCHANGED status
                \/ Unfinished(t) /\ status' = [status EXCEPT ![t] = "FAILURE"]
  BY <1>9 DEF SweepTask, StillAsSeen, Unfinished, QueueInv, SeenInv, money
<1>10. ASSUME NEW s \in Sweepers, SweepScan(s) \/ SweepEnds(s)
       PROVE  UNCHANGED <<status, bill>>
  BY <1>10 DEF SweepScan, SweepEnds, row, money
<1>11. ASSUME NEW a \in Actors, SettleTask(a) \/ RefundTaskQuota(a) \/ RefundTaskToken(a)
       PROVE  /\ UNCHANGED status
              /\ \/ UNCHANGED bill
                 \/ \E t \in Tasks, way \in {"settled", "refunded", "kept"} :
                      /\ bill[t] = "held" /\ bill' = [bill EXCEPT ![t] = way]
                      /\ status[t] = IF way = "settled" THEN "SUCCESS" ELSE "FAILURE"
  <2>1. CASE SettleTask(a)
    <3>1. job[a] \in Tasks /\ bill[job[a]] = "held" /\ status[job[a]] = "SUCCESS"
      BY <2>1 DEF SettleTask, QueueInv, TypeInv, JobInv, Busy, MoneyInv, BillInv
    <3>. QED  BY <2>1, <3>1 DEF SettleTask, row
  <2>2. CASE RefundTaskQuota(a)
    <3>1. job[a] \in Tasks /\ bill[job[a]] = "held" /\ status[job[a]] = "FAILURE"
      BY <2>2 DEF RefundTaskQuota, QueueInv, TypeInv, JobInv, Busy, MoneyInv, BillInv
    <3>2. \/ UNCHANGED bill
          \/ bill' = [bill EXCEPT ![job[a]] = "kept"]
          \/ bill' = [bill EXCEPT ![job[a]] = "refunded"]
      BY <2>2 DEF RefundTaskQuota
    <3>3. UNCHANGED status
      BY <2>2 DEF RefundTaskQuota, row
    <3>. QED  BY <3>1, <3>2, <3>3
  <2>3. CASE RefundTaskToken(a)
    BY <2>3 DEF RefundTaskToken, row
  <2>. QED  BY <1>11, <2>1, <2>2, <2>3
<1>12. ASSUME NEW w \in Workers, WorkerStep(w)
       PROVE  TakeLocal(w) \/ TakeRedis(w) \/ Claim(w) \/ Load(w) \/ Execute(w) \/ Finish(w)
              \/ SettleTask(w) \/ RefundTaskQuota(w) \/ RefundTaskToken(w)
  BY <1>12 DEF WorkerStep
<1>13. CASE \E w \in Workers : WorkerStep(w)
  BY <1>1, <1>6, <1>7, <1>8, <1>11, <1>12, <1>13 DEF Actors
<1>14. CASE \E s \in Sweepers : SweeperStep(s)
  BY <1>1, <1>9, <1>10, <1>11, <1>14 DEF SweeperStep, Actors
<1>15. ASSUME NEW x \in sending, SendLocal(x) \/ DropLocal(x)
       PROVE  UNCHANGED <<status, bill>>
  BY <1>15, SendFrame DEF row, money
<1>16. CASE UNCHANGED vars
  BY <1>1, <1>16 DEF vars, row, money
<1>. QED  BY <1>1, <1>2, <1>3, <1>4, <1>5, <1>6, <1>13, <1>14, <1>15, <1>16 DEF Next

\* A finished task stays as it ended, whoever comes late: the compare-and-swaps
\* of UpdateImageTaskWithLease, UpdateWithStatus and ClaimImageAsyncTask.
THEOREM QueueFinishedIsFinal == Spec => FinishedIsFinal
<1>1. QueueInv /\ [Next]_vars =>
          [\A t \in Tasks : Finished(t) => status'[t] = status[t]]_vars
  <2>. SUFFICES ASSUME QueueInv, [Next]_vars, NEW t \in Tasks, Finished(t)
       PROVE  status'[t] = status[t]
    OBVIOUS
  <2>1. status \in [Tasks -> Statuses]
    BY DEF QueueInv, TypeInv, TypeOK
  <2>. QED
    BY <2>1, LedgerSteps DEF LedgerStays, NoOutcome, Unfinished, Finished
<1>. QED  BY <1>1, QueueInit, QueueStep, PTL DEF Spec, FinishedIsFinal

\* The queue implements TaskLedger: a task ends once, and is billed once,
\* afterwards, the way it ended ("Billing must only run after" the CAS).
THEOREM QueueImplementsLedger == Spec => ImplementsLedger
<1>. DEFINE outcome == [t \in Tasks |-> IF Unfinished(t) THEN "pending" ELSE status[t]]
<1>1. Init => Ledger!Init
  BY DEF Init, Ledger!Init, Unfinished
<1>2. QueueInv /\ [Next]_vars => [Ledger!Next]_Ledger!vars
  <2>. SUFFICES ASSUME QueueInv, [Next]_vars PROVE [Ledger!Next]_Ledger!vars
    OBVIOUS
  <2>0. status \in [Tasks -> Statuses] /\ bill \in [Tasks -> Bills]
    BY DEF QueueInv, TypeInv, TypeOK
  <2>1. CASE LedgerStays
    BY <2>1 DEF LedgerStays, NoOutcome, Unfinished, Ledger!vars
  <2>2. ASSUME UNCHANGED bill, NEW t \in Tasks, status[t] = "none",
               status' = [status EXCEPT ![t] = "QUEUED"]
        PROVE  Ledger!Next
    <3>1. outcome' = [outcome EXCEPT ![t] = "pending"] /\ outcome[t] = "none"
      BY <2>0, <2>2 DEF Unfinished
    <3>. QED  BY <2>2, <3>1 DEF Ledger!Next, Ledger!Submit
  <2>3. ASSUME UNCHANGED bill, NEW t \in Tasks, NEW r \in {"SUCCESS", "FAILURE"},
               Unfinished(t), status' = [status EXCEPT ![t] = r]
        PROVE  Ledger!Next
    <3>1. outcome' = [outcome EXCEPT ![t] = r] /\ outcome[t] = "pending"
      BY <2>0, <2>3 DEF Unfinished
    <3>. QED  BY <2>3, <3>1 DEF Ledger!Next, Ledger!End
  <2>4. ASSUME UNCHANGED status, NEW t \in Tasks, NEW way \in {"settled", "refunded", "kept"},
               bill[t] = "held", bill' = [bill EXCEPT ![t] = way],
               status[t] = IF way = "settled" THEN "SUCCESS" ELSE "FAILURE"
        PROVE  Ledger!Next
    <3>1. outcome' = outcome /\ outcome[t] = status[t]
      BY <2>4 DEF Unfinished
    <3>2. way \in Ledger!Ways(outcome[t])
      BY <2>4, <3>1 DEF Ledger!Ways
    <3>. QED  BY <2>4, <3>1, <3>2 DEF Ledger!Next, Ledger!Bill
  <2>. QED  BY <2>1, <2>2, <2>3, <2>4, LedgerSteps
<1>. QED  BY <1>1, <1>2, QueueInit, QueueStep, PTL DEF Spec, ImplementsLedger, Ledger!Spec

-----------------------------------------------------------------------------
(***************************************************************************)
(* The lease.  ClaimIsExclusive and UpstreamCallsBounded follow from an    *)
(* account of the claims: every claim but the first has a lease that ran   *)
(* out before it, and a claim is spent on at most one upstream call, the   *)
(* workers between the UPDATE and the SELECT of ClaimImageAsyncTask        *)
(* holding claims that are not spent yet.  Two of them may even be on one  *)
(* node and both find the row theirs, so the workers have to be counted.   *)
(***************************************************************************)

InHand == {"load", "run", "finish"}

Holds(w, t) == job[w] = t /\ pc[w] \in InHand

\* The workers whose claim of t is not spent yet.
Loading(t) == {w \in Workers : job[w] = t /\ pc[w] = "load"}

TaskLease(t) ==
    /\ status[t] \in {"none", "QUEUED"} =>
          attempt[t] = 0 /\ \A w \in Workers : ~Holds(w, t)
    /\ status[t] = "IN_PROGRESS" => 1 <= attempt[t]
    /\ status[t] = "IN_PROGRESS" /\ lease[t] = "expired" => attempt[t] <= expiries[t]
    /\ attempt[t] <= 1 + expiries[t]
    /\ expiries[t] = 0 => \A v, w \in Workers : Holds(v, t) /\ Holds(w, t) => v = w
    /\ IsFiniteSet(Loading(t))
    /\ runs[t] + Cardinality(Loading(t)) <= attempt[t]
    /\ runs[t] <= MaxAttempts

LeaseInv == TypeInv /\ \A t \in Tasks : TaskLease(t)

\* A finite set that loses or gains a worker.
LEMMA Fewer ==
    ASSUME NEW S, IsFiniteSet(S), NEW R \in SUBSET S
    PROVE  IsFiniteSet(R) /\ Cardinality(R) \in Nat /\ Cardinality(S) \in Nat
           /\ Cardinality(R) <= Cardinality(S)
  BY FS_Subset, FS_CardinalityType

LEMMA OneMore ==
    ASSUME NEW S, IsFiniteSet(S), NEW x, x \notin S
    PROVE  IsFiniteSet(S \cup {x}) /\ Cardinality(S) \in Nat
           /\ Cardinality(S \cup {x}) = Cardinality(S) + 1
  BY FS_AddElement, FS_CardinalityType

LEMMA OneLess ==
    ASSUME NEW S, IsFiniteSet(S), NEW x \in S
    PROVE  IsFiniteSet(S \ {x}) /\ Cardinality(S \ {x}) \in Nat
           /\ Cardinality(S) = Cardinality(S \ {x}) + 1
<1>1. IsFiniteSet(S \ {x}) /\ (S \ {x}) \cup {x} = S /\ x \notin S \ {x}
  BY FS_Subset
<1>. QED  BY <1>1, OneMore

\* A step that neither claims nor loads nor lets a lease run out keeps the
\* account of a task: it may end the task, renew its lease or take it out of a
\* worker's hands.
LEMMA KeepLease ==
    ASSUME LeaseInv, TypeInv', NEW t \in Tasks,
           UNCHANGED <<attempt, expiries, runs>>,
           \/ status'[t] = status[t] /\ (lease'[t] = lease[t] \/ lease'[t] = "live")
           \/ Finished(t)',
           \A w \in Workers : Holds(w, t)' => Holds(w, t),
           Loading(t)' \subseteq Loading(t)
    PROVE  TaskLease(t)'
<1>0. /\ attempt[t] \in Nat /\ runs[t] \in Nat /\ expiries[t] \in Nat
      /\ attempt'[t] = attempt[t] /\ runs'[t] = runs[t] /\ expiries'[t] = expiries[t]
  BY DEF LeaseInv, TypeInv, TypeOK
<1>1. TaskLease(t)
  BY DEF LeaseInv
<1>2. /\ IsFiniteSet(Loading(t)') /\ Cardinality(Loading(t)') \in Nat
      /\ Cardinality(Loading(t)) \in Nat
      /\ Cardinality(Loading(t)') <= Cardinality(Loading(t))
  BY <1>1, Fewer DEF TaskLease
<1>3. runs'[t] + Cardinality(Loading(t)') <= attempt'[t]
  BY <1>0, <1>1, <1>2 DEF TaskLease
<1>4. CASE Finished(t)'
  BY <1>0, <1>1, <1>2, <1>3, <1>4 DEF TaskLease, Finished
<1>5. CASE ~Finished(t)'
  BY <1>0, <1>1, <1>2, <1>3, <1>5 DEF TaskLease
<1>. QED  BY <1>4, <1>5

\* What a worker that returns, and one that goes from one place to another,
\* have in hand.
LEMMA HandsOf ==
    ASSUME TypeInv, NEW a \in Actors, OthersStay(a),
           pc'[a] \in InHand => pc[a] \in InHand /\ job'[a] = job[a],
           pc'[a] = "load" => pc[a] = "load",
           NEW t \in Tasks
    PROVE  /\ \A w \in Workers : Holds(w, t)' => Holds(w, t)
           /\ Loading(t)' \subseteq Loading(t)
<1>1. \A w \in Workers : w # a => pc'[w] = pc[w] /\ job'[w] = job[w]
  BY DEF OthersStay, Actors
<1>2. \A w \in Workers : pc'[w] \in InHand => pc[w] \in InHand /\ job'[w] = job[w]
  BY <1>1
<1>3. \A w \in Workers : pc'[w] = "load" => pc[w] = "load" /\ job'[w] = job[w]
  BY <1>1, <1>2 DEF InHand
<1>. QED  BY <1>2, <1>3 DEF Holds, Loading

\* No process, hint, leader or sweep scan touches the account.
LEMMA QuietLease ==
    ASSUME LeaseInv, TypeInv', UNCHANGED <<row, pc, job, expiries, runs>>, NEW t \in Tasks
    PROVE  TaskLease(t)'
<1>1. Loading(t)' \subseteq Loading(t) /\ \A w \in Workers : Holds(w, t)' => Holds(w, t)
  BY DEF Loading, Holds
<1>2. status' = status /\ lease' = lease /\ attempt' = attempt
  BY DEF row
<1>. QED  BY <1>1, <1>2, KeepLease

LEMMA ClaimLease ==
    ASSUME LeaseInv, TypeInv', NEW w \in Workers, Claim(w), NEW t \in Tasks
    PROVE  TaskLease(t)'
<1>0. /\ w \in Actors /\ pc \in [Actors -> PCs] /\ job \in [Actors -> Tasks \cup {NoTask}]
      /\ result \in [Actors -> Results]
      /\ status \in [Tasks -> Statuses] /\ lease \in [Tasks -> {"live", "expired"}]
      /\ attempt \in [Tasks -> Nat] /\ runs \in [Tasks -> Nat] /\ expiries \in [Tasks -> Nat]
      /\ pc[w] = "claim" /\ runs' = runs /\ expiries' = expiries
  BY DEF LeaseInv, TypeInv, TypeOK, Actors, Claim
<1>1. CASE Return(w) /\ UNCHANGED row
  <2>1. OthersStay(w) /\ pc'[w] = "idle"
    BY <1>0, <1>1 DEF Return, OthersStay
  <2>2. Loading(t)' \subseteq Loading(t) /\ \A v \in Workers : Holds(v, t)' => Holds(v, t)
    BY <1>0, <2>1, HandsOf DEF InHand, LeaseInv
  <2>. QED  BY <1>0, <1>1, <2>2, KeepLease DEF row
<1>2. CASE ~(Return(w) /\ UNCHANGED row)
  <2>1. PICK u \in Tasks : u = job[w]
    BY <1>0 DEF LeaseInv, TypeInv, JobInv, Busy
  <2>2. /\ Claimable(u)
        /\ status' = [status EXCEPT ![u] = "IN_PROGRESS"]
        /\ lease' = [lease EXCEPT ![u] = "live"]
        /\ attempt' = [attempt EXCEPT ![u] = @ + 1]
        /\ pc' = [pc EXCEPT ![w] = "load"] /\ job' = job
    BY <1>2, <2>1 DEF Claim, MayClaim
  <2>3. TaskLease(t)
    BY DEF LeaseInv
  <2>4. CASE t = u
    <3>1. w \notin Loading(t) /\ Loading(t)' = Loading(t) \cup {w}
      BY <1>0, <2>1, <2>2, <2>4 DEF Loading
    <3>2. /\ IsFiniteSet(Loading(t)') /\ Cardinality(Loading(t)) \in Nat
          /\ Cardinality(Loading(t)') = Cardinality(Loading(t)) + 1
      BY <2>3, <3>1, OneMore DEF TaskLease
    <3>3. attempt[t] <= expiries[t]
      BY <1>0, <2>2, <2>3, <2>4 DEF Claimable, TaskLease
    <3>4. expiries[t] = 0 => status[t] = "QUEUED"
      BY <1>0, <2>2, <2>3, <2>4, <3>3 DEF Claimable, TaskLease
    <3>5. \A v \in Workers : Holds(v, t)' => Holds(v, t) \/ v = w
      BY <1>0, <2>2 DEF Holds
    <3>6. expiries[t] = 0 => \A v \in Workers : Holds(v, t)' => v = w
      BY <2>3, <3>4, <3>5 DEF TaskLease
    <3>7. /\ status'[t] = "IN_PROGRESS" /\ lease'[t] = "live"
          /\ attempt'[t] = attempt[t] + 1
      BY <1>0, <2>2, <2>4
    <3>8. runs'[t] + Cardinality(Loading(t)') <= attempt'[t]
      BY <1>0, <2>3, <3>2, <3>7 DEF TaskLease
    <3>. QED  BY <1>0, <2>3, <3>2, <3>3, <3>6, <3>7, <3>8 DEF TaskLease
  <2>5. CASE t # u
    <3>1. Loading(t)' = Loading(t) /\ \A v \in Workers : Holds(v, t)' <=> Holds(v, t)
      BY <1>0, <2>1, <2>2, <2>5 DEF Loading, Holds
    <3>2. /\ status'[t] = status[t] /\ lease'[t] = lease[t] /\ attempt'[t] = attempt[t]
          /\ runs'[t] = runs[t] /\ expiries'[t] = expiries[t]
      BY <1>0, <2>2, <2>5
    <3>. QED  BY <2>3, <3>1, <3>2 DEF TaskLease
  <2>. QED  BY <2>4, <2>5
<1>. QED  BY <1>1, <1>2

LEMMA LoadLease ==
    ASSUME LeaseInv, TypeInv', NEW w \in Workers, Load(w), NEW t \in Tasks
    PROVE  TaskLease(t)'
<1>0. /\ w \in Actors /\ pc \in [Actors -> PCs] /\ job \in [Actors -> Tasks \cup {NoTask}]
      /\ result \in [Actors -> Results] /\ attempt \in [Tasks -> Nat]
      /\ runs \in [Tasks -> Nat] /\ expiries \in [Tasks -> Nat]
      /\ pc[w] = "load" /\ UNCHANGED <<status, lease, attempt, expiries>>
  BY DEF LeaseInv, TypeInv, TypeOK, Actors, Load, row
<1>1. OthersStay(w) /\ pc'[w] # "load" /\ (pc'[w] \in InHand => job'[w] = job[w])
  <2>1. CASE Return(w)
    BY <1>0, <2>1 DEF Return, OthersStay, InHand
  <2>2. CASE ~Return(w)
    BY <1>0, <2>2 DEF Load, OthersStay
  <2>. QED  BY <2>1, <2>2
<1>2. Loading(t)' \subseteq Loading(t) /\ \A v \in Workers : Holds(v, t)' => Holds(v, t)
  BY <1>0, <1>1, HandsOf DEF InHand, LeaseInv
<1>3. CASE UNCHANGED runs
  BY <1>0, <1>2, <1>3, KeepLease
<1>4. CASE ~UNCHANGED runs
  <2>1. PICK u \in Tasks : u = job[w]
    BY <1>0 DEF LeaseInv, TypeInv, JobInv, Busy
  <2>2. /\ attempt[u] <= MaxAttempts /\ runs' = [runs EXCEPT ![u] = @ + 1]
    BY <1>0, <1>4, <2>1, BoundAssumption DEF Load, Exceeded
  <2>3. TaskLease(t)
    BY DEF LeaseInv
  <2>4. CASE t = u
    <3>1. w \in Loading(t) /\ Loading(t)' \subseteq Loading(t) \ {w}
      BY <1>0, <1>1, <1>2, <2>1, <2>4 DEF Loading
    <3>2. /\ IsFiniteSet(Loading(t) \ {w}) /\ Cardinality(Loading(t) \ {w}) \in Nat
          /\ Cardinality(Loading(t)) = Cardinality(Loading(t) \ {w}) + 1
      BY <2>3, <3>1, OneLess DEF TaskLease
    <3>3. /\ IsFiniteSet(Loading(t)') /\ Cardinality(Loading(t)') \in Nat
          /\ Cardinality(Loading(t)') <= Cardinality(Loading(t) \ {w})
      BY <3>1, <3>2, Fewer
    <3>4. runs'[t] = runs[t] + 1
      BY <1>0, <2>2, <2>4
    <3>5. runs'[t] + Cardinality(Loading(t)') <= attempt[t]
      BY <1>0, <2>3, <3>2, <3>3, <3>4 DEF TaskLease
    <3>6. runs'[t] <= MaxAttempts
      BY <1>0, <2>2, <2>4, <3>3, <3>4, <3>5, BoundAssumption
    <3>. QED  BY <1>0, <1>2, <2>3, <3>3, <3>5, <3>6 DEF TaskLease
  <2>5. CASE t # u
    <3>1. runs'[t] = runs[t] /\ Loading(t)' = Loading(t)
      BY <1>0, <1>1, <2>1, <2>2, <2>5 DEF Loading, OthersStay, Actors
    <3>. QED  BY <1>0, <1>2, <2>3, <3>1 DEF TaskLease
  <2>. QED  BY <2>4, <2>5
<1>. QED  BY <1>3, <1>4

LEMMA ExpiryLease ==
    ASSUME LeaseInv, NEW u \in Tasks, LeaseExpires(u), NEW t \in Tasks
    PROVE  TaskLease(t)'
<1>0. /\ attempt \in [Tasks -> Nat] /\ expiries \in [Tasks -> Nat] /\ runs \in [Tasks -> Nat]
      /\ lease \in [Tasks -> {"live", "expired"}]
      /\ UNCHANGED <<status, attempt, runs, pc, job>> /\ status[u] = "IN_PROGRESS"
      /\ lease' = [lease EXCEPT ![u] = "expired"]
      /\ expiries' = [expiries EXCEPT ![u] = @ + 1]
  BY DEF LeaseInv, TypeInv, TypeOK, LeaseExpires, actor
<1>1. TaskLease(t) /\ Loading(t)' = Loading(t) /\ \A w \in Workers : Holds(w, t)' <=> Holds(w, t)
  BY <1>0 DEF LeaseInv, Loading, Holds
<1>2. CASE t = u
  BY <1>0, <1>1, <1>2 DEF TaskLease
<1>3. CASE t # u
  BY <1>0, <1>1, <1>3 DEF TaskLease
<1>. QED  BY <1>2, <1>3

LEMMA SubmitLease ==
    ASSUME LeaseInv, NEW n \in Nodes, NEW u \in Tasks, Submit(n, u), NEW t \in Tasks
    PROVE  TaskLease(t)'
<1>0. /\ status \in [Tasks -> Statuses] /\ status[u] = "none"
      /\ status' = [status EXCEPT ![u] = "QUEUED"]
      /\ UNCHANGED <<lease, attempt, runs, expiries, pc, job>>
  BY DEF LeaseInv, TypeInv, TypeOK, Submit, actor
<1>1. TaskLease(t) /\ Loading(t)' = Loading(t) /\ \A w \in Workers : Holds(w, t)' <=> Holds(w, t)
  BY <1>0 DEF LeaseInv, Loading, Holds
<1>2. CASE t = u
  BY <1>0, <1>1, <1>2 DEF TaskLease
<1>3. CASE t # u
  BY <1>0, <1>1, <1>3 DEF TaskLease
<1>. QED  BY <1>2, <1>3

\* The other steps of a worker or a sweeper.
LEMMA ActorLease ==
    ASSUME LeaseInv, SeenInv, TypeInv', NEW a \in Actors, NEW t \in Tasks,
           \/ /\ a \in Workers
              /\ \/ TakeLocal(a) \/ TakeRedis(a) \/ Execute(a) \/ Finish(a)
                 \/ Renew(a)
           \/ SettleTask(a) \/ RefundTaskQuota(a) \/ RefundTaskToken(a)
           \/ a \in Sweepers /\ (SweepScan(a) \/ SweepEnds(a) \/ \E u \in Tasks : SweepTask(a, u))
    PROVE  TaskLease(t)'
<1>0. /\ pc \in [Actors -> PCs] /\ job \in [Actors -> Tasks \cup {NoTask}]
      /\ result \in [Actors -> Results] /\ status \in [Tasks -> Statuses]
      /\ lease \in [Tasks -> {"live", "expired"}] /\ TypeInv
  BY DEF LeaseInv, TypeInv, TypeOK
<1>1. UNCHANGED <<attempt, expiries, runs>>
  BY DEF TakeLocal, TakeRedis, Claims, Execute, Finish, Renew, SettleTask, RefundTaskQuota,
         RefundTaskToken, SweepScan, SweepEnds, SweepTask, row
<1>2. ASSUME OthersStay(a), pc'[a] \in InHand => pc[a] \in InHand /\ job'[a] = job[a],
             pc'[a] = "load" => pc[a] = "load",
             \/ status'[t] = status[t] /\ (lease'[t] = lease[t] \/ lease'[t] = "live")
             \/ Finished(t)'
      PROVE  TaskLease(t)'
  <2>1. Loading(t)' \subseteq Loading(t) /\ \A v \in Workers : Holds(v, t)' => Holds(v, t)
    BY <1>0, <1>2, HandsOf
  <2>. QED  BY <1>1, <1>2, <2>1, KeepLease
<1>3. CASE a \in Workers /\ (TakeLocal(a) \/ TakeRedis(a))
  <2>1. OthersStay(a) /\ pc'[a] = "claim" /\ UNCHANGED row
    BY <1>0, <1>3 DEF TakeLocal, TakeRedis, Claims, OthersStay
  <2>. QED  BY <1>2, <2>1 DEF InHand, row
<1>4. CASE a \in Workers /\ Execute(a)
  <2>1. OthersStay(a) /\ pc[a] = "run" /\ pc'[a] = "finish" /\ job'[a] = job[a] /\ UNCHANGED row
    BY <1>0, <1>4 DEF Execute, OthersStay
  <2>. QED  BY <1>2, <2>1 DEF InHand, row
<1>5. CASE a \in Workers /\ Finish(a)
  <2>1. PICK u \in Tasks : u = job[a]
    BY <1>0, <1>5 DEF Finish, TypeInv, JobInv, Busy
  <2>2. CASE Return(a) /\ UNCHANGED row
    <3>1. OthersStay(a) /\ pc'[a] = "idle"
      BY <1>0, <2>2 DEF Return, OthersStay
    <3>. QED  BY <1>2, <2>2, <3>1 DEF InHand, row
  <2>3. CASE ~(Return(a) /\ UNCHANGED row)
    <3>1. /\ status' = [status EXCEPT ![u] = Outcome(a)]
          /\ lease' = [lease EXCEPT ![u] = "expired"]
          /\ pc' = [pc EXCEPT ![a] = "bill"] /\ UNCHANGED <<job, result>>
      BY <1>5, <2>1, <2>3 DEF Finish
    <3>2. OthersStay(a) /\ pc'[a] = "bill"
      BY <1>0, <3>1 DEF OthersStay
    <3>3. (status'[t] = status[t] /\ lease'[t] = lease[t]) \/ Finished(t)'
      BY <1>0, <3>1 DEF Finished, Outcome
    <3>. QED  BY <1>2, <3>2, <3>3 DEF InHand
  <2>. QED  BY <2>2, <2>3
<1>6. CASE a \in Workers /\ Renew(a)
  <2>1. /\ OthersStay(a) /\ pc'[a] = pc[a] /\ job'[a] = job[a] /\ status' = status
        /\ lease'[t] = lease[t] \/ lease'[t] = "live"
    BY <1>0, <1>6 DEF Renew, OthersStay, actor
  <2>. QED  BY <1>2, <2>1
<1>7. CASE SettleTask(a) \/ RefundTaskQuota(a) \/ RefundTaskToken(a)
  <2>1. UNCHANGED row /\ (Leave(a) \/ (pc' = [pc EXCEPT ![a] = "token"] /\ UNCHANGED <<job, result>>))
    BY <1>7 DEF SettleTask, RefundTaskQuota, RefundTaskToken
  <2>2. OthersStay(a) /\ pc'[a] \in {"idle", "sweep", "token"}
    <3>1. CASE Leave(a)
      BY <1>0, <3>1 DEF Leave, Return, OthersStay
    <3>2. CASE ~Leave(a)
      BY <1>0, <2>1, <3>2 DEF OthersStay
    <3>. QED  BY <3>1, <3>2
  <2>. QED  BY <1>2, <2>1, <2>2 DEF InHand, row
<1>8. CASE a \in Sweepers /\ (SweepScan(a) \/ SweepEnds(a))
  <2>1. OthersStay(a) /\ pc'[a] \in {"sweep", "idle"} /\ UNCHANGED row
    BY <1>0, <1>8 DEF SweepScan, SweepEnds, OthersStay
  <2>. QED  BY <1>2, <2>1 DEF InHand, row
<1>9. ASSUME NEW u \in Tasks, a \in Sweepers, SweepTask(a, u) PROVE TaskLease(t)'
  <2>1. OthersStay(a) /\ pc'[a] \in {"sweep", "bill"} /\ lease' = lease
    BY <1>0, <1>9 DEF SweepTask, OthersStay
  <2>2. status'[t] = status[t] \/ Finished(t)'
    BY <1>0, <1>9 DEF SweepTask, Finished
  <2>. QED  BY <1>2, <2>1, <2>2 DEF InHand
<1>. QED  BY <1>3, <1>4, <1>5, <1>6, <1>7, <1>8, <1>9

LEMMA CrashLease ==
    ASSUME LeaseInv, TypeInv', NEW n \in Nodes, Crash(n), NEW t \in Tasks
    PROVE  TaskLease(t)'
<1>1. \A w \in Workers : pc'[w] # "dead" => pc'[w] = pc[w] /\ job'[w] = job[w]
  BY DEF Crash, Actors
<1>2. Loading(t)' \subseteq Loading(t) /\ \A v \in Workers : Holds(v, t)' => Holds(v, t)
  BY <1>1 DEF Loading, Holds, InHand
<1>3. UNCHANGED <<status, lease, attempt, expiries, runs>>
  BY DEF Crash, row
<1>. QED  BY <1>2, <1>3, KeepLease

LEMMA LeaseInit == Init => LeaseInv
<1>. SUFFICES ASSUME Init PROVE LeaseInv
  OBVIOUS
<1>1. ASSUME NEW t \in Tasks PROVE TaskLease(t)
  <2>1. \A w \in Workers : ~Holds(w, t)
    BY DEF Init, Holds, InHand, Actors
  <2>2. Loading(t) = {}
    BY DEF Init, Loading, Actors
  <2>3. IsFiniteSet(Loading(t)) /\ Cardinality(Loading(t)) = 0
    BY <2>2, FS_EmptySet
  <2>. QED  BY <2>1, <2>3, BoundAssumption DEF Init, TaskLease
<1>. QED  BY <1>1, TypeInit DEF LeaseInv

LEMMA LeaseStep == LeaseInv /\ SeenInv /\ [Next]_vars => LeaseInv'
<1>. SUFFICES ASSUME LeaseInv, SeenInv, [Next]_vars, NEW t \in Tasks PROVE TaskLease(t)'
  BY TypeStep DEF LeaseInv
<1>0. TypeInv'
  BY TypeStep DEF LeaseInv
<1>1. ASSUME NEW n \in Nodes, NEW u \in Tasks, Submit(n, u) \/ Dispatch(n, u)
      PROVE  TaskLease(t)'
  BY <1>0, <1>1, SubmitLease, QuietLease DEF Dispatch, actor
<1>2. ASSUME NEW u \in Tasks, EnqueueTask(u) \/ DedupExpires(u) \/ LeaseExpires(u)
      PROVE  TaskLease(t)'
  BY <1>0, <1>2, ExpiryLease, QuietLease DEF EnqueueTask, DedupExpires, actor
<1>3. ASSUME NEW n \in Nodes, AcquireLeadership(n) \/ LoseLeadership(n) \/ Crash(n)
      PROVE  TaskLease(t)'
  BY <1>0, <1>3, CrashLease, QuietLease DEF AcquireLeadership, LoseLeadership, actor
<1>4. ASSUME NEW w \in Workers, WorkerStep(w) \/ Renew(w) PROVE TaskLease(t)'
  <2>1. w \in Actors
    BY DEF Actors
  <2>. QED  BY <1>0, <1>4, <2>1, ClaimLease, LoadLease, ActorLease DEF WorkerStep
<1>5. ASSUME NEW s \in Sweepers, SweeperStep(s) PROVE TaskLease(t)'
  <2>1. s \in Actors
    BY DEF Actors
  <2>. QED  BY <1>0, <1>5, <2>1, ActorLease DEF SweeperStep
<1>6. ASSUME NEW x \in sending, SendLocal(x) \/ DropLocal(x) PROVE TaskLease(t)'
  BY <1>0, <1>6, SendFrame, QuietLease DEF actor
<1>7. CASE UNCHANGED vars
  BY <1>0, <1>7, QuietLease DEF vars, actor
<1>. QED  BY <1>1, <1>2, <1>3, <1>4, <1>5, <1>6, <1>7 DEF Next

LEMMA LeaseAlways == Spec => []LeaseInv
<1>1. QueueInv => SeenInv
  BY DEF QueueInv
<1>. QED  BY <1>1, LeaseInit, LeaseStep, QueueInit, QueueStep, PTL DEF Spec

\* Two workers have a task in hand only after a lease of it has run out: the
\* condition of the UPDATE in ClaimImageAsyncTask lets one claim through per
\* lease, however many workers and nodes race for a row.
THEOREM QueueClaimIsExclusive == Spec => []ClaimIsExclusive
<1>1. LeaseInv => ClaimIsExclusive
  BY DEF LeaseInv, TaskLease, ClaimIsExclusive, Holds, InHand
<1>. QED  BY <1>1, LeaseAlways, PTL

\* The upstream call of a task is made at most MaxAttempts times and once more
\* than its leases have run out, whatever crashes, errors and late workers do:
\* each call spends a claim of ClaimImageAsyncTask, which counts them in attempt.
THEOREM QueueUpstreamCallsBounded == Spec => []UpstreamCallsBounded
<1>1. LeaseInv => UpstreamCallsBounded
  <2>. SUFFICES ASSUME LeaseInv, NEW t \in Tasks
       PROVE  runs[t] <= MaxAttempts /\ runs[t] <= 1 + expiries[t]
    BY DEF UpstreamCallsBounded
  <2>1. TaskLease(t) /\ runs[t] \in Nat /\ attempt[t] \in Nat /\ expiries[t] \in Nat
    BY DEF LeaseInv, TypeInv, TypeOK
  <2>2. Cardinality(Loading(t)) \in Nat
    BY <2>1, FS_CardinalityType DEF TaskLease
  <2>. QED  BY <2>1, <2>2 DEF TaskLease
<1>. QED  BY <1>1, LeaseAlways, PTL

-----------------------------------------------------------------------------
(***************************************************************************)
(* The local channel.  QueuedIsBacked needs to know that a worker that     *)
(* takes an id has no other one in hand, which it would leave behind.      *)
(***************************************************************************)

IdleInv == \A w \in Workers : pc[w] = "idle" => job[w] = NoTask

InChannel(n, t) == \E i \in DOMAIN queue[n] : queue[n][i] = t
WithWorker(n, t) == \E w \in Workers : Node(w) = n /\ job[w] = t
BeingSent(n, t) == \E x \in sending : x.node = n /\ x.task = t
Backed(n, t) == InChannel(n, t) \/ WithWorker(n, t) \/ BeingSent(n, t)

BackedInv == TypeInv /\ IdleInv /\ QueuedIsBacked

\* Append keeps what is in the channel and adds the new id; what the head of the
\* channel leaves behind is still in it.
LEMMA AppendKeeps ==
    ASSUME NEW S, NEW s \in Seq(S), NEW e \in S
    PROVE  /\ \E i \in DOMAIN Append(s, e) : Append(s, e)[i] = e
           /\ \A x : (\E i \in DOMAIN s : s[i] = x) =>
                         \E i \in DOMAIN Append(s, e) : Append(s, e)[i] = x
<1>1. Len(s) \in Nat /\ DOMAIN s = 1..Len(s)
  OBVIOUS
<1>2. /\ Append(s, e) \in Seq(S) /\ Len(Append(s, e)) = Len(s) + 1
      /\ \A i \in 1..Len(s) : Append(s, e)[i] = s[i]
      /\ Append(s, e)[Len(s) + 1] = e
  BY AppendProperties
<1>3. DOMAIN Append(s, e) = 1..(Len(s) + 1)
  BY <1>2
<1>. QED  BY <1>1, <1>2, <1>3

LEMMA TailKeeps ==
    ASSUME NEW S, NEW s \in Seq(S), s # <<>>, NEW x, x # Head(s),
           \E i \in DOMAIN s : s[i] = x
    PROVE  \E i \in DOMAIN Tail(s) : Tail(s)[i] = x
<1>1. Len(s) \in Nat /\ DOMAIN s = 1..Len(s) /\ Head(s) = s[1]
  BY HeadTailProperties
<1>2. /\ Tail(s) \in Seq(S) /\ Len(Tail(s)) = Len(s) - 1
      /\ \A i \in 1..Len(Tail(s)) : Tail(s)[i] = s[i + 1]
  BY HeadTailProperties
<1>3. PICK i \in 1..Len(s) : s[i] = x
  BY <1>1
<1>4. i - 1 \in 1..Len(Tail(s)) /\ (i - 1) + 1 = i
  BY <1>1, <1>2, <1>3
<1>5. Tail(s)[i - 1] = x
  BY <1>2, <1>3, <1>4
<1>6. DOMAIN Tail(s) = 1..Len(Tail(s))
  BY <1>2
<1>. QED  BY <1>4, <1>5, <1>6

\* An id stays backed when the channel and the calls of its node keep it and no
\* worker of the node lets go of it.
LEMMA StillBacked ==
    ASSUME QueuedIsBacked, NEW n \in Nodes, NEW t \in queued[n],
           InChannel(n, t) => Backed(n, t)',
           BeingSent(n, t) => Backed(n, t)',
           \A w \in Workers : Node(w) = n /\ job[w] = t => job'[w] = t
    PROVE  Backed(n, t)'
<1>1. InChannel(n, t) \/ WithWorker(n, t) \/ BeingSent(n, t)
  BY DEF QueuedIsBacked, InChannel, WithWorker, BeingSent
<1>2. WithWorker(n, t) => WithWorker(n, t)'
  BY DEF WithWorker, Node
<1>. QED  BY <1>1, <1>2 DEF Backed

\* enqueueLocalImageTask up to the send: the id it puts into the map is the one
\* it is going to send.
LEMMA EnqueueBacked ==
    ASSUME BackedInv, TypeInv', NEW m \in Nodes, NEW u \in Tasks, NEW by,
           Enqueue(m, u, by), UNCHANGED <<pc, job>>
    PROVE  BackedInv'
<1>0. queued \in [Nodes -> SUBSET Tasks] /\ UNCHANGED queue
  BY DEF BackedInv, TypeInv, TypeOK, Enqueue, EnqueueRedis, EnqueueLocal
<1>1. IdleInv'
  BY DEF BackedInv, IdleInv
<1>2. CASE UNCHANGED <<queued, sending>>
  BY <1>0, <1>1, <1>2 DEF BackedInv, QueuedIsBacked, Node
<1>3. CASE ~UNCHANGED <<queued, sending>>
  <2>1. PICK x : /\ x = [node |-> m, task |-> u, by |-> by, step |-> "send"]
                 /\ queued' = [queued EXCEPT ![m] = @ \cup {u}]
                 /\ sending' = sending \cup {x}
    BY <1>3 DEF Enqueue, EnqueueRedis, EnqueueLocal
  <2>2. x \in sending' /\ x.node = m /\ x.task = u
    BY <2>1
  <2>3. ASSUME NEW n \in Nodes, NEW t \in queued'[n] PROVE Backed(n, t)'
    <3>1. CASE n = m /\ t = u
      BY <2>2, <3>1 DEF Backed, BeingSent
    <3>2. CASE ~(n = m /\ t = u)
      <4>1. t \in queued[n]
        BY <1>0, <2>1, <2>3, <3>2
      <4>2. InChannel(n, t) => Backed(n, t)'
        BY <1>0 DEF Backed, InChannel
      <4>3. BeingSent(n, t) => Backed(n, t)'
        BY <2>1 DEF Backed, BeingSent
      <4>. QED  BY <4>1, <4>2, <4>3, StillBacked DEF BackedInv
    <3>. QED  BY <3>1, <3>2
  <2>. QED  BY <1>1, <2>3 DEF BackedInv, QueuedIsBacked, Backed, InChannel, WithWorker, BeingSent
<1>. QED  BY <1>2, <1>3

\* Its select: the id goes into the channel, or the call is about to take it out
\* of the map.
LEMMA SendBacked ==
    ASSUME BackedInv, TypeInv', NEW x \in sending, SendLocal(x)
    PROVE  BackedInv'
<1>0. /\ queue \in [Nodes -> Seq(Tasks)] /\ x.node \in Nodes /\ x.task \in Tasks
      /\ queued' = queued /\ x \in Senders
  BY DEF BackedInv, TypeInv, TypeOK, Senders, SendLocal
<1>1. UNCHANGED <<pc, job>> /\ IdleInv'
  BY SendFrame DEF BackedInv, IdleInv, actor
<1>2. ASSUME NEW n \in Nodes, NEW t \in queued'[n] PROVE Backed(n, t)'
  <2>0. PICK u \in Tasks : u = x.task
    BY <1>0
  <2>1. InChannel(n, t) => InChannel(n, t)'
    <3>1. CASE n = x.node /\ queue' = [queue EXCEPT ![x.node] = Append(@, x.task)]
      <4>1. queue'[n] = Append(queue[n], u) /\ queue[n] \in Seq(Tasks)
        BY <1>0, <2>0, <3>1
      <4>. QED  BY <4>1, AppendKeeps DEF InChannel
    <3>2. CASE n # x.node \/ queue' = queue
      <4>1. queue'[n] = queue[n]
        BY <1>0, <3>2 DEF SendLocal
      <4>. QED  BY <4>1 DEF InChannel
    <3>. QED  BY <3>1, <3>2 DEF SendLocal
  <2>2. ASSUME n = x.node, t = x.task PROVE Backed(n, t)'
    <3>1. CASE queue' = [queue EXCEPT ![x.node] = Append(@, x.task)]
      <4>1. queue'[n] = Append(queue[n], u) /\ queue[n] \in Seq(Tasks) /\ t = u
        BY <1>0, <2>0, <2>2, <3>1
      <4>2. InChannel(n, t)'
        BY <4>1, AppendKeeps DEF InChannel
      <4>. QED  BY <4>2 DEF Backed
    <3>2. CASE sending' = (sending \ {x}) \cup {[x EXCEPT !.step = "drop"]}
      <4>1. PICK y : y = [x EXCEPT !.step = "drop"]
        OBVIOUS
      <4>2. y \in sending' /\ y.node = n /\ y.task = t
        BY <1>0, <2>2, <3>2, <4>1 DEF Senders
      <4>. QED  BY <4>2 DEF Backed, BeingSent
    <3>. QED  BY <3>1, <3>2 DEF SendLocal
  <2>3. BeingSent(n, t) => Backed(n, t)'
    <3>1. \A y \in sending : y = x \/ y \in sending'
      BY DEF SendLocal
    <3>. QED  BY <2>2, <3>1 DEF BeingSent, Backed
  <2>. QED  BY <1>0, <1>1, <1>2, <2>1, <2>3, StillBacked DEF Backed, BackedInv
<1>. QED  BY <1>1, <1>2 DEF BackedInv, QueuedIsBacked, Backed, InChannel, WithWorker, BeingSent

\* Its default case: what it drops is no longer in the map.
LEMMA DropBacked ==
    ASSUME BackedInv, TypeInv', NEW x \in sending, DropLocal(x)
    PROVE  BackedInv'
<1>0. /\ queued \in [Nodes -> SUBSET Tasks] /\ x.node \in Nodes /\ UNCHANGED queue
      /\ queued' = [queued EXCEPT ![x.node] = @ \ {x.task}] /\ sending' = sending \ {x}
  BY DEF BackedInv, TypeInv, TypeOK, Senders, DropLocal, Dropped
<1>1. UNCHANGED <<pc, job>> /\ IdleInv'
  BY SendFrame DEF BackedInv, IdleInv, actor
<1>2. ASSUME NEW n \in Nodes, NEW t \in queued'[n] PROVE Backed(n, t)'
  <2>1. t \in queued[n] /\ ~(x.node = n /\ x.task = t)
    BY <1>0, <1>2
  <2>2. BeingSent(n, t) => Backed(n, t)'
    BY <1>0, <2>1 DEF BeingSent, Backed
  <2>. QED  BY <1>0, <1>1, <2>1, <2>2, StillBacked DEF Backed, BackedInv, InChannel
<1>. QED  BY <1>1, <1>2 DEF BackedInv, QueuedIsBacked, Backed, InChannel, WithWorker, BeingSent

\* nextImageAsyncTaskID: the id a worker takes from the channel is backed by the
\* worker from then on.
LEMMA TakeBacked ==
    ASSUME BackedInv, TypeInv', NEW v \in Workers, TakeLocal(v) \/ TakeRedis(v)
    PROVE  BackedInv'
<1>0. /\ queue \in [Nodes -> Seq(Tasks)] /\ queued \in [Nodes -> SUBSET Tasks]
      /\ pc \in [Actors -> PCs] /\ job \in [Actors -> Tasks \cup {NoTask}]
      /\ v \in Actors /\ Node(v) \in Nodes /\ pc[v] = "idle" /\ UNCHANGED queued
  BY ActorAssumption DEF BackedInv, TypeInv, TypeOK, Actors, Node, TakeLocal, TakeRedis, Claims
<1>1. job[v] = NoTask /\ pc' = [pc EXCEPT ![v] = "claim"]
      /\ \A w \in Workers : w # v => job'[w] = job[w]
  BY <1>0 DEF BackedInv, IdleInv, TakeLocal, TakeRedis, Claims, Actors
<1>2. IdleInv'
  BY <1>0, <1>1 DEF BackedInv, IdleInv, Actors
<1>3. ASSUME NEW n \in Nodes, NEW t \in queued'[n] PROVE Backed(n, t)'
  <2>1. t \in queued[n] /\ t \in Tasks /\ t # NoTask
    BY <1>0, <1>3, NoneAssumption DEF NoTask
  <2>2. \A w \in Workers : Node(w) = n /\ job[w] = t => job'[w] = t
    BY <1>1, <2>1
  <2>0. BeingSent(n, t) => Backed(n, t)'
    BY DEF TakeLocal, TakeRedis, Claims, BeingSent, Backed
  <2>3. CASE queue' = queue
    BY <2>0, <2>1, <2>2, <2>3, StillBacked DEF InChannel, Backed, BackedInv
  <2>4. CASE queue' # queue
    <3>1. /\ queue[Node(v)] # <<>> /\ queue' = [queue EXCEPT ![Node(v)] = Tail(@)]
          /\ job' = [job EXCEPT ![v] = Head(queue[Node(v)])]
      BY <2>4 DEF TakeLocal, TakeRedis, Claims
    <3>2. CASE n # Node(v)
      <4>1. queue'[n] = queue[n]
        BY <1>0, <3>1, <3>2
      <4>. QED  BY <2>0, <2>1, <2>2, <4>1, StillBacked DEF InChannel, Backed, BackedInv
    <3>3. CASE n = Node(v) /\ t = Head(queue[n])
      <4>1. job'[v] = t
        BY <1>0, <3>1, <3>3
      <4>. QED  BY <3>3, <4>1 DEF Backed, WithWorker, Node
    <3>4. CASE n = Node(v) /\ t # Head(queue[n])
      <4>1. queue'[n] = Tail(queue[n]) /\ queue[n] \in Seq(Tasks) /\ queue[n] # <<>>
        BY <1>0, <3>1, <3>4
      <4>2. PICK ids \in Seq(Tasks) : ids = queue[n]
        BY <4>1
      <4>3. InChannel(n, t) => \E i \in DOMAIN Tail(ids) : Tail(ids)[i] = t
        <5>1. ids # <<>> /\ t # Head(ids)
          BY <3>4, <4>1, <4>2
        <5>2. InChannel(n, t) => \E i \in DOMAIN ids : ids[i] = t
          BY <4>2 DEF InChannel
        <5>. QED  BY <5>1, <5>2, TailKeeps, Zenon
      <4>4. InChannel(n, t) => InChannel(n, t)'
        BY <4>1, <4>2, <4>3 DEF InChannel
      <4>. QED  BY <2>0, <2>1, <2>2, <4>4, StillBacked DEF Backed, BackedInv
    <3>. QED  BY <3>2, <3>3, <3>4
  <2>. QED  BY <2>3, <2>4
<1>. QED  BY <1>2, <1>3 DEF BackedInv, QueuedIsBacked, Backed, InChannel, WithWorker, BeingSent

\* The loop forgets the id when its worker lets go of it.
LEMMA ReturnBacked ==
    ASSUME BackedInv, TypeInv', NEW v \in Workers, Return(v), UNCHANGED <<queue, sending>>
    PROVE  BackedInv'
<1>0. /\ queued \in [Nodes -> SUBSET Tasks] /\ pc \in [Actors -> PCs]
      /\ job \in [Actors -> Tasks \cup {NoTask}] /\ v \in Actors /\ Node(v) \in Nodes
  BY ActorAssumption DEF BackedInv, TypeInv, TypeOK, Actors, Node
<1>1. /\ pc' = [pc EXCEPT ![v] = "idle"] /\ job' = [job EXCEPT ![v] = NoTask]
      /\ queued' = [queued EXCEPT ![Node(v)] = @ \ {job[v]}]
  BY DEF Return
<1>2. IdleInv'
  BY <1>0, <1>1 DEF BackedInv, IdleInv, Actors
<1>3. ASSUME NEW n \in Nodes, NEW t \in queued'[n] PROVE Backed(n, t)'
  <2>1. t \in queued[n] /\ (n = Node(v) => t # job[v])
    BY <1>0, <1>1, <1>3
  <2>2. \A w \in Workers : Node(w) = n /\ job[w] = t => job'[w] = t
    BY <1>0, <1>1, <2>1 DEF Actors
  <2>. QED  BY <2>1, <2>2, StillBacked DEF InChannel, BeingSent, Backed, BackedInv
<1>. QED  BY <1>2, <1>3 DEF BackedInv, QueuedIsBacked, Backed, InChannel, WithWorker, BeingSent

\* Steps that leave the channels and the workers' jobs alone.
LEMMA QuietBacked ==
    ASSUME BackedInv, TypeInv', UNCHANGED <<queue, queued, sending>>,
           \A w \in Workers : job'[w] = job[w],
           \A w \in Workers : pc'[w] = "idle" => pc[w] = "idle"
    PROVE  BackedInv'
<1>1. IdleInv'
  BY DEF BackedInv, IdleInv
<1>2. QueuedIsBacked'
  BY DEF BackedInv, QueuedIsBacked, Node
<1>. QED  BY <1>1, <1>2 DEF BackedInv

\* The other steps of a worker or a sweeper.
LEMMA ActorBacked ==
    ASSUME BackedInv, TypeInv', NEW a \in Actors,
           \/ a \in Workers /\ (Claim(a) \/ Load(a) \/ Execute(a) \/ Finish(a))
           \/ SettleTask(a) \/ RefundTaskQuota(a) \/ RefundTaskToken(a)
           \/ a \in Sweepers /\ (SweepScan(a) \/ SweepEnds(a) \/ \E t \in Tasks : SweepTask(a, t))
    PROVE  BackedInv'
<1>0. /\ pc \in [Actors -> PCs] /\ job \in [Actors -> Tasks \cup {NoTask}]
      /\ Workers \cap Sweepers = {}
  BY ActorAssumption DEF BackedInv, TypeInv, TypeOK
<1>1. UNCHANGED <<queue, sending>>
  BY DEF Claim, Load, Execute, Finish, SettleTask, RefundTaskQuota, RefundTaskToken,
         SweepScan, SweepEnds, SweepTask, hints
<1>2. CASE a \in Workers /\ Return(a)
  BY <1>1, <1>2, ReturnBacked
<1>3. CASE a \in Workers /\ ~Return(a)
  <2>1. a \notin Sweepers
    BY <1>0, <1>3
  <2>2. /\ UNCHANGED <<job, queued>>
        /\ \E place \in {"load", "run", "finish", "bill", "token"} :
              pc' = [pc EXCEPT ![a] = place]
    BY <1>3, <2>1 DEF Claim, Load, Execute, Finish, SettleTask, RefundTaskQuota,
                      RefundTaskToken, Leave, hints
  <2>3. \A w \in Workers : pc'[w] = "idle" => pc[w] = "idle"
    BY <1>0, <2>2 DEF Actors
  <2>. QED  BY <1>1, <2>2, <2>3, QuietBacked
<1>4. CASE a \in Sweepers
  <2>1. a \notin Workers
    BY <1>0, <1>4
  <2>2. /\ UNCHANGED queued
        /\ \A b \in Actors \ {a} : pc'[b] = pc[b] /\ job'[b] = job[b]
    BY <1>0, <2>1 DEF SettleTask, RefundTaskQuota, RefundTaskToken, Leave,
                      SweepScan, SweepEnds, SweepTask, hints
  <2>3. \A w \in Workers : pc'[w] = pc[w] /\ job'[w] = job[w]
    BY <2>1, <2>2 DEF Actors
  <2>. QED  BY <1>1, <2>2, <2>3, QuietBacked
<1>. QED  BY <1>2, <1>3, <1>4 DEF Actors

LEMMA CrashBacked ==
    ASSUME BackedInv, TypeInv', NEW m \in Nodes, Crash(m)
    PROVE  BackedInv'
<1>0. queue \in [Nodes -> Seq(Tasks)] /\ queued \in [Nodes -> SUBSET Tasks]
  BY DEF BackedInv, TypeInv, TypeOK
<1>1. \A w \in Workers : IF Node(w) = m THEN pc'[w] = "dead"
                                        ELSE pc'[w] = pc[w] /\ job'[w] = job[w]
  BY DEF Crash, Actors
<1>2. IdleInv'
  BY <1>1 DEF BackedInv, IdleInv
<1>3. ASSUME NEW n \in Nodes, NEW t \in queued'[n] PROVE Backed(n, t)'
  <2>1. n # m /\ t \in queued[n] /\ queue'[n] = queue[n]
    BY <1>0, <1>3 DEF Crash
  <2>2. BeingSent(n, t) => Backed(n, t)'
    BY <2>1 DEF Crash, BeingSent, Backed
  <2>. QED  BY <1>1, <2>1, <2>2, StillBacked DEF InChannel, Backed, BackedInv
<1>. QED  BY <1>2, <1>3 DEF BackedInv, QueuedIsBacked, Backed, InChannel, WithWorker, BeingSent

LEMMA BackedInit == Init => BackedInv
  BY TypeInit DEF Init, BackedInv, IdleInv, QueuedIsBacked, Actors

LEMMA BackedStep == BackedInv /\ [Next]_vars => BackedInv'
<1>. SUFFICES ASSUME BackedInv, [Next]_vars PROVE BackedInv'
  OBVIOUS
<1>0. TypeInv'
  BY TypeStep DEF BackedInv
<1>1. ASSUME UNCHANGED <<queue, queued, sending, pc, job>> PROVE BackedInv'
  BY <1>0, <1>1, QuietBacked
<1>2. ASSUME NEW n \in Nodes, NEW t \in Tasks, Submit(n, t) \/ Dispatch(n, t) PROVE BackedInv'
  <2>1. CASE Submit(n, t)
    BY <1>1, <2>1 DEF Submit, actor
  <2>2. CASE Dispatch(n, t)
    BY <1>0, <2>2, EnqueueBacked DEF Dispatch, actor
  <2>. QED  BY <1>2, <2>1, <2>2
<1>3. ASSUME NEW t \in Tasks, EnqueueTask(t) PROVE BackedInv'
  BY <1>0, <1>3, EnqueueBacked DEF EnqueueTask, actor
<1>4. ASSUME NEW t \in Tasks, DedupExpires(t) \/ LeaseExpires(t) PROVE BackedInv'
  BY <1>1, <1>4 DEF DedupExpires, LeaseExpires, actor, hints
<1>5. ASSUME NEW n \in Nodes, AcquireLeadership(n) \/ LoseLeadership(n) \/ Crash(n)
      PROVE  BackedInv'
  BY <1>0, <1>1, <1>5, CrashBacked DEF AcquireLeadership, LoseLeadership, actor
<1>6. ASSUME NEW w \in Workers, WorkerStep(w) PROVE BackedInv'
  <2>1. w \in Actors
    BY DEF Actors
  <2>. QED  BY <1>0, <1>6, <2>1, TakeBacked, ActorBacked DEF WorkerStep
<1>7. ASSUME NEW w \in Workers, Renew(w) PROVE BackedInv'
  BY <1>1, <1>7 DEF Renew, actor, hints
<1>8. ASSUME NEW s \in Sweepers, SweeperStep(s) PROVE BackedInv'
  <2>1. s \in Actors
    BY DEF Actors
  <2>. QED  BY <1>0, <1>8, <2>1, ActorBacked DEF SweeperStep
<1>9. ASSUME NEW x \in sending, SendLocal(x) \/ DropLocal(x) PROVE BackedInv'
  BY <1>0, <1>9, SendBacked, DropBacked
<1>10. CASE UNCHANGED vars
  BY <1>1, <1>10 DEF vars, hints, actor
<1>. QED  BY <1>2, <1>3, <1>4, <1>5, <1>6, <1>7, <1>8, <1>9, <1>10 DEF Next

\* An id in the map of a node is in its channel, with one of its workers or with
\* a call that is sending it, whatever the capacity and whatever fails:
\* enqueueLocalImageTask and the loop around processImageAsyncTask never leave an
\* id behind in the map.
THEOREM QueueQueuedIsBacked == Spec => []QueuedIsBacked
<1>1. BackedInv => QueuedIsBacked
  BY DEF BackedInv
<1>. QED  BY <1>1, BackedInit, BackedStep, PTL DEF Spec
=============================================================================
