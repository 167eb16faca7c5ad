----------------------------- MODULE TaskPolling -----------------------------
(***************************************************************************)
(* How video and Suno tasks end.  Every master node runs TaskPollingLoop:  *)
(* each round first sweeps the tasks that are too old, then reads the      *)
(* unfinished tasks, asks the upstream about each of them and writes what  *)
(* it hears, all from the rows read at the start of the round.  A video    *)
(* task is written with a compare-and-swap on its status and billed by the *)
(* winner.  A Suno task is refunded first and then saved unconditionally.  *)
(* When the channel of a task cannot be looked up, because it is gone or   *)
(* because the database does not answer, its tasks are failed in bulk.  A  *)
(* user who looks at a Gemini or Vertex task writes to its row, too.       *)
(*                                                                         *)
(* Each action is one statement against the database; the upstream's       *)
(* answer is read in the action that first uses it.  Image tasks are in    *)
(* the same table; the poll skips them and ImageTaskQueue has their sweep. *)
(***************************************************************************)
EXTENDS Integers, FiniteSets, FiniteSetsExt

CONSTANTS
    Tasks,         \* ids, in the order of submission
    Pollers,       \* the TaskPollingLoop goroutines, one per master node
    Viewers,       \* requests for the state of a task
    Channels,
    Platform,      \* Platform[t]: video or suno
    ChannelOf,     \* ChannelOf[t]
    Realtime,      \* the tasks whose channel type is Gemini or Vertex
    Deletable,     \* the channels an administrator may delete
    Legacy,        \* the tasks submitted before legacyTaskCutoff
    Quota,         \* what a task is charged when it is submitted
    Actuals,       \* what a finished task may turn out to cost
    Reports,       \* what the upstream may answer
    SweepOn,       \* TaskTimeoutMinutes > 0
    SweepLimit,    \* rows one sweep reads
    QueryLimit     \* TaskQueryLimit, rows one poll reads

CONSTANTS
    MaxViews,      \* bound on the requests for the state of a task
    MaxFaults      \* bound on the database errors and the deaths of a master

Actors == Pollers \cup Viewers

Statuses == {"none", "NOT_START", "SUBMITTED", "QUEUED", "IN_PROGRESS", "SUCCESS", "FAILURE"}
Stored == Statuses \ {"none"}
Terminal == {"SUCCESS", "FAILURE"}

ASSUME ActorAssumption == Pollers \cap Viewers = {} /\ IsFiniteSet(Pollers)
ASSUME TaskAssumption ==
    /\ Tasks \subseteq Nat
    /\ Platform \in [Tasks -> {"video", "suno"}]
    /\ ChannelOf \in [Tasks -> Channels]
    /\ Realtime \subseteq {t \in Tasks : Platform[t] = "video"}
    /\ Deletable \subseteq Channels /\ Legacy \subseteq Tasks
ASSUME QuotaAssumption == Quota \in Nat \ {0} /\ Actuals \subseteq Nat \ {0}
\* full: the progress is "100%"; reason: there is a fail reason.
ASSUME ReportAssumption == Reports \subseteq [status : Stored, full : BOOLEAN, reason : BOOLEAN]
ASSUME BoundAssumption ==
    /\ SweepOn \in BOOLEAN
    /\ SweepLimit \in Nat \ {0} /\ QueryLimit \in Nat \ {0}
    /\ MaxViews \in Nat /\ MaxFaults \in Nat

VARIABLES
    status,      \* status[t]: the column, "none" while the row does not exist
    full,        \* full[t]: the column progress is "100%"
    quota,       \* quota[t]: the column
    old,         \* the tasks submitted more than TaskTimeoutMinutes ago
    channels,    \* the channels that exist
    pc,          \* pc[a]: where the poller or viewer a is
    seen,        \* seen[a]: the status of the rows a has read and not yet handled
    charge,      \* charge[a]: the quota of those rows, as a has read it
    job,         \* job[a]: the task a writes to or bills, 0 if none
    result,      \* result[a]: how that task ended
    after,       \* after[a]: the Suno task as a is going to save it
    due,         \* due[a]: what a has still to take from the token
    funding,     \* funding[t]: quota t has taken from its wallet or subscription
    tokenQuota,  \* tokenQuota[t]: quota t has taken from its token
    bill,        \* history: how the charge of t has been dealt with
    tainted,     \* history: tasks whose billing an error or a crash cut short
    before,      \* history: the status of t when a bulk update first failed it
    views,
    faults

row == <<status, full, quota>>
actor == <<pc, seen, charge, job, result, after, due>>
money == <<funding, tokenQuota, bill, tainted>>
vars == <<row, before, old, channels, actor, money, views, faults>>

NoTask == 0
PCs == {"idle", "sweep", "scan", "poll", "bill", "token", "quota", "save"}
Results == {"none", "SUCCESS", "FAILURE", "TIMEOUT"}
Bills == {"held", "settled", "refunded", "kept"}
Nothing == [t \in Tasks |-> "none"]
NoCharge == [t \in Tasks |-> 0]
NoSave == [status |-> "none", full |-> FALSE]

TypeOK ==
    /\ status \in [Tasks -> Statuses]
    /\ full \in [Tasks -> BOOLEAN]
    /\ quota \in [Tasks -> Nat]
    /\ before \in [Tasks -> Statuses]
    /\ old \in SUBSET Tasks
    /\ channels \in SUBSET Channels
    /\ pc \in [Actors -> PCs]
    /\ seen \in [Actors -> [Tasks -> Statuses]]
    /\ charge \in [Actors -> [Tasks -> Nat]]
    /\ job \in [Actors -> Tasks \cup {NoTask}]
    /\ result \in [Actors -> Results]
    /\ after \in [Actors -> [status : Statuses, full : BOOLEAN]]
    /\ due \in [Actors -> Int]
    /\ funding \in [Tasks -> Int]
    /\ tokenQuota \in [Tasks -> Int]
    /\ bill \in [Tasks -> Bills]
    /\ tainted \in SUBSET Tasks
    /\ views \in 0..MaxViews
    /\ faults \in 0..MaxFaults

Init ==
    /\ status = Nothing
    /\ full = [t \in Tasks |-> FALSE]
    /\ quota = [t \in Tasks |-> 0]
    /\ before = Nothing
    /\ old = {}
    /\ channels = Channels
    /\ pc = [a \in Actors |-> "idle"]
    /\ seen = [a \in Actors |-> Nothing]
    /\ charge = [a \in Actors |-> NoCharge]
    /\ job = [a \in Actors |-> NoTask]
    /\ result = [a \in Actors |-> "none"]
    /\ after = [a \in Actors |-> NoSave]
    /\ due = [a \in Actors |-> 0]
    /\ funding = [t \in Tasks |-> 0]
    /\ tokenQuota = [t \in Tasks |-> 0]
    /\ bill = [t \in Tasks |-> "held"]
    /\ tainted = {}
    /\ views = 0
    /\ faults = 0

NoFault == UNCHANGED faults

Fault ==
    /\ faults < MaxFaults
    /\ faults' = faults + 1

-----------------------------------------------------------------------------
(* Submission *)

\* Mutant: the status the upstream gives is stored as it is.
FreshRaw(t) == {"queued"}

\* The status of a fresh row: ApplySubmittedStatusFromUpstreamData, which Suno
\* tasks do not go through.
Fresh(t) == IF Platform[t] = "suno" THEN {"NOT_START"}
            ELSE {"SUBMITTED", "QUEUED", "IN_PROGRESS"}

\* RelayTask once the upstream has accepted the task: the session is settled,
\* then the row is inserted.  When the insert fails the charge stays.
Submit(t) ==
    /\ status[t] = "none" /\ t \notin tainted
    /\ \A u \in Tasks : u < t => status[u] # "none" \/ u \in tainted
    /\ funding' = [funding EXCEPT ![t] = Quota]
    /\ tokenQuota' = [tokenQuota EXCEPT ![t] = Quota]
    /\ \/ /\ \E s \in Fresh(t) : status' = [status EXCEPT ![t] = s]
          /\ quota' = [quota EXCEPT ![t] = Quota]
          /\ NoFault /\ UNCHANGED tainted
       \/ Fault /\ tainted' = tainted \cup {t} /\ UNCHANGED <<status, quota>>
    /\ UNCHANGED <<full, before, old, channels, views, actor, bill>>

\* TaskTimeoutMinutes go by.
Age(t) ==
    /\ SweepOn
    /\ status[t] # "none" /\ t \notin old
    /\ old' = old \cup {t}
    /\ NoFault
    /\ UNCHANGED <<row, before, channels, views, actor, money>>

\* An administrator deletes a channel.
DeleteChannel(c) ==
    /\ c \in channels \cap Deletable
    /\ channels' = channels \ {c}
    /\ NoFault
    /\ UNCHANGED <<row, before, old, views, actor, money>>

-----------------------------------------------------------------------------
(* A round of the loop *)

\* Mutant: rows the upstream has not started on are not read.
UnfinishedStarted(t) == status[t] = "IN_PROGRESS" /\ ~full[t]

\* The WHERE clause shared by GetTimedOutUnfinishedTasks and
\* GetAllUnFinishSyncTasks.
Unfinished(t) == status[t] \notin Terminal \cup {"none"} /\ ~full[t]

\* The first n tasks of S, by submission.
First(n, S) == {t \in S : Cardinality({u \in S : u < t}) < n}

\* Read the rows of S and go on to pc where.
Read(a, S, where) ==
    /\ seen' = [seen EXCEPT ![a] = [t \in Tasks |-> IF t \in S THEN status[t] ELSE "none"]]
    /\ charge' = [charge EXCEPT ![a] = [t \in Tasks |-> IF t \in S THEN quota[t] ELSE 0]]
    /\ pc' = [pc EXCEPT ![a] = where]
    /\ NoFault
    /\ UNCHANGED <<row, before, old, channels, job, result, after, due, money>>

\* sweepTimedOutTasks up to its query; an error reads as no rows.
SweepScan(p) ==
    /\ p \in Pollers /\ pc[p] = "idle"
    /\ Read(p, First(SweepLimit, {t \in old : Unfinished(t)}), "sweep") /\ UNCHANGED views

SweepEnds(p) ==
    /\ pc[p] = "sweep" /\ seen[p] = Nothing
    /\ Read(p, {}, "scan") /\ UNCHANGED views

\* taskPollingOnce after the sweep.
PollScan(p) ==
    /\ pc[p] = "scan"
    /\ Read(p, First(QueryLimit, {t \in Tasks : Unfinished(t)}), "poll") /\ UNCHANGED views

\* The round ends; or it ends early, with a panic the loop recovers from, when a
\* Suno answer names a task that was not asked for.
PollEnds(p) ==
    /\ pc[p] = "poll"
    /\ seen[p] = Nothing \/ \E t \in Tasks : seen[p][t] # "none" /\ Platform[t] = "suno"
    /\ Read(p, {}, "idle") /\ UNCHANGED views

\* Done with t, whose row is left alone.
Skip(a, t) ==
    /\ seen' = [seen EXCEPT ![a][t] = "none"]
    /\ UNCHANGED <<row, pc, job, result, after>>

\* Mutant: the poll writes without comparing the status it has read.
StillAsSeenSwept(a, t) == pc[a] = "poll" \/ status[t] = seen[a][t]

\* The WHERE clause of UpdateWithStatus.
StillAsSeen(a, t) == status[t] = seen[a][t]

\* UpdateWithStatus: all columns, the quota as it was read among them, are
\* written if the status is still as read.
\* The winner goes on to pc next with outcome, whoever loses skips the task.
Transition(a, t, s, f, next, outcome) ==
    \/ /\ StillAsSeen(a, t) /\ NoFault
       /\ status' = [status EXCEPT ![t] = s]
       /\ full' = [full EXCEPT ![t] = f]
       /\ quota' = [quota EXCEPT ![t] = charge[a][t]]
       /\ seen' = [seen EXCEPT ![a][t] = "none"]
       /\ pc' = [pc EXCEPT ![a] = next]
       /\ job' = [job EXCEPT ![a] = IF next = "bill" THEN t ELSE NoTask]
       /\ result' = [result EXCEPT ![a] = outcome]
       /\ UNCHANGED after
    \/ ~StillAsSeen(a, t) /\ NoFault /\ Skip(a, t)
    \/ Fault /\ Skip(a, t)

\* One task of the sweep.
SweepTask(p, t) ==
    /\ pc[p] = "sweep" /\ seen[p][t] # "none"
    /\ Transition(p, t, "FAILURE", TRUE, "bill", "TIMEOUT")
    /\ UNCHANGED <<before, old, channels, views, charge, due, money>>

Polling(p, t, platform) ==
    /\ pc[p] = "poll" /\ seen[p][t] # "none" /\ Platform[t] = platform

Known(t) == ChannelOf[t] \in channels

\* The upstream does not answer, answers 429, or in a form or with a status that
\* is not understood: the task waits for the next round.
PollUnanswered(p, t) ==
    /\ pc[p] = "poll" /\ seen[p][t] # "none" /\ Known(t)
    /\ Skip(p, t) /\ NoFault
    /\ UNCHANGED <<before, old, channels, views, charge, due, money>>

\* updateVideoSingleTask.  The progress the upstream reports replaces the one
\* that belongs to the status.
PollVideo(p, t) ==
    /\ Polling(p, t, "video") /\ Known(t)
    /\ \E r \in Reports :
        /\ r.status # "NOT_START"
        /\ IF r.status \in Terminal
           THEN Transition(p, t, r.status, TRUE, "bill", r.status)
           ELSE Transition(p, t, r.status, r.full, "poll", "none")
    /\ UNCHANGED <<before, old, channels, views, charge, due, money>>

SunoFailed(r) == r.reason \/ r.status = "FAILURE"

\* The Suno task after an item of the answer.
SunoSaved(r) == [status |-> r.status, full |-> SunoFailed(r) \/ r.status = "SUCCESS"]

\* updateSunoTasks, one item of the answer up to the refund.  taskNeedsUpdate
\* compares the data as well, so that any item may count as an update.
PollSuno(p, t) ==
    /\ Polling(p, t, "suno") /\ Known(t)
    /\ \E r \in Reports :
        /\ after' = [after EXCEPT ![p] = SunoSaved(r)]
        /\ pc' = [pc EXCEPT ![p] = IF SunoFailed(r) THEN "bill" ELSE "save"]
        /\ result' = [result EXCEPT ![p] = IF SunoFailed(r) THEN "FAILURE" ELSE "none"]
    /\ job' = [job EXCEPT ![p] = t]
    /\ seen' = [seen EXCEPT ![p][t] = "none"]
    /\ NoFault
    /\ UNCHANGED <<row, before, old, channels, views, charge, due, money>>

\* The status of t apart from bulk failures.
OwnStatus(t) == IF before[t] = "none" THEN status[t] ELSE before[t]

\* CacheGetChannel fails, for a channel that is gone or on any error of the
\* database: TaskBulkUpdateByID fails all tasks of the channel that this round
\* has read, whatever their rows say by now, and nothing is billed.  (If the
\* update fails as well, the tasks wait for the next round, see PollUnanswered.)
BulkFail(p, c) ==
    LET S == {t \in Tasks : seen[p][t] # "none" /\ ChannelOf[t] = c} IN
    /\ pc[p] = "poll" /\ S # {}
    /\ \/ /\ \/ c \notin channels /\ NoFault
             \/ c \in channels /\ Fault
          /\ status' = [t \in Tasks |-> IF t \in S THEN "FAILURE" ELSE status[t]]
          /\ full' = [t \in Tasks |-> full[t] \/ t \in S]
          /\ before' = [t \in Tasks |-> IF t \in S THEN OwnStatus(t) ELSE before[t]]
       \/ c \notin channels /\ Fault /\ UNCHANGED <<status, full, before>>
    /\ seen' = [seen EXCEPT ![p] = [t \in Tasks |-> IF t \in S THEN "none" ELSE seen[p][t]]]
    /\ UNCHANGED <<quota, old, channels, views, pc, charge, job, result, after, due, money>>

-----------------------------------------------------------------------------
(* Billing *)

\* Where an actor goes when the billing of its task is over: a Suno task has
\* still to be saved.
Leave(p) ==
    IF after[p] = NoSave
    THEN /\ pc' = [pc EXCEPT ![p] = IF result[p] = "TIMEOUT" THEN "sweep" ELSE "poll"]
         /\ job' = [job EXCEPT ![p] = NoTask]
         /\ result' = [result EXCEPT ![p] = "none"]
         /\ UNCHANGED <<seen, after>>
    ELSE pc' = [pc EXCEPT ![p] = "save"] /\ UNCHANGED <<seen, job, result, after>>

\* task.Quota of the task p bills.
TaskQuota(p) == charge[p][job[p]]

\* taskAdjustFunding takes delta from the wallet or subscription; on an error
\* the billing stops.
AdjustFunding(p, delta, way) ==
    LET t == job[p] IN
    \/ /\ funding' = [funding EXCEPT ![t] = @ + delta]
       /\ bill' = [bill EXCEPT ![t] = way]
       /\ due' = [due EXCEPT ![p] = delta]
       /\ pc' = [pc EXCEPT ![p] = "token"]
       /\ NoFault /\ UNCHANGED <<seen, job, result, after, tainted>>
    \/ /\ Fault /\ Leave(p)
       /\ tainted' = tainted \cup {t}
       /\ UNCHANGED <<funding, bill, due>>

\* settleTaskBillingOnComplete: a task billed per call, or one whose cost
\* nothing corrects, keeps the quota it was charged.
SettleTask(p) ==
    /\ pc[p] = "bill" /\ result[p] = "SUCCESS"
    /\ \/ /\ bill' = [bill EXCEPT ![job[p]] = "settled"]
          /\ Leave(p) /\ NoFault /\ UNCHANGED <<funding, due, tainted>>
       \/ \E actual \in Actuals \ {TaskQuota(p)} :
             AdjustFunding(p, actual - TaskQuota(p), "settled")
    /\ UNCHANGED <<row, before, old, channels, views, charge, tokenQuota>>

\* RefundTaskQuota, which keeps the charge when the failure is the user's.  The
\* sweep does not refund legacy tasks.
RefundTaskQuota(p) ==
    /\ pc[p] = "bill" /\ result[p] \in {"FAILURE", "TIMEOUT"}
    /\ LET t == job[p]
           legacy == result[p] = "TIMEOUT" /\ t \in Legacy
       IN
       \/ /\ result[p] = "FAILURE" \/ legacy
          /\ bill' = [bill EXCEPT ![t] = IF @ = "held" THEN "kept" ELSE @]
          /\ Leave(p) /\ NoFault /\ UNCHANGED <<funding, due, tainted>>
       \/ ~legacy /\ AdjustFunding(p, -TaskQuota(p), "refunded")
    /\ UNCHANGED <<row, before, old, channels, views, charge, tokenQuota>>

\* Mutant: the token moves the wrong way.
TokenMovedBackwards(p) == tokenQuota[job[p]] - due[p]

TokenMoved(p) == tokenQuota[job[p]] + due[p]

\* taskAdjustTokenQuota: an error is only logged.  RecalculateTaskQuota goes on
\* to write the final quota.
AdjustToken(p) ==
    /\ pc[p] = "token"
    /\ \/ /\ tokenQuota' = [tokenQuota EXCEPT ![job[p]] = TokenMoved(p)]
          /\ NoFault /\ UNCHANGED tainted
       \/ Fault /\ tainted' = tainted \cup {job[p]} /\ UNCHANGED tokenQuota
    /\ IF result[p] = "SUCCESS"
       THEN pc' = [pc EXCEPT ![p] = "quota"] /\ UNCHANGED <<seen, job, result, after, due>>
       ELSE Leave(p) /\ due' = [due EXCEPT ![p] = 0]
    /\ UNCHANGED <<row, before, old, channels, views, charge, funding, bill>>

\* UpdateQuota: an error is only logged.
UpdateQuota(p) ==
    /\ pc[p] = "quota"
    /\ \/ /\ quota' = [quota EXCEPT ![job[p]] = TaskQuota(p) + due[p]]
          /\ NoFault /\ UNCHANGED tainted
       \/ Fault /\ tainted' = tainted \cup {job[p]} /\ UNCHANGED quota
    /\ Leave(p)
    /\ due' = [due EXCEPT ![p] = 0]
    /\ UNCHANGED <<status, full, before, old, channels, views, charge, funding, tokenQuota, bill>>

\* task.Update() of a Suno task: the whole row, whatever it says by now; an
\* error is only logged.  Success leaves the charge as it is, and the quota of a
\* song never changes.
SaveSuno(p) ==
    /\ pc[p] = "save"
    /\ LET t == job[p] IN
       \/ /\ status' = [status EXCEPT ![t] = after[p].status]
          /\ full' = [full EXCEPT ![t] = after[p].full]
          /\ bill' = [bill EXCEPT ![t] = IF @ = "held" /\ after[p].status = "SUCCESS"
                                         THEN "settled" ELSE @]
          /\ NoFault
       \/ Fault /\ UNCHANGED <<status, full, bill>>
    /\ pc' = [pc EXCEPT ![p] = "poll"]
    /\ job' = [job EXCEPT ![p] = NoTask]
    /\ result' = [result EXCEPT ![p] = "none"]
    /\ after' = [after EXCEPT ![p] = NoSave]
    /\ UNCHANGED <<quota, before, old, channels, views, seen, charge, due, funding, tokenQuota,
                   tainted>>

-----------------------------------------------------------------------------
(* videoFetchByIDRespBodyBuilder of a Gemini or Vertex task *)

\* GetByTaskIdForFetch, finished tasks included.
ViewTask(v, t) ==
    /\ seen[v] = Nothing /\ views < MaxViews
    /\ views' = views + 1
    /\ t \in Realtime /\ status[t] # "none"
    /\ Read(v, {t}, "idle")

\* tryRealtimeFetch: the answer, of which these adaptors know three, is written
\* with a compare-and-swap from any status, and nothing is billed.  Nothing is
\* written without an answer or a channel.
TryRealtimeFetch(v, t) ==
    /\ seen[v][t] # "none"
    /\ \/ /\ Known(t)
          /\ \E s \in Terminal \cup {"IN_PROGRESS"} :
              Transition(v, t, s, s \in Terminal, "idle", "none")
       \/ Skip(v, t) /\ NoFault
    /\ UNCHANGED <<before, old, channels, views, charge, due, money>>

-----------------------------------------------------------------------------

\* A master process dies and is started again.
Crash(p) ==
    /\ pc[p] # "idle"
    /\ pc' = [pc EXCEPT ![p] = "idle"]
    /\ seen' = [seen EXCEPT ![p] = Nothing]
    /\ charge' = [charge EXCEPT ![p] = NoCharge]
    /\ job' = [job EXCEPT ![p] = NoTask]
    /\ result' = [result EXCEPT ![p] = "none"]
    /\ after' = [after EXCEPT ![p] = NoSave]
    /\ due' = [due EXCEPT ![p] = 0]
    /\ tainted' = IF pc[p] \in {"bill", "token", "quota"} THEN tainted \cup {job[p]} ELSE tainted
    /\ Fault
    /\ UNCHANGED <<row, before, old, channels, views, funding, tokenQuota, bill>>

\* One step of the loop of p.
PollerStep(p) ==
    \/ SweepScan(p) \/ SweepEnds(p) \/ PollScan(p) \/ PollEnds(p)
    \/ \E t \in Tasks : SweepTask(p, t) \/ PollUnanswered(p, t) \/ PollVideo(p, t)
                        \/ PollSuno(p, t)
    \/ \E c \in Channels : BulkFail(p, c)
    \/ SettleTask(p) \/ RefundTaskQuota(p) \/ AdjustToken(p) \/ UpdateQuota(p)
    \/ SaveSuno(p)

Next ==
    \/ \E t \in Tasks : Submit(t) \/ Age(t)
    \/ \E c \in Channels : DeleteChannel(c)
    \/ \E p \in Pollers : PollerStep(p) \/ Crash(p)
    \/ \E v \in Viewers, t \in Tasks : ViewTask(v, t) \/ TryRealtimeFetch(v, t)

Spec == Init /\ [][Next]_vars

\* The loops go on (TaskPollingLoop sleeps 15 seconds and recovers from panics)
\* and time goes by.  Nothing is assumed of users, administrators or upstreams.
Fairness ==
    /\ \A p \in Pollers : WF_vars(PollerStep(p))
    /\ \A t \in Tasks : WF_vars(Age(t))

FairSpec == Spec /\ Fairness

-----------------------------------------------------------------------------
(* Properties *)

Finished(t) == status[t] \in Terminal

\* t has ended otherwise than by a bulk failure.
Ended(t) == OwnStatus(t) \in Terminal

InBilling(t) == \E p \in Pollers : pc[p] \in {"bill", "token", "quota"} /\ job[p] = t

\* Some poller bills t or is about to save it.
InHand(t) == \E p \in Pollers : job[p] = t

\* A task that has ended is billed: a failure whose charge is still held is
\* being billed right now, unless an error or a crash hit its billing.
EndIsBilled ==
    \A t \in Tasks : (Ended(t) /\ t \notin tainted /\ ~InBilling(t)) => bill[t] # "held"

\* No task is given back more than it was charged.
BilledOnce == \A t \in Tasks : funding[t] >= 0 /\ tokenQuota[t] >= 0

\* The money of a task: it is billed once, and settled only if it succeeded; a
\* task whose charge was given back or kept is never polled or swept again; and
\* when the billing is over the wallet, the token and the quota column agree.  A
\* bulk failure has no say in this: what it hits unfinished stays charged in
\* full, what had ended is billed as it had ended.
TaskMoneyExact ==
    /\ EndIsBilled /\ BilledOnce
    /\ \A t \in Tasks :
        /\ bill[t] = "held" => funding[t] \in {0, Quota} /\ tokenQuota[t] = funding[t]
        /\ bill[t] = "settled" => OwnStatus(t) = "SUCCESS"
        /\ bill[t] \in {"refunded", "kept"} /\ ~InHand(t) => ~Unfinished(t)
        /\ (Ended(t) /\ t \notin tainted /\ ~InBilling(t)) =>
              /\ tokenQuota[t] = funding[t]
              /\ funding[t] = IF bill[t] = "refunded" THEN 0 ELSE quota[t]
        /\ before[t] \notin Terminal \cup {"none"} => status[t] = "FAILURE" /\ bill[t] = "held"

\* What TaskBulkUpdateByID says it must not be used for: a task that has ended,
\* whoever wrote its end, is billed as its row says.
EndIsBilledAsShown ==
    \A t \in Tasks : (Finished(t) /\ t \notin tainted /\ ~InBilling(t)) =>
        bill[t] \in IF status[t] = "SUCCESS" THEN {"settled"} ELSE {"refunded", "kept"}

\* Both ledgers of a task move together, whoever ends it and however often: the
\* token is behind the wallet by exactly what the billing in progress has still
\* to move.
LedgersAgree ==
    \A t \in Tasks \ tainted :
        funding[t] - tokenQuota[t] =
            MapThenSumSet(LAMBDA p : due[p], {p \in Pollers : pc[p] = "token" /\ job[p] = t})

\* The polling implements the ledger's contract, bulk failures apart: they bill
\* nothing, and nobody ends or bills a task any more that one of them has hit
\* unfinished.
Ledger == INSTANCE TaskLedger WITH
    outcome <- [t \in Tasks |-> IF Ended(t) \/ OwnStatus(t) = "none" THEN OwnStatus(t)
                                ELSE "pending"]
ImplementsLedger == Ledger!Spec

\* Every stored task ends and, unless a bulk failure ended it, its charge is
\* dealt with, even if its upstream never answers and older tasks fill the page
\* the poll reads: the sweep ends it.
EveryTaskEnds ==
    \A t \in Tasks :
        status[t] # "none" ~>
            (Finished(t) /\ (bill[t] # "held" \/ t \in tainted \/ before[t] # "none"))
=============================================================================
