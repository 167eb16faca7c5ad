----------------------------- MODULE QuotaCache -----------------------------
(***************************************************************************)
(* The balance of one user and its copies: the row of the table users, the *)
(* hash user:<id> in Redis that every request reads, and, with batch       *)
(* updates, the changes each process keeps in memory until its next flush. *)
(*                                                                         *)
(* The hash is filled and adjusted by goroutines nobody waits for.  An     *)
(* adjustment asks for the time to live first and changes the field after- *)
(* wards: when the key is deleted in between, Redis makes a new hash with  *)
(* this one field, whose other fields read as zero, the status too.        *)
(***************************************************************************)
EXTENDS Integers, FiniteSetsExt

CONSTANTS
    Nodes,      \* processes; each handles one request of the user at a time
    Routines,   \* goroutines at work on the hash
    NoKey, NoFlush, NoTask,
    Start,      \* the balance at the start
    Amounts,    \* quota a request may take, give back or grant
    MaxOps,     \* bound on the changes
    MaxFaults   \* bound on errors and deaths of a process

ASSUME NodeAssumption == IsFiniteSet(Nodes)
ASSUME FlushAssumption == NoFlush \notin Int
ASSUME AmountAssumption == Start \in Nat /\ Amounts \subseteq Nat \ {0}
ASSUME BoundAssumption == MaxOps \in Nat /\ MaxFaults \in Nat

VARIABLES
    batch,     \* BatchUpdateEnabled
    row,       \* the row: quota, and whether the user is enabled
    cache,     \* the hash, or NoKey
    store,     \* store[n]: batchUpdateStores of the process n
    flush,     \* flush[n]: the store n has taken out to write, or NoFlush
    call,      \* call[n]: the request n handles
    task,      \* task[g]: what the goroutine does, or NoTask
    truth,     \* history: the balance, had every change been kept
    lost,      \* history: what errors, deaths and stale saves have changed
    ops,
    faults

vars == <<batch, row, cache, store, flush, call, task, truth, lost, ops, faults>>

Row == [quota : Int, enabled : BOOLEAN]
Entry == [quota : Int, enabled : BOOLEAN, expires : BOOLEAN]
NoRow == [quota |-> 0, enabled |-> FALSE]
Idle == [pc |-> "idle", delta |-> 0, seen |-> NoRow, user |-> NoRow, disables |-> FALSE]
PCs == {"idle", "write", "invalidate", "reread", "update", "cache"}
Call == [pc : PCs,
         delta : Int,
         seen : Row,            \* newUser: the user as it is to be saved
         user : Row,            \* the user as it was read again
         disables : BOOLEAN]    \* the request disables the user
Task ==
    [node : Nodes, do : {"adjust"}, step : {"ttl", "exec"}, delta : Int]
        \cup [node : Nodes, do : {"fill"}, user : Row]

TypeOK ==
    /\ batch \in BOOLEAN
    /\ row \in Row
    /\ cache \in Entry \cup {NoKey}
    /\ store \in [Nodes -> Int]
    /\ flush \in [Nodes -> Int \cup {NoFlush}]
    /\ call \in [Nodes -> Call]
    /\ task \in [Routines -> Task \cup {NoTask}]
    /\ truth \in Int /\ lost \in Int
    /\ ops \in 0..MaxOps /\ faults \in 0..MaxFaults

Init ==
    /\ batch \in BOOLEAN
    /\ row = [quota |-> Start, enabled |-> TRUE]
    /\ cache = NoKey
    /\ store = [n \in Nodes |-> 0]
    /\ flush = [n \in Nodes |-> NoFlush]
    /\ call = [n \in Nodes |-> Idle]
    /\ task = [g \in Routines |-> NoTask]
    /\ truth = Start /\ lost = 0
    /\ ops = 0 /\ faults = 0

Fault ==
    /\ faults < MaxFaults
    /\ faults' = faults + 1

NoFault == UNCHANGED faults

-----------------------------------------------------------------------------
(* Requests *)

Begin(n) ==
    /\ call[n].pc = "idle"
    /\ ops < MaxOps
    /\ ops' = ops + 1

Spawn(g, t) ==
    /\ task[g] = NoTask
    /\ task' = [task EXCEPT ![g] = t]

Adjustment(n, d) == [node |-> n, do |-> "adjust", step |-> "ttl", delta |-> d]

\* IncreaseUserQuota and DecreaseUserQuota: a goroutine adjusts the hash, and
\* the change is kept in memory or written to the row.
AdjustQuota(n, g, d, direct) ==
    /\ Begin(n)
    /\ Spawn(g, Adjustment(n, d))
    /\ \/ /\ batch /\ ~direct
          /\ store' = [store EXCEPT ![n] = @ + d]
          /\ truth' = truth + d
          /\ UNCHANGED call
       \/ /\ ~batch \/ direct
          /\ call' = [call EXCEPT ![n] = [@ EXCEPT !.pc = "write", !.delta = d]]
          /\ UNCHANGED <<store, truth>>
    /\ UNCHANGED <<batch, row, cache, flush, lost, faults>>

\* The row is updated; after an increase the hash is deleted.  An error reaches
\* the caller, and the goroutine goes on.
WriteQuota(n) ==
    LET d == call[n].delta IN
    /\ call[n].pc = "write"
    /\ \/ /\ row' = [row EXCEPT !.quota = @ + d]
          /\ truth' = truth + d
          /\ call' = [call EXCEPT ![n] =
                          IF d > 0 THEN [@ EXCEPT !.pc = "invalidate", !.delta = 0] ELSE Idle]
          /\ NoFault
       \/ /\ Fault
          /\ call' = [call EXCEPT ![n] = Idle]
          /\ UNCHANGED <<row, truth>>
    /\ UNCHANGED <<batch, cache, store, flush, task, lost, ops>>

InvalidateUserCache(n) ==
    /\ call[n].pc = "invalidate"
    /\ call' = [call EXCEPT ![n] = Idle]
    /\ \/ cache' = NoKey /\ NoFault
       \/ UNCHANGED cache /\ Fault
    /\ UNCHANGED <<batch, row, store, flush, task, truth, lost, ops>>

\* A transaction credits the row.  Most payments and codes leave the hash alone.
Credit(n, q) ==
    /\ Begin(n)
    /\ row' = [row EXCEPT !.quota = @ + q]
    /\ truth' = truth + q

Recharge(n, q) ==
    /\ Credit(n, q)
    /\ UNCHANGED <<batch, cache, store, flush, call, task, lost, faults>>

CompleteEpayTopUp(n, q) ==
    /\ Credit(n, q)
    /\ call' = [call EXCEPT ![n].pc = "invalidate"]
    /\ UNCHANGED <<batch, cache, store, flush, task, lost, faults>>

UserCheckin(n, g, q) ==
    /\ Credit(n, q)
    /\ Spawn(g, Adjustment(n, q))
    /\ UNCHANGED <<batch, cache, store, flush, call, lost, faults>>

\* A user saves settings, or an administrator disables the user: the whole row
\* is read, and User.Update called with it.
ReadUser(n, disables) ==
    /\ Begin(n)
    /\ call' = [call EXCEPT ![n] =
                   [Idle EXCEPT !.pc = "reread", !.disables = disables,
                                !.seen = [row EXCEPT !.enabled = @ /\ ~disables]]]
    /\ UNCHANGED <<batch, row, cache, store, flush, task, truth, lost, faults>>

GoOn(n, pc, user) == call' = [call EXCEPT ![n] = [@ EXCEPT !.pc = pc, !.user = user]]

\* User.Update reads the row again; an error is not looked at.
RereadUser(n) ==
    /\ call[n].pc = "reread"
    /\ \/ GoOn(n, "update", row) /\ NoFault
       \/ GoOn(n, "update", call[n].seen) /\ Fault
    /\ UNCHANGED <<batch, row, cache, store, flush, task, truth, lost, ops>>

\* user with the non-zero columns of newUser: a balance of 0 is not written.
Saved(newUser, user) ==
    [quota |-> IF newUser.quota = 0 THEN user.quota ELSE newUser.quota,
     enabled |-> newUser.enabled]

\* DB.Model(user).Updates(newUser): the columns, the balance too, are written to
\* the row, whatever it says by now, and to the user that was read again.
UpdateUser(n) ==
    LET new == Saved(call[n].seen, row) IN
    /\ call[n].pc = "update"
    /\ \/ /\ row' = new
          /\ lost' = lost + row.quota - new.quota
          /\ GoOn(n, "cache", Saved(call[n].seen, call[n].user)) /\ NoFault
       \/ call' = [call EXCEPT ![n] = Idle] /\ UNCHANGED <<row, lost>> /\ Fault
    /\ UNCHANGED <<batch, cache, store, flush, task, truth, ops>>

\* A bug: the object cached for a user lacks a field.
ToBaseUserNoStatus(user) == [quota |-> user.quota, expires |-> TRUE]

\* What updateUserCache stores, with an expiry.
ToBaseUser(user) == [quota |-> user.quota, enabled |-> user.enabled, expires |-> TRUE]

\* User.Update replaces the hash, and its caller deletes it after the user was
\* disabled, unless an error has ended the request.
CacheUser(n) ==
    /\ call[n].pc = "cache"
    /\ \/ /\ cache' = ToBaseUser(call[n].user) /\ NoFault
          /\ call' = [call EXCEPT ![n] =
                         IF @.disables THEN [Idle EXCEPT !.pc = "invalidate"] ELSE Idle]
       \/ call' = [call EXCEPT ![n] = Idle] /\ UNCHANGED cache /\ Fault
    /\ UNCHANGED <<batch, row, store, flush, task, truth, lost, ops>>

\* A request finds no hash, reads the row and leaves the filling to a goroutine.
GetUserCache(n, g) ==
    /\ call[n].pc = "idle"
    /\ cache = NoKey
    /\ Spawn(g, [node |-> n, do |-> "fill", user |-> row])
    /\ UNCHANGED <<batch, row, cache, store, flush, call, truth, lost, ops, faults>>

-----------------------------------------------------------------------------
(* Goroutines and Redis *)

End(g) == task' = [task EXCEPT ![g] = NoTask]

UpdateUserCache(g) ==
    /\ task[g] # NoTask /\ task[g].do = "fill"
    /\ \/ cache' = ToBaseUser(task[g].user) /\ NoFault
       \/ UNCHANGED cache /\ Fault
    /\ End(g)
    /\ UNCHANGED <<batch, row, store, flush, call, truth, lost, ops>>

AtStep(g, s) == task[g] # NoTask /\ task[g].do = "adjust" /\ task[g].step = s

\* RedisHIncrBy reads the time to live: nothing to do without a key.
ReadTTL(g) ==
    /\ AtStep(g, "ttl")
    /\ IF cache = NoKey THEN End(g) ELSE task' = [task EXCEPT ![g].step = "exec"]
    /\ UNCHANGED <<batch, row, cache, store, flush, call, truth, lost, ops, faults>>

\* A bug: the pipeline does not renew the expiry, a hash made here stays for ever.
IncrementedForGood(d) ==
    IF cache = NoKey THEN [quota |-> d, enabled |-> FALSE, expires |-> FALSE]
    ELSE [cache EXCEPT !.quota = @ + d]

\* HINCRBY makes the hash if it is not there; EXPIRE follows in the same pipeline.
Incremented(d) ==
    IF cache = NoKey THEN [quota |-> d, enabled |-> FALSE, expires |-> TRUE]
    ELSE [cache EXCEPT !.quota = @ + d, !.expires = TRUE]

RedisHIncrBy(g) ==
    /\ AtStep(g, "exec")
    /\ \/ cache' = Incremented(task[g].delta) /\ NoFault
       \/ UNCHANGED cache /\ Fault
    /\ End(g)
    /\ UNCHANGED <<batch, row, store, flush, call, truth, lost, ops>>

Expire ==
    /\ cache # NoKey /\ cache.expires
    /\ cache' = NoKey
    /\ UNCHANGED <<batch, row, store, flush, call, task, truth, lost, ops, faults>>

-----------------------------------------------------------------------------
(* Batch updates *)

\* A bug: the store is not emptied when it is taken out.
TakenOutKept(n) == store[n]

\* What is left in the store once batchUpdate has taken it out.
TakenOut(n) == 0

BatchSwap(n) ==
    /\ flush[n] = NoFlush /\ store[n] # 0
    /\ flush' = [flush EXCEPT ![n] = store[n]]
    /\ store' = [store EXCEPT ![n] = TakenOut(n)]
    /\ UNCHANGED <<batch, row, cache, call, task, truth, lost, ops, faults>>

BatchWrite(n) ==
    /\ flush[n] # NoFlush
    /\ flush' = [flush EXCEPT ![n] = NoFlush]
    /\ \/ row' = [row EXCEPT !.quota = @ + flush[n]] /\ UNCHANGED lost /\ NoFault
       \/ lost' = lost + flush[n] /\ UNCHANGED row /\ Fault
    /\ UNCHANGED <<batch, cache, store, call, task, truth, ops>>

Pending(n) == store[n] + (IF flush[n] = NoFlush THEN 0 ELSE flush[n])

\* A process dies with its request, its goroutines and its stores.
Crash(n) ==
    /\ Fault
    /\ lost' = lost + Pending(n)
    /\ store' = [store EXCEPT ![n] = 0]
    /\ flush' = [flush EXCEPT ![n] = NoFlush]
    /\ call' = [call EXCEPT ![n] = Idle]
    /\ task' = [g \in Routines |->
                    IF task[g] # NoTask /\ task[g].node = n THEN NoTask ELSE task[g]]
    /\ UNCHANGED <<batch, row, cache, truth, ops>>

SaveUser(n) == RereadUser(n) \/ UpdateUser(n) \/ CacheUser(n)
CallStep(n) == WriteQuota(n) \/ InvalidateUserCache(n) \/ SaveUser(n)
TaskStep(g) == UpdateUserCache(g) \/ ReadTTL(g) \/ RedisHIncrBy(g)
BatchUpdate(n) == BatchSwap(n) \/ BatchWrite(n)

Next ==
    \/ \E n \in Nodes, q \in Amounts : Recharge(n, q) \/ CompleteEpayTopUp(n, q)
    \/ \E n \in Nodes, g \in Routines, q \in Amounts :
          \/ \E direct \in BOOLEAN : AdjustQuota(n, g, q, direct) \/ AdjustQuota(n, g, -q, direct)
          \/ UserCheckin(n, g, q)
    \/ \E n \in Nodes, g \in Routines : GetUserCache(n, g)
    \/ \E n \in Nodes : \/ \E disables \in BOOLEAN : ReadUser(n, disables)
                       \/ CallStep(n) \/ BatchUpdate(n) \/ Crash(n)
    \/ \E g \in Routines : TaskStep(g)
    \/ Expire

Spec == Init /\ [][Next]_vars

\* Requests and goroutines go on, the batch loop runs, and keys expire.
Fairness ==
    /\ \A n \in Nodes : WF_vars(CallStep(n)) /\ WF_vars(BatchUpdate(n))
    /\ \A g \in Routines : WF_vars(TaskStep(g))
    /\ WF_vars(Expire)

FairSpec == Spec /\ Fairness

-----------------------------------------------------------------------------
(* Properties *)

\* No change of quota is lost or made twice between a request, the stores of
\* several processes and the row, while flushes and requests run side by side:
\* row and stores make up the balance, but for what errors, deaths and the stale
\* saves of User.Update have changed.
QuotaConserved ==
    row.quota + MapThenSumSet(LAMBDA n : Pending(n), Nodes) + lost = truth

\* The hash does not stay wrong: whatever goroutines, deletions and expiries do
\* to each other, when the changes end the hash is absent or tells the balance
\* and the status of the row.
CacheConverges ==
    <>[](cache = NoKey \/ (cache.quota = row.quota /\ cache.enabled = row.enabled))

\* "After disabling ... so that the old status is not used before the TTL of
\* Redis runs out": once nobody is at work on a disabled user any more, no
\* hash says that the user is enabled.
DisabledIsSeen ==
    ~row.enabled /\ (\A n \in Nodes : call[n] = Idle)
        => cache = NoKey \/ ~cache.enabled
=============================================================================
