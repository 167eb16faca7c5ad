# A TLA+ verification project for new-api

new-api is a gateway in front of AI providers, written in Go. It authenticates API
tokens, picks an upstream channel for each request, converts between wire formats,
and sells all of this against *quota*: a request is charged before it is sent,
settled when its cost is known, and refunded when it fails. Pictures, videos and
songs are *tasks*: rows of a table that background loops of several processes bring
to an end, sometimes hours later.

Beside the server the repository holds two web front ends and a desktop shell that
wraps the server.

This project models the part of the program in which a mistake costs money and
which a test hardly reaches: who takes and returns quota, in which order, and what
happens when statements fail, processes die, leases expire, webhooks come twice and
several processes work on the same row. Of the clients it models the two parts that
are driven by events in any order: the chat page and the desktop shell. TLC checks
small instances, TLAPS proves the central theorems for every instance.

## 1. Inventory of the system

| Part | State | Operations | Hard behaviour | What makes it correct |
|---|---|---|---|---|
| **Billing session** (`service/billing_session.go`, `funding_source.go`) | per request: pre-consumed, token and reserved amounts, flags; shared: `users.quota`, `tokens.remain_quota`, `user_subscriptions.amount_used`, pre-consume records | PreConsume, Reserve, Settle, Refund, violation fee | two ledgers, no common transaction; roll backs that fail; fallback between sources; retried refunds; concurrent requests; subscription rows read, changed and saved whole without a lock | each request pays its cost once on each ledger; nobody gets more back than was taken |
| **Image task admission** (`controller/image_async.go`, `model/image_task_dispatch.go`) | rows of `tasks`, database lock | check, charge, lock, count, insert, commit | count-then-insert race between processes; one lock per database; refund on every error path | limits hold; a refused request owes nothing |
| **Image task queue** (`relay/image/worker.go`, `model/image_task_dispatch.go`) | task rows with lease and attempt, Redis list and dedup keys, one channel and dedup map per process, leadership | hint, scan, claim, heartbeat, execute, finish, bill | lost hints, crashes, expired leases, late workers, attempts at the limit | every task ends, once, and is billed once |
| **Task polling** (`service/task_polling.go`, `relay/relay_task.go`) | task rows, snapshots of a round | timeout sweep, poll of videos and songs, settlement, bulk failure, realtime fetch by a user | several masters work from stale snapshots; three ways to write a row; odd upstream answers | as above, and the loop makes progress |
| **Payments, redemption** (`model/topup.go`, `subscription.go`, `redemption.go`, `controller/topup*.go`) | orders, codes, one mutex per order and process, the gateway's session and its undelivered events | create, complete, fail, expire, complete by hand, redeem | duplicated and reordered webhooks on several nodes; errors behind an acknowledgement; stale statuses saved | one credit per order or code; the status tells; who paid is credited |
| **Quota caches, batch update** (`model/utils.go`, `user.go`, `user_cache.go`, `common/redis.go`) | the row, the hash in Redis, in-memory stores per process | adjust, credit, save a user, fill, increment, delete, expire, flush | goroutines that write late; swap-then-write flush; whole-row saves | no change lost or doubled; the hash does not stay wrong |
| **Web playground** (`web/default/src/features/playground`) | list of messages, its copy in localStorage, the rendered view, two shared refs | send, suggestion, regenerate, delete, edit, stop, stream events, plain answers, reload | callbacks write into the last message; handlers start from the last render; shared refs | an answer holds its own text and ends; the input comes back |
| **Desktop shell** (`electron/main.js`) | child process, probes and timers, dialogs, windows, tray, quit state | start, probe, crash, show, close, quit, kill | every order of events of child, user and system | a start ends; a quit ends and leaves no child |
| **Subscription lifecycle** (`model/subscription.go`) | subscriptions, orders, groups | order, complete, expire, reset, invalidate | webhooks arrive twice; resets and cancellations race with charges | an order is completed once; the total is never exceeded |
| **Channel selection** (`service/channel_select.go`, `channel_affinity.go`, `model/channel_cache.go`) | cached abilities, sticky entries | select, retry, disable | retries walk down priorities and groups; the cache is swapped meanwhile | a retry does not skip or repeat a priority; disabled channels are not chosen |
| **Rate limits** (`middleware/*rate-limit.go`, `common/limiter`) | Redis lists, buckets | check, record | check and record are apart | bounded excess |
| **Midjourney** (`controller/midjourney.go`) | its own task table | poll, refund | as task polling | as task polling |
| Relay adaptors, pricing arithmetic, accounts, logs, settings, the rest of the front ends | – | – | stateless, or outside this program's decisions | – |

How they interact: a relay request opens a billing session, calls an adaptor through
a selected channel, and settles or refunds. A task request settles its session when
the upstream accepts the task and stores a row; an image request stores the row
first, under the admission lock. From then on the row carries the charge (`quota`,
billing source, token id), and whoever ends the task bills it: an image worker, the
poller, or the timeout sweep, which treats the rows of both. Quota comes in through
payments; every charge and credit goes through the quota caches. The playground talks to
the relay like any client, and the desktop shell starts the whole server as a child.

## 2. Modules

| Module | Models |
|---|---|
| `BillingSession` | all of `BillingSession`, `WalletFunding`, `SubscriptionFunding` for concurrent requests of one user and token |
| `TaskLedger` | the abstract contract of a task: one outcome, then one billing that fits it |
| `ImageAdmission` | `RelayImageTaskSubmit` up to the commit of the row |
| `ImageTaskQueue` | hints, claims, leases, workers, the sweep over image rows; implements `TaskLedger` |
| `TaskPolling` | the polling round, the sweep, task billing, realtime fetch; its video part implements `TaskLedger` |
| `PaymentOrders` | top-ups, subscription orders and redemption codes through five gateways, on one or several nodes |
| `QuotaCache` | `users.quota` and `users.status`, their hash in Redis, the batch stores of several processes |
| `Playground` | the chat page of the default front end |
| `DesktopShell` | the Electron main process |
| `SetSums` | sums over finite sets, with the lemmas the proofs of the ledgers need |
| `BillingSessionProofs`, `ImageAdmissionProofs`, `ImageTaskQueueProofs`, `TaskPollingProofs`, `PaymentOrdersProofs`, `QuotaCacheProofs`, `FrontEndProofs` (playground and shell) | the theorems |
| `MC*` | instances for TLC |

**Grain.** One action is one statement or transaction against the database or Redis,
or one decision of a goroutine between two of them, so that every interleaving that
matters and a failure or crash between any two statements is a behaviour. `pc[a]` is
the goroutine's place in the code. Locks of one process whose critical section has no
statement in it are part of the action.

**`BillingSession`.** `wallet`, `token`, `subUsed`, `subStatus`, `subNext`, `record` are the
columns; `sess`, `flags` and `fund` the fields of the session and of its funding source. The flag
`fundingSettled` of the code is left out: `Settle` sets `settled` in the same critical
section, so it is never seen alone. `net[r]` is a history variable, what request `r`
has taken from each ledger; the properties compare it with the session. `Settle` may
be followed by another attempt or by the deferred refund, as in `Relay` when the client
has gone while a picture was being stored. Costs, targets and fees are chosen from sets;
the arithmetic that computes them is not modelled.

The transactions on a subscription are in two actions. The first reads the row into `row[r]`
(`FindSubscription` for the pre-consume, `ReadSubscription` for every later delta), the second
computes from it and saves all of its columns (`Save`), whatever other requests, the reset
task, an administrator or the end of the subscription have written in between: the lock is
asked for with `Set("gorm:query_option", "FOR UPDATE")`, which gorm v1.25.2 ignores. `period`
counts the reset times that have gone by. A row read after its reset time starts at 0, both in
`PreConsumeUserSubscription` and in the reset task (`ResetDueSubscriptions`, which keeps the
row it read in `locked`). `overwritten` and `renewed` are histories: the subscriptions of which
a row was saved whose `amount_used` had changed since it was read, and those a reset was applied
to. `net[r].sub` is what the request has asked its subscription for, `net[r].clamped` the part of
its refunds that the clamp at 0 has kept, so `SubTaken`, their sum, is what the row was
changed by.

**`ImageAdmission`.** `db` is the database: `postgres` holds the advisory lock until
the transaction ends, `mysql` a named lock that a deferred call releases before the
commit, `sqlite` a mutex released in the same way, but with a database that refuses to
write from a snapshot another commit has overtaken (`stale`). `EndTask` stands for the
workers: it makes room.

**`ImageTaskQueue`.** `status`, `owner`, `lease`, `attempt` are the columns; `notify`
and `dedup` the keys in Redis; `queue` and `queued` the channel and the map of each
process. A local hint takes three steps: the id goes into the map, is sent (`SendLocal`), and
leaves the map again if the channel was full (`DropLocal`); `sending` holds the hints in
between. A lease is `live` or `expired`; time is the freedom of `LeaseExpires`. A
restarted process is another node because the owner string has the process id in it.
`Claim` is the conditional update, `Load` the read after it that may fail, `Finish` the
update guarded by status and owner. Then the two ledgers are billed one after the other.
`tainted` marks a task whose billing an error or a crash cut short.

**`TaskPolling`.** `seen[p]` holds the statuses as the round read them; `StillAsSeen` is
the guard of `UpdateWithStatus`. The upstream's answer is any of `Reports`: a status,
whether the progress is 100%, whether there is a fail reason. Songs are refunded before
they are saved, without a guard; a user's request writes to Gemini and Vertex rows. When the
lookup of the channel returns an error, because it was deleted or because a statement failed
(`Fault`), the tasks of the round are failed in bulk, past the swap and without a refund.
`before[t]` keeps the status such a failure has overwritten and `OwnStatus(t)` the status `t`
would have without it: the bulk failure of a task that had ended changes what its row shows
and nothing else, that of an unfinished one takes it out of the loops for good.

**`PaymentOrders`.** `status` is the column of the order (or code), `gateway` and `outbox`
the checkout session and the events the gateway repeats until they are acknowledged.
A request locks (`LockOrder`, one process only), reads, and writes; with a row lock, read
and write are one transaction. Which of these a handler uses depends on gateway, event
and kind, as in the code. Whether the row lock exists is a part of `deploy`: the code asks
for it with `Set("gorm:query_option", "FOR UPDATE")`, an option that gorm's current version
(v1.25, `go.mod`) ignores. `credits` counts in units of what was bought.

**`QuotaCache`.** `row` is the row of a user, `cache` the hash, `stores` the batch stores.
Goroutines (`gopool.Go`) hold what they read until they write. Saving a user is three steps:
the row is read again, updated, and its hash written. `truth` is the balance the
requests have asked for, `lost` what errors, deaths and whole-row saves have changed.

**`Playground`.** `messages` is the state all queued updaters lead to, `view` what was
rendered last: handlers read `view`, callbacks update `messages`. Text is a set of pieces,
each the request (or user) it came from, inside or outside `<think>` tags. React flushes
what an event of the user changed before the next event (`Flush`), and renders changes of
network callbacks in a task of their own (`Render`). `crossed` records that a handler that
nothing guards (a suggestion, Save in the editor, any handler without streaming) ran with
an answer under way.

**`DesktopShell`.** One action per event. `Quit` is `app.quit` with `before-quit`;
`Rescheduled` has both handlers of a request that timed out. `occupied` says that another
process answers on the port. A `createTray` or `createWindow` that throws when the probe has
answered ends in the failure dialog. Its specification is called `ShellSpec`, since
`FrontEndProofs` extends this module and `Playground` together.

## 3. Runs

| Run | Instance | Shows |
|---|---|---|
| `billing_one` | 1 request, all preferences, kinds of token, force flags, 2 subscriptions that end or are cancelled, 3 errors or 1 reset time | `TypeOK`, `SessionLedgerExact`, `SettledIsFinal` |
| `billing_pair` | 2 requests of one token, wallet or subscription first with fallback, 1 subscription, trust bypass, 1 error each | `SessionLedgerExact`, `SubscriptionLedgerExact`, `NeverOverRefunded` |
| `refund_retry` | 1 request, a subscription others have used, the save of the record fails | violation of `RefundIsIdempotent` |
| `admission_safe` | 4 requests, 2 users, all three limits, 1 error, Postgres and SQLite | `TypeOK`, `ChargeFollowsRow`, `AdmittedWithinLimits`, `EveryRequestAnswered` |
| `queue_redis` | 1 task, 2 nodes with a worker each, a sweep, 1 attempt, 1 expiry, 1 error, 1 crash | `UpstreamCallsBounded`, `ClaimIsExclusive`, `TaskMoneyExact`, `FinishedIsFinal`, `EveryTaskEnds` |
| `queue_local` | 2 tasks, 2 workers and a sweep on 1 node without Redis, channel of 1 | `TypeOK`, `QueuedIsBacked`, `ImplementsLedger` |
| `polling_video` | 2 videos, 2 masters, 1 row a round, cheaper and dearer costs, silent upstreams, 1 error or crash | `TypeOK`, `TaskMoneyExact`, `ImplementsLedger`, `EveryTaskEnds` |
| `polling_mixed` | a realtime video and a song, a deletable channel, 2 views, odd answers, 1 error or crash | `LedgersAgree` |
| `payment_orders` | any order next to a Creem subscription of the same user, 2 requests, 2 nodes with row locks or 1 without, 2 faults | `TypeOK`, `CreditedOnce`, `StatusTellsCredit`, `PaidIsCredited` |
| `quota_cache` | 1 user, 2 processes, 2 goroutines, 2 operations, 2 faults | `TypeOK`, `QuotaConserved`, `CacheConverges` |
| `playground` | 2 requests, streamed or plain, text and thoughts, 1 fault | `TypeOK`, `AnswersKeptApart`, `UnsettledCanEnd`, `AnswersSettle` |
| `desktop_shell` | both platforms, both modes, port free or taken, 3 retries | `ShellTypeOK`, `NoOrphan`, `ProbesBounded`, `OneWindow`, `StartEnds`, `QuitEnds` |

What the properties say is in the comment above each. In short: `SessionLedgerExact` ties
what was taken from each ledger to what the session owes at rest; `NeverOverRefunded` holds
whatever fails, wherever the process dies and however stale the row it saves;
`SubscriptionLedgerExact` says that `amount_used` never exceeds the total, and that it is the sum of
the requests' charges as long as no stale row was saved and no reset came (`Undisturbed`);
`TaskMoneyExact` that a task's charge is held until it ends and then dealt with once on both
ledgers, and that it stays held for good where a bulk failure hit the task unfinished; `LedgersAgree` that even the
unguarded writers move both ledgers together; `ImplementsLedger` is the refinement.
`CreditedOnce`, `StatusTellsCredit` and `PaidIsCredited` say what an order is worth, with the
deployments and gateways for which each holds; the exceptions are named operators
(`Price`, `Overwritable`, `LosesErrors`), each of them needed. `QuotaConserved` is an equation
between row, stores and what was asked for; `CacheConverges` says that the hash ends up absent
or right. `AnswersKeptApart` and `UnsettledCanEnd` say what the guards of the chat page are worth,
`AnswersSettle` that the input comes back even where they are passed by.

**Why the bounds are enough.** The races are between the actors of one row, so one task
with two workers, two sweeps or two masters has every pair of them; two tasks are used
where tasks meet (a channel of capacity one, a page of one row, one round over several
rows). Every window between two statements of one actor is reached by one error or one
crash; a second error in the same operation matters for the roll backs and the refund
retry, so `billing_one` has three. There the reset time goes by in behaviours without an error
(`ResetOrFaults`), once (`MaxPeriods`): a second reset finds what the first has left. With two
requests the reset is a matter of the proofs, which know no bounds. A reservation may be refused and rolled back again and again, and after a
stale save the clamp may keep something each time: `BoundedClamp` stops at `MaxClamped`. Amounts are chosen below, at and above the balance,
the pre-consumed quota, the subscription's total and the trust quota. Balances start at
3, small enough for requests to exhaust them. One attempt and one expiry pass
`MaxAttempts` (with two and two the queue has 920,000 states and the same result). An order meets
another order only through the limit of purchases, so one order of any kind next to one
subscription is enough, and two requests are all pairs of deliveries. Two operations and
two goroutines give every pair of late writers of the hash; three operations pass, too
(5 minutes). Two requests of the playground are enough to cross; past a crossing behaviours
are followed while nothing has failed (`CrossingWithoutFaults`), which leaves out only
combinations of a crossing and a fault, about which just one half of `AnswersSettle` says
anything. Three retries of the shell let the probes double twice; the theorems are for any
number. Limits of admission (3, 2, 2) with four requests are reached from below
by every kind of request. `MaxNotify` bounds the Redis list only.
Symmetry is used for the requests of `billing_pair`, which are interchangeable; never in
a run with a temporal property.

Deadlock checking is off where the system may stop: when all requests are answered
(billing, admission), when all nodes are dead (queue), when all orders are settled
(payments), when no operation is left (quota). The poller, the playground and the shell
(which stutters once it has exited) check deadlock.

**Fairness.** *Queue*: weak fairness of each worker's loop, of the two steps that follow a hint's entry in the
local map (they have no statement in them), of the scan (a ticker on
the leader, and everyone competes for leadership), of the expiry of dedup keys (30 s in
Redis) and of a lease nobody renews. Nothing is assumed of submissions, of the submit
handler's hint (its process may die) or of renewals, and of the sweep only that it bills
the task it has ended; it may never run. A worker's step out of
the upstream call is fair because the HTTP clients have timeouts. *Polling*: weak fairness
of the loop, which sleeps and recovers from panics, and of the ageing of tasks; nothing of
users, administrators or upstreams: an upstream may stay silent for ever and the sweep
still ends the task. A crashed master starts again. The unfinished status of a task
does not alternate in that run (`SteadyReports`): an upstream that goes back and forth lets the
poll of one master take the swap from the sweep of the other for ever (hazard at
`service/task_polling.go:75`). *Payments*: weak fairness of a request's steps, strong fairness
of the delivery of `paid` (a gateway repeats it) and of taking the mutex, which others
release again and again. *Quota*: goroutines run, keys expire, the batch ticker ticks.
*Playground*: the browser renders; every request is answered or fails, since the relay closes
idle streams. Nothing of the user. *Shell*: timers fire, every probe has an outcome within its
timeout, events are delivered. Nothing of the child or the user. *Admission*: weak fairness of each
handler. The lock needs no strong fairness there, because every holder releases it and
there are finitely many requests.

## 4. Proofs

Checked by TLAPS for every value of the constants: every invariant, action property and
refinement of the passing runs. Each proof of a safety
property has the same frame: an invariant that holds initially, that every action preserves
(one step per action), and that implies the property. What the invariants add to the
properties is what a reader of the code would have to know to believe them.

**Billing session** (`BillingSessionProofs`). `SessionLedgerExact` speaks of sessions at rest;
`BillingInv` says for each place in the code what the session looks like (`Shape`: the source
is fixed before anything is taken, the token is charged for what the source will be asked
for, a flag is set before the first refund) and how much each ledger has been charged
there (`Ledger`), and that a transaction under way holds a row of the subscription it is about
(`SubServed`). Three claims about the money go together: `Covered` (what may still be given back
is at most what was taken, errors or not), `ConsumedExact` (`WalletFunding.consumed` is what
was taken, errors or not, until settlement or refund), `ExactLedgers` (no error: the exact amount).

- `BillingInvariant`, `BillingTypeCorrect`, `BillingSettledIsFinal`: unconditional.
- `BillingNeverOverRefunded`, `BillingSubscriptionLedgerExact` and `BillingLedgerExact` are proved if
  `"recordSave" \notin Faults`. Without the hypothesis they are false, which is the finding of
  `refund_retry`.
- `BillingSubscriptionLedgerExact` rests on `SubInv`, for any number of requests and any
  interleaving of reads and saves, with resets. `RowInv` says that a row in hand is of the
  subscription the request is about and within the total, and that one just chosen has room for
  the request; `LockedInv` that the reset task holds due rows only, whose save starts at 0;
  `WithinTotal` that no save exceeds the total, because each compares the total with the row it
  saves, however old that is. `UsageExact` says that an undisturbed `amount_used` is the sum of what the requests have
  drawn. The clamp at 0 (`ClampExact`) is the interesting case: undisturbed, the sum is at least this
  request's share (`SumOfNaturals`), which by `Covered` is at least what it gives back, so
  the clamp swallows nothing. `BillingLedgerExact` needs that too.

**Image task queue** (`ImageTaskQueueProofs`).

- `QueueTypeCorrect` needs in addition that a busy actor has a task in hand (`JobInv`).
- `QueueMoneyExact`. The property does not know what a billing actor is about to do. `QueueInv` adds
  `BillInv` (an actor about to bill has put its outcome into the row and the charge is still
  held; one about to pay the token back has refunded the funding source and the token is still
  charged), `SoleBiller` (two actors never bill one task) and `SeenInv` (a sweep has read only
  unfinished statuses, so winning its swap means the task was unfinished). Three lemmas carry
  the argument: a step outside billing (`PlainStep`), the step that wins the swap
  (`WinningStep`: the task was unfinished, hence nobody bills it), and a step inside billing
  (`BillingStep`).
- `QueueFinishedIsFinal`, from the same invariant, and `QueueImplementsLedger`, the refinement
  of `TaskLedger` under the mapping that reads the outcome off the status column.
- `QueueClaimIsExclusive`, `QueueUpstreamCallsBounded`, from an account of the claims (`TaskLease`): every claim but the
  first has an expired lease before it, so `attempt <= 1 + expiries`; and a claim is spent on at most
  one call, so calls made plus workers between the `UPDATE` and the `SELECT` of `ClaimImageAsyncTask`
  are at most `attempt`. The workers have to be counted: after an expiry two of them may be on one
  node, and both find the row to be theirs.
- `QueueQueuedIsBacked` needs that a worker that takes an id has no other in hand (`IdleInv`); an id
  of the map is in the channel, with a worker, or about to be sent or dropped (`BeingSent`).

**Task polling** (`TaskPollingProofs`).

- `PollingTypeCorrect` needs the shape of what a goroutine holds at each place (`ActorShape`).
- `PollingPlainTaskMoneyExact`, `PollingPlainTasksKeepContract`: the money and the refinement of `TaskLedger` for the
  *plain* tasks, in any mixture with others. A task is plain if it is a video and no user's view
  writes to its row; the others are ended by statements without the compare-and-swap, and for
  them both properties are false (section 5). A bulk failure may hit plain tasks as well, at any
  time, whether their channel is deleted or its lookup fails. The theorems say what that does:
  the contract holds of the outcome the compare-and-swap has given (`OwnStatus`), a task hit before it
  has one keeps its charge and is never touched again. That the row then shows a failure nobody
  has billed is not excused by them; it is item 3 of section 5.
  `PollInv` says where the billing of a task stands with the master that does it (`Biller`), that
  no other master bills it, and that masters have read only unfinished statuses (`SeenInv`).
- `PollingMoneyExact`, `PollingImplementsLedger`: the same as the run `polling_video` states them, for all tasks;
  their hypothesis `Plain = Tasks` is the instance of that run.
- `PollingLedgersAgree`: for *all* tasks, the token is behind the funding source by exactly what
  the masters at work have still to move, however many they are (a song may be refunded by two at once).
  `AgreeInv` adds that whoever works on a task works on a stored row (`PresentInv`), so that a row
  about to be stored has no billing under way.

**Payments** (`PaymentOrdersProofs`). `PaymentTypeCorrect`, `PaymentCreditedOnce`, `PaymentStatusTellsCredit` from `OrderInv`: events and requests
have a reason (`ReasonInv`: a Stripe session that failed is never paid later), `LockOrder` and row locks
exclude each other's second holder (`LockInv`), and what a request has read under the locks still
holds when it writes (`FreshInv`) – unless the locks are missing, which is where the exceptions
in the properties come from; the proof shows that there are no more of them.

**Quota caches** (`QuotaCacheProofs`). `QuotaTypeCorrect`, `QuotaIsConserved`: row, losses and what all processes keep in
their stores and flushes add up to the balance asked for. A step changes what one
process keeps (`StoreMoves`) or only the row (`RowMoves`).

**Admission** (`ImageAdmissionProofs`). `AdmissionTypeCorrect`, `AdmissionChargeFollowsRow` (`ChargeInv`: the charge at
every point of the handler) on every database. `PostgresAdmitsWithinLimits`: `Spec /\ db = "postgres" =>
AdmittedWithinLimits`. `LockInv` says that whoever is inside the transaction holds the lock, `RoomInv` that the
room a transaction has counted is still there; only a commit takes room, and only the
holder commits. The hypothesis is needed: with `db = "mysql"` TLC finds two requests that
take the last place. `SqliteAdmitsWithinLimits` has another argument, `SnapshotInv`: one transaction writes at a time, and one
that has counted before a commit may not write after it. It does not use the mutex, which
is released too early to help. `AdmissionWithinLimits` puts both together for installations without MySQL.

**Playground** (`FrontEndProofs`). `PlaygroundTypeCorrect`, `PlaygroundAnswersKeptApart`, `PlaygroundUnsettledCanEnd`, for every number of
requests and failures and all kinds of chunks. The first needs only that messages of the user never have another status
and that `isGenerating` is rendered no later than the ref holds a source (`PageInv`). The other two are
about the behaviours in which no unguarded handler has crossed an answer; for them `KeptInv` adds `Apart`:

- `ListOK`, of the list and of its copy in localStorage, however old: only the last message is
  unsettled, an unsettled one holds text of its own request only, and an answer whose request is live
  is unsettled;
- `Live`: at most one request is live, and the last message is its answer;
- `Ending`: an unsettled answer whose request has delivered something is not empty, so that
  completing it keeps the text, whether it came as content, between think tags or as reasoning;
- `Rendered`: a page that shows nothing under way shows the current list, and no request is live. With
  streams it is enough that the rendered `isGenerating` is false.

Two lemmas carry the argument. `Still`: a handler that does not cross starts from a page with nothing
under way, hence from the current list, all settled. `Hearing`: a callback is of the only live
request, and what it writes into is its own unsettled answer. The lists the handlers build
(`TwoAppended`, `AppendedToPrefix`, `OneRemoved`, `OneEdited`, `LastUpdated`, `Sanitized`) and what becomes of a message
(`ChunkedMessage`, `CompletedMessage`, `RepliedMessage`, `FailedMessage`, `RepairedMessage`) are lemmas of their own.

**Desktop shell** (`FrontEndProofs`). `ShellTypeCorrect`, `ShellLeavesNoOrphan`, `ShellProbesBounded`, `ShellOneWindow`. `ChildInv` (a child
nobody holds is not running) makes `NoOrphan` inductive. `ProbeInv` bounds the probes: `waiting + 2 *
inFlight <= attempts + 1`, since each finished probe adds at most one pending call, hence
`attempts + waiting < 2 * MaxRetries` as long as calls are added. `WindowInv` adds that no window exists before
the start has ended.

**Sums** (`SetSums`). `MapThenSumSet` adds up in the order in which `CHOOSE` picks the elements. The lemmas
show that its recursion has exactly one solution, that any element may be taken out first
(`SumRemove`), what a change at one element does (`SumChange`), and that elements worth nothing do not count
(`SumOfNonzero`). Induction theorems with an operator parameter cannot be used here; instead, each
induction takes a least counterexample from a set of numbers or of subsets.

**Assumptions on constants.** The sets of requests (`BillingSession`, `ImageAdmission`), of masters (`TaskPolling`) and of
processes (`QuotaCache`) are finite; the bounds and limits are natural numbers, prices and amounts of
the sign they have in the code; the kinds of chunks are known ones; the origins of text are different; workers and sweepers, masters and users' views are different
goroutines, each on a node; the values that stand for "none" are not among the things they
are none of. All of them are named `ASSUME`s of the modules, evaluated by TLC in the runs.

**Only model-checked.** Liveness (`EveryTaskEnds`, `EveryRequestAnswered`, `PaidIsCredited`, `CacheConverges`, `AnswersSettle`, `StartEnds`,
`QuitEnds`): the prover handles neither fairness nor `ENABLED`. `TaskMoneyExact` and the refinement
for tasks that are not plain are false and not claimed.

## 5. Where the code and its documents disagree

1. `refund_retry`: `RefundSubscriptionPreConsume` is called idempotent, but commits the
   refund before it marks the record; a failed save and a retry refund twice. In the run
   `amount_used`, 2 by other requests, goes 2, 4, 2, 0.

Five more disagreements have a configuration of their own beside the runs. TLC refutes the
property named, within seconds, with `tlc -config <cfg> <module>`:

2. `MCBillingSession_lost_charge.cfg`, `NoChargeLost`. `service/billing_session.go:306` says that
   `PreConsumeUserSubscription` locks the subscription. Two requests read the row before either has
   saved it, and the second save undoes the first charge: two charges of 2 leave `amount_used = 2`.
   `MCBillingSession_cancelled.cfg`, `CancelledIsFinal`: `AdminInvalidateUserSubscription` "marks a
   user subscription as cancelled and ends it immediately" (`model/subscription.go:843`), but a
   charge that had read the row saves status and end time back, and the subscription pays again.
3. `MCTaskPolling_bulk_failure.cfg`, `EndIsBilledAsShown`. `model/task.go:630-633` says of
   `TaskBulkUpdateByID` "DO NOT use in billing/quota lifecycle flows (e.g., timeout, success, failure
   transitions that trigger refunds or settlements)". Both polling functions use it on any error of
   `CacheGetChannel`, by default a read of the database: one failed read ends a video whose
   channel exists, its row says FAILURE, and its charge is held for ever. With two masters the update
   also covers a SUCCESS that the other has just written.
4. `MCImageAdmission_mysql.cfg`, `AdmittedWithinLimits`. `model/image_task_dispatch.go:202-203` says that on
   MySQL, too, the count-then-insert race is closed. The deferred `RELEASE_LOCK` runs before the
   commit; a second request counts in between, and both are stored.
5. `MCPaymentOrders_nodes.cfg`, `CompletionIsIdempotent`. `model/topup.go:410` calls `CompleteEpayTopUp`
   idempotent. Without the row lock, and with two nodes, a notification that is delivered again
   between the read and the commit of the first credits the order twice; a redemption code is
   credited twice even on one node.
6. `MCQuotaCache_disabled.cfg`, `DisabledIsSeen`. `controller/user.go:1047-1048` says that the deletion of the
   hash keeps a disabled user from going on until the TTL runs out. A goroutine that has read the
   row before fills the hash again with the old status.

The following are exceptions stated in a property, or answers a run leaves out, which a
hazard of `PROJECT.json` names:

7. Songs are refunded before the save and without the swap; an error refunds them twice. A
   user's look at a Gemini or Vertex task can end it without billing, or bring an ended and
   refunded one back. Both keep `LedgersAgree` and break the contract of `TaskLedger`.
8. An unfinished row at 100% is invisible to both loops (`Reports <- OddReports`, `EveryTaskEnds`).
9. A Creem order completed by hand is credited `QuotaPerUnit` times (`Price`).
10. A Waffo failure before the success, and errors behind an acknowledgement, leave a paid
    order without its credit (`PaidIsCredited`'s exceptions).
11. The playground's suggestions and its editor start or overwrite while an answer is under
    way (`crossed`), and a stream without `[DONE]` blocks the input until Stop (`cut`).
12. The shell probes more often than `maxRetries`; an early `activate` makes a second window.

## 6. Abstractions and what they leave out

- A database error changes nothing ("clean" errors). A commit whose acknowledgement is lost
  is not modelled.
- Row locks that gorm ignores: `BillingSession` and `PaymentOrders` split such a transaction into
  its read and its write. `TaskPolling` and `ImageTaskQueue` bill a subscription through the same
  `PostConsumeUserSubscriptionDelta`; there the funding of each task is counted for itself, as what the
  task has asked for, and what the shared row makes of it is `BillingSession`'s subject.
- In `BillingSession` the clock and the rows a transaction reads are read in one step, and
  `ResetDueSubscriptions` finds and reads a due row in one step. Every subscription has a next
  reset time (with `MaxPeriods = 0` it never comes). The deletion of a subscription by an administrator is
  not modelled. The branches of `PreConsumeUserSubscription` for a request id that has a record
  already (`model/subscription.go:1100-1119`, `1154-1167`) are not reached: every request gets a fresh id
  (`middleware/request-id.go:22`) and pre-consumes a subscription at most once
  (`service/funding_source.go:88`). `SettleBilling` without a session (free models, `service/billing.go:72-77`)
  is left out.
- `tryRealtimeFetch` writes all columns of the row it has read; `TaskPolling` has the status and
  the progress of that, not the `quota` column.
- A release of MySQL's named lock that fails.
- Outside `QuotaCache` quota is read from the column, not from Redis, and written at once, not
  in batches. `QuotaCache` has the user's row; tokens are kept in the same way.
- Prices, exchange rates and signatures of payments; the check that an event comes from the
  order's own gateway; the daily check-in.
- Callbacks of a playground that was left by navigation: they belong to a component that is
  gone. What the library `sse.js` does after a source was closed: nothing arrives from it.
- The shell's own death without a quit: nothing in the code reacts to it.
- Upstream task ids are distinct. `GetUpstreamTaskID` falls back to the task id, so rows
  without one do not occur.
- Claimable rows are dispatched in any order; the round robin of `fairImageTaskIDs` is one
  of these orders.
- Logs, statistics, notifications, storage of pictures, wording of errors.
- Parts with status `not_modelled` in `PROJECT.json`, each with its reason there.

## 7. Plan

1. **Composition at the row** – `RelayTask` from the billing session to the stored row
   (the insert that fails after settlement, `controller/relay.go:620`), and the synchronous wait
   (`controller/image_sync_queue.go`) on top of `ImageTaskQueue`.
2. **`Subscription`** – group changes and purchases with the balance; reset, expiry and cancellation
   are in `BillingSession`.
3. **`ChannelSelect`** – retries over priorities and auto groups as a pure algorithm against a
   reference definition, and its state across a request's retries.
4. **`RateLimit`** – sliding window and token bucket; the excess of concurrent requests.
5. **`FairDispatch`** – `fairImageTaskIDs` against a reference definition.
6. **Midjourney** – polling with the same contract.
