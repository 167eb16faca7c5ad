--------------------------- MODULE PaymentOrders ---------------------------
(***************************************************************************)
(* Orders paid through a gateway: top-ups of the wallet (table top_ups),   *)
(* purchases of a subscription plan (subscription_orders), and redemption  *)
(* codes, which credit a wallet without a payment.  Gateways report by     *)
(* webhook, at least once and in any order, to any node; an administrator  *)
(* may complete a top-up by hand; a browser coming back from epay          *)
(* completes a subscription, too.                                          *)
(*                                                                         *)
(* Two locks keep a duplicate from crediting twice: LockOrder, a mutex per *)
(* order within one process, and the row lock the transactions ask for     *)
(* with Set("gorm:query_option", "FOR UPDATE").  Whether the second one    *)
(* exists depends on the library, so it is a part of the deployment.       *)
(***************************************************************************)
EXTENDS Naturals, FiniteSets

CONSTANTS
    Orders,
    NoOrder,       \* what an idle handler works on
    Handlers,      \* requests the servers handle at the same time
    Nodes,         \* server processes
    Deployments,   \* [rowLock, node]: is a row lock taken; who handles what
    Portfolios,    \* what the orders may be: functions from Orders to Kinds
    MaxPurchase,   \* MaxPurchasePerUser of the plan (one user, one plan)
    QuotaPerUnit,  \* quota for one unit of a top-up's Amount
    MaxFaults      \* bound on the database errors, lost replies and deaths

Providers == {"epay", "stripe", "creem", "waffo", "pancake"}

Kinds ==
    [via : Providers, what : {"topup"}]
        \cup [via : Providers \ {"waffo"}, what : {"sub"}]
        \cup [via : {"admin"}, what : {"code"}]

ASSUME DeploymentAssumption ==
    Deployments \subseteq [rowLock : BOOLEAN, node : [Handlers -> Nodes]]
ASSUME OrderAssumption == NoOrder \notin Orders /\ Portfolios \subseteq [Orders -> Kinds]
ASSUME BoundAssumption ==
    MaxPurchase \in Nat \ {0} /\ QuotaPerUnit \in Nat \ {0} /\ MaxFaults \in Nat

VARIABLES
    kind,      \* kind[o]: what the order o buys, and through whom
    deploy,    \* the deployment
    status,    \* status[o]: the column; for a code pending is enabled, success used
    gateway,   \* gateway[o]: the checkout session at the gateway
    outbox,    \* outbox[o]: the events the gateway goes on delivering
    credits,   \* credits[o]: what o has added, in units of what was bought
    manual,    \* history: the orders an administrator has completed
    pc,        \* pc[h]: where the request is
    job,       \* job[h]: its order
    ev,        \* ev[h]: why it is handled
    faults

request == <<pc, job, ev>>
vars == <<kind, deploy, status, gateway, outbox, credits, manual, request, faults>>

Events == {"paid", "failed", "expired"}
Statuses == {"none", "pending", "success", "failed", "expired"}

TypeOK ==
    /\ kind \in [Orders -> Kinds]
    /\ deploy \in Deployments
    /\ status \in [Orders -> Statuses]
    /\ gateway \in [Orders -> {"none", "calling", "open", "paid", "over"}]
    /\ outbox \in [Orders -> SUBSET Events]
    /\ credits \in [Orders -> Nat]
    /\ manual \in SUBSET Orders
    /\ pc \in [Handlers -> {"idle", "lock", "read", "write"}]
    /\ job \in [Handlers -> Orders \cup {NoOrder}]
    /\ ev \in [Handlers -> Events \cup {"none", "manual", "return", "redeem"}]
    /\ faults \in 0..MaxFaults

Init ==
    /\ kind \in Portfolios
    /\ deploy \in Deployments
    /\ status = [o \in Orders |-> "none"]
    /\ gateway = [o \in Orders |-> "none"]
    /\ outbox = [o \in Orders |-> {}]
    /\ credits = [o \in Orders |-> 0]
    /\ manual = {}
    /\ pc = [h \in Handlers |-> "idle"]
    /\ job = [h \in Handlers |-> NoOrder]
    /\ ev = [h \in Handlers |-> "none"]
    /\ faults = 0

Fault ==
    /\ faults < MaxFaults
    /\ faults' = faults + 1

NoFault == UNCHANGED faults

IsSub(o) == kind[o].what = "sub"
Via(o, providers) == kind[o].via \in providers

-----------------------------------------------------------------------------
(* An order is created *)

\* Subscriptions of the plan the user holds.
Bought == {o \in Orders : IsSub(o) /\ credits[o] > 0}
Room(o) == IsSub(o) => Cardinality(Bought) < MaxPurchase

\* Stripe orders and epay top-ups.
LinkFirst(o) == Via(o, {"stripe"}) \/ (Via(o, {"epay"}) /\ ~IsSub(o))

Store(o, g) ==
    /\ status[o] = "none"
    /\ Room(o)
    /\ status' = [status EXCEPT ![o] = "pending"]
    /\ gateway' = [gateway EXCEPT ![o] = g]
    /\ UNCHANGED <<kind, deploy, outbox, credits, manual, request, faults>>

\* The gateway has given a link; the payer gets it once the row is stored.
LinkThenInsert(o) == LinkFirst(o) /\ Store(o, "open")

\* The row is stored, then the gateway is called.
InsertThenCall(o) == kind[o].what # "code" /\ ~LinkFirst(o) /\ Store(o, "calling")

\* An administrator issues a code; nobody pays for it.
AddRedemption(o) == kind[o].what = "code" /\ Store(o, "over")

\* h is inside a transaction of the order it handles.  The failure of an
\* asynchronous Stripe payment is read and saved without one.
InTx(h) == ~(ev[h] = "failed" /\ Via(job[h], {"stripe"}))

\* With row locks a transaction that has read its row keeps the others out.
RowFree(h, o) ==
    deploy.rowLock => \A g \in Handlers \ {h} : ~(job[g] = o /\ pc[g] = "write" /\ InTx(g))

\* The gateway answers with a link for the payer, or with an error.  Waffo and
\* Pancake orders are then saved as failed, whatever the row says by now.
GatewayAnswers(o) ==
    /\ gateway[o] = "calling"
    /\ \/ /\ gateway' = [gateway EXCEPT ![o] = "open"]
          /\ UNCHANGED status
       \/ /\ gateway' = [gateway EXCEPT ![o] = "over"]
          /\ \A h \in Handlers : RowFree(h, o)
          /\ status' = [status EXCEPT ![o] =
                            IF Via(o, {"waffo", "pancake"}) THEN "failed"
                            ELSE IF Via(o, {"epay"}) /\ @ = "pending" THEN "expired" ELSE @]
    /\ UNCHANGED <<kind, deploy, outbox, credits, manual, request, faults>>

-----------------------------------------------------------------------------
(* The gateway and its payer *)

Report(o, g, e) ==
    /\ gateway[o] = "open"
    /\ gateway' = [gateway EXCEPT ![o] = g]
    /\ outbox' = [outbox EXCEPT ![o] = @ \cup {e}]
    /\ UNCHANGED <<kind, deploy, status, credits, manual, request, faults>>

Pay(o) == Report(o, "paid", "paid")

\* A delayed Stripe payment fails for good; a Waffo payer may try again.
Decline(o) ==
    \/ Via(o, {"stripe"}) /\ Report(o, "over", "failed")
    \/ Via(o, {"waffo"}) /\ Report(o, "open", "failed")

ExpireSession(o) == Via(o, {"stripe"}) /\ Report(o, "over", "expired")

-----------------------------------------------------------------------------
(* Requests *)

\* A bug: an administrator does not take the lock.
TakesLockNotManual(o, e) == e \notin {"redeem", "manual"} /\ ~(e = "failed" /\ Via(o, {"waffo"}))

\* A bug: only what credits an order takes the lock.
TakesLockToCredit(o, e) == e \in {"paid", "manual", "return"}

\* Waffo's failures and redemptions are handled without LockOrder.
TakesLock(o, e) == e # "redeem" /\ ~(e = "failed" /\ Via(o, {"waffo"}))

Start(h, o, e) ==
    /\ pc[h] = "idle"
    /\ pc' = [pc EXCEPT ![h] = IF TakesLock(o, e) THEN "lock" ELSE "read"]
    /\ job' = [job EXCEPT ![h] = o]
    /\ ev' = [ev EXCEPT ![h] = e]
    /\ UNCHANGED <<kind, deploy, status, gateway, outbox, credits, manual, faults>>

Event(h, o, e, provider) == Via(o, {provider}) /\ e \in outbox[o] /\ Start(h, o, e)

StripeWebhook(h, o, e) == Event(h, o, e, "stripe")
EpayNotify(h, o, e) == ~IsSub(o) /\ Event(h, o, e, "epay")
SubscriptionEpayNotify(h, o, e) == IsSub(o) /\ Event(h, o, e, "epay")
CreemWebhook(h, o, e) == Event(h, o, e, "creem")
WaffoWebhook(h, o, e) == Event(h, o, e, "waffo")
WaffoPancakeWebhook(h, o, e) == Event(h, o, e, "pancake")

Deliver(h, o, e) ==
    \/ StripeWebhook(h, o, e) \/ EpayNotify(h, o, e) \/ SubscriptionEpayNotify(h, o, e)
    \/ CreemWebhook(h, o, e) \/ WaffoWebhook(h, o, e) \/ WaffoPancakeWebhook(h, o, e)

SubscriptionEpayReturn(h, o) ==
    /\ Via(o, {"epay"}) /\ IsSub(o) /\ gateway[o] = "paid"
    /\ Start(h, o, "return")

AdminCompleteTopUp(h, o) ==
    /\ kind[o].what = "topup" /\ status[o] # "none"
    /\ Start(h, o, "manual")

\* Requests of one user exclude each other; two handlers are two users.
RedeemCode(h, o) ==
    /\ kind[o].what = "code" /\ status[o] # "none"
    /\ Start(h, o, "redeem")

LockOrder(h) ==
    /\ pc[h] = "lock"
    /\ \A g \in Handlers \ {h} :
           ~(/\ job[g] = job[h] /\ deploy.node[g] = deploy.node[h]
             /\ pc[g] \in {"read", "write"} /\ TakesLock(job[g], ev[g]))
    /\ pc' = [pc EXCEPT ![h] = "read"]
    /\ UNCHANGED <<kind, deploy, status, gateway, outbox, credits, manual, job, ev, faults>>

\* A bug: Waffo gets its success before the order is handled.
AlwaysAcksWaffo(o) == Via(o, {"stripe", "waffo"}) \/ (Via(o, {"epay"}) /\ ~IsSub(o))

\* Handlers that answer "received" whatever happened.
AlwaysAcks(o) == Via(o, {"stripe"}) \/ (Via(o, {"epay"}) /\ ~IsSub(o))

\* Pancake's handler takes a row it cannot read for one that does not exist,
\* Creem's takes it for a recurring order of somebody else.
AcksReadError(o) ==
    AlwaysAcks(o) \/ Via(o, {"pancake"}) \/ (Via(o, {"creem"}) /\ IsSub(o))

\* The request ends; if it was an event and ok, the gateway stops delivering it.
Finish(h, ok) ==
    /\ pc' = [pc EXCEPT ![h] = "idle"]
    /\ job' = [job EXCEPT ![h] = NoOrder]
    /\ ev' = [ev EXCEPT ![h] = "none"]
    /\ outbox' = IF ok THEN [outbox EXCEPT ![job[h]] = @ \ {ev[h]}] ELSE outbox

\* The answer for an order that cannot be completed any more.
Reply(h) ==
    \/ ev[h] \in {"failed", "expired"} \/ status[job[h]] = "success"
    \/ AlwaysAcks(job[h])
    \/ Via(job[h], {"creem"}) /\ ~IsSub(job[h])

\* The failure of a subscription order is not looked for: there is no top_ups row.
Completable(h) ==
    /\ status[job[h]] = "pending"
    /\ ev[h] \in {"failed", "expired"} \/ Room(job[h])
    /\ ~(ev[h] = "failed" /\ IsSub(job[h]))

\* The row is read and its status checked; of a subscription, the limit too.
ReadOrder(h) ==
    /\ pc[h] = "read"
    /\ InTx(h) => RowFree(h, job[h])
    /\ \/ /\ Completable(h)
          /\ pc' = [pc EXCEPT ![h] = "write"]
          /\ UNCHANGED <<outbox, job, ev, faults>>
       \/ /\ ~Completable(h)
          /\ Finish(h, Reply(h)) /\ NoFault
       \/ /\ Fault
          /\ \E ok \in BOOLEAN :
                /\ ok => AcksReadError(job[h]) \/ ev[h] \in {"failed", "expired"}
                /\ ~ok => ~AlwaysAcks(job[h])
                /\ Finish(h, ok)
    /\ UNCHANGED <<kind, deploy, status, gateway, credits, manual>>

\* A bug: the gateway's word for it is stored.
TargetRaw(e) == e

Target(e) == IF e \in {"failed", "expired"} THEN e ELSE "success"

\* ManualCompleteTopUp multiplies a Creem order's Amount, which is quota
\* already, by QuotaPerUnit.
Amount(h) ==
    IF ev[h] \in {"failed", "expired"} THEN 0
    ELSE IF ev[h] = "manual" /\ Via(job[h], {"creem"}) THEN QuotaPerUnit ELSE 1

\* The row and the credit are committed together, and the reply is sent or lost.
Commit(h) ==
    /\ pc[h] = "write"
    /\ ~InTx(h) => RowFree(h, job[h])
    /\ status' = [status EXCEPT ![job[h]] = Target(ev[h])]
    /\ credits' = [credits EXCEPT ![job[h]] = @ + Amount(h)]
    /\ manual' = IF ev[h] = "manual" THEN manual \cup {job[h]} ELSE manual
    /\ \/ Finish(h, TRUE) /\ NoFault
       \/ Finish(h, FALSE) /\ Fault
    /\ UNCHANGED <<kind, deploy, gateway>>

\* A statement fails and the transaction is rolled back.  Waffo's failures are
\* acknowledged all the same.
CommitFails(h) ==
    /\ pc[h] = "write"
    /\ Fault
    /\ Finish(h, AlwaysAcks(job[h]) \/ ev[h] \in {"failed", "expired"})
    /\ UNCHANGED <<kind, deploy, status, gateway, credits, manual>>

\* A process dies with the requests it handles and the locks they hold.
Crash(n) ==
    LET lost == {h \in Handlers : deploy.node[h] = n /\ pc[h] # "idle"} IN
    /\ lost # {} /\ Fault
    /\ pc' = [h \in Handlers |-> IF h \in lost THEN "idle" ELSE pc[h]]
    /\ job' = [h \in Handlers |-> IF h \in lost THEN NoOrder ELSE job[h]]
    /\ ev' = [h \in Handlers |-> IF h \in lost THEN "none" ELSE ev[h]]
    /\ UNCHANGED <<kind, deploy, status, gateway, outbox, credits, manual>>

HandlerStep(h) == ReadOrder(h) \/ Commit(h) \/ CommitFails(h)

Next ==
    \/ \E o \in Orders :
          \/ LinkThenInsert(o) \/ InsertThenCall(o) \/ AddRedemption(o) \/ GatewayAnswers(o)
          \/ Pay(o) \/ Decline(o) \/ ExpireSession(o)
    \/ \E h \in Handlers, o \in Orders :
          \/ \E e \in Events : Deliver(h, o, e)
          \/ SubscriptionEpayReturn(h, o) \/ AdminCompleteTopUp(h, o) \/ RedeemCode(h, o)
    \/ \E h \in Handlers : LockOrder(h) \/ HandlerStep(h)
    \/ \E n \in Nodes : Crash(n)

Spec == Init /\ [][Next]_vars

\* Requests are handled; a mutex is not starved; a gateway goes on
\* delivering what was paid, and a server takes any number of requests, so busy
\* handlers do not keep an event out for ever.  Nothing is assumed of payers and administrators.
Fairness ==
    /\ \A h \in Handlers : WF_vars(HandlerStep(h)) /\ SF_vars(LockOrder(h))
    /\ \A o \in Orders : SF_vars(\E h \in Handlers : Deliver(h, o, "paid"))

FairSpec == Spec /\ Fairness

-----------------------------------------------------------------------------
(* Properties *)

\* What has to be credited for o; by hand a Creem order gets QuotaPerUnit times that.
Price(o) == IF o \in manual /\ Via(o, {"creem"}) THEN QuotaPerUnit ELSE 1

SeveralNodes == \E h, g \in Handlers : deploy.node[h] # deploy.node[g]

\* However often an order's events are delivered, to however many requests at
\* once, and whoever else completes it, it is credited once, and only if it was
\* paid or completed by hand.  For orders the mutex of one process is enough,
\* for codes only the row lock is.
CreditedOnce ==
    \A o \in Orders :
        /\ (deploy.rowLock \/ (~SeveralNodes /\ kind[o].what # "code")) => credits[o] \in {0, Price(o)}
        /\ credits[o] > 0 => gateway[o] = "paid" \/ o \in manual \/ kind[o].what = "code"

\* What the comments of CompleteEpayTopUp, ManualCompleteTopUp and
\* CompleteSubscriptionOrder say, of every deployment: completing an order twice
\* credits it once.
CompletionIsIdempotent == \A o \in Orders : credits[o] \in {0, Price(o)}

\* Three places save a status they have read before: the failure of a Waffo
\* payment (the mutex does not protect it), the failure of a Stripe payment (a
\* row lock does not, against another node), and the failed call of a gateway.
\* The last two only meet a credit an administrator gives.
Overwritable(o) ==
    \/ Via(o, {"waffo"}) /\ ~deploy.rowLock
    \/ o \in manual /\ Via(o, {"waffo", "pancake"})
    \/ o \in manual /\ Via(o, {"stripe"}) /\ SeveralNodes

\* The status tells whether an order has been credited: an order is a success
\* exactly if its credit was given, except where a stale status is saved.
StatusTellsCredit ==
    \A o \in Orders :
        /\ status[o] = "success" => credits[o] > 0
        /\ credits[o] > 0 => status[o] = "success" \/ Overwritable(o)

\* Stripe, epay top-ups, Pancake and Creem subscriptions acknowledge an event
\* that an error has kept them from handling.
LosesErrors(o) ==
    Via(o, {"stripe", "pancake"}) \/ (Via(o, {"epay"}) /\ ~IsSub(o)) \/ (Via(o, {"creem"}) /\ IsSub(o))

\* A paid order is credited in the end, over lost replies, deaths and errors,
\* unless it was marked failed before (Waffo), its user has reached the limit of
\* the plan, or an error met a handler that acknowledges what it has not done.
PaidIsCredited ==
    \A o \in Orders :
        gateway[o] = "paid" ~>
            \/ credits[o] > 0 \/ ~Room(o)
            \/ Via(o, {"waffo"}) /\ status[o] = "failed"
            \/ LosesErrors(o) /\ faults > 0
=============================================================================
