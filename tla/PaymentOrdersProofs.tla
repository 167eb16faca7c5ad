------------------------- MODULE PaymentOrdersProofs -------------------------
(***************************************************************************)
(* Proofs about PaymentOrders, for every set of orders, handlers and       *)
(* nodes, every deployment and every bound.                                *)
(***************************************************************************)
EXTENDS PaymentOrders, TLAPS

\* A request at work has an order.
JobInv == \A h \in Handlers : pc[h] # "idle" => job[h] \in Orders

TypeInv == TypeOK /\ JobInv

-----------------------------------------------------------------------------
(* Type correctness *)

LEMMA FinishType ==
    ASSUME TypeInv, NEW h \in Handlers, pc[h] # "idle", NEW ok \in BOOLEAN, Finish(h, ok)
    PROVE  /\ pc' \in [Handlers -> {"idle", "lock", "read", "write"}]
           /\ job' \in [Handlers -> Orders \cup {NoOrder}]
           /\ ev' \in [Handlers -> Events \cup {"none", "manual", "return", "redeem"}]
           /\ outbox' \in [Orders -> SUBSET Events]
           /\ JobInv'
<1>0. job[h] \in Orders /\ outbox \in [Orders -> SUBSET Events]
  BY DEF TypeInv, TypeOK, JobInv
<1>1. outbox' \in [Orders -> SUBSET Events]
  <2>1. CASE ~ok
    BY <1>0, <2>1 DEF Finish
  <2>2. CASE ok
    BY <1>0, <2>2 DEF Finish
  <2>. QED  BY <2>1, <2>2
<1>. QED  BY <1>1 DEF Finish, TypeInv, TypeOK, JobInv

LEMMA FaultType ==
    ASSUME TypeInv, NoFault \/ Fault
    PROVE  faults' \in 0..MaxFaults
  BY BoundAssumption DEF TypeInv, TypeOK, NoFault, Fault

LEMMA StartType ==
    ASSUME TypeInv, NEW h \in Handlers, NEW o \in Orders,
           NEW e \in Events \cup {"manual", "return", "redeem"}, Start(h, o, e)
    PROVE  TypeInv'
  BY DEF TypeInv, TypeOK, JobInv, Start

LEMMA StoreType ==
    ASSUME TypeInv, NEW o \in Orders, NEW g \in {"open", "calling", "over"}, Store(o, g)
    PROVE  TypeInv'
  BY DEF TypeInv, TypeOK, JobInv, Store, request, Statuses

LEMMA ReportType ==
    ASSUME TypeInv, NEW o \in Orders, NEW g \in {"paid", "open", "over"}, NEW e \in Events,
           Report(o, g, e)
    PROVE  TypeInv'
<1>1. outbox' \in [Orders -> SUBSET Events]
  BY DEF TypeInv, TypeOK, Report
<1>. QED  BY <1>1 DEF TypeInv, TypeOK, JobInv, Report, request

LEMMA TypeInit == Init => TypeInv
  BY OrderAssumption, DeploymentAssumption, BoundAssumption
     DEF Init, TypeInv, TypeOK, JobInv, Statuses, Events

\* The events, and who creates and starts what.
LEMMA DeliverIsStart ==
    ASSUME NEW h \in Handlers, NEW o \in Orders, NEW e \in Events, Deliver(h, o, e)
    PROVE  Start(h, o, e) /\ e \in outbox[o]
  BY DEF Deliver, Event, StripeWebhook, EpayNotify, SubscriptionEpayNotify, CreemWebhook,
         WaffoWebhook, WaffoPancakeWebhook

LEMMA TypeStep == TypeInv /\ [Next]_vars => TypeInv'
<1>. SUFFICES ASSUME TypeInv, [Next]_vars PROVE TypeInv'
  OBVIOUS
<1>1. ASSUME NEW o \in Orders, LinkThenInsert(o) \/ InsertThenCall(o) \/ AddRedemption(o)
      PROVE  TypeInv'
  BY <1>1, StoreType DEF LinkThenInsert, InsertThenCall, AddRedemption
<1>2. ASSUME NEW o \in Orders, GatewayAnswers(o) PROVE TypeInv'
  <2>1. status' \in [Orders -> Statuses]
    BY <1>2 DEF GatewayAnswers, TypeInv, TypeOK, Statuses
  <2>2. gateway' \in [Orders -> {"none", "calling", "open", "paid", "over"}]
    BY <1>2 DEF GatewayAnswers, TypeInv, TypeOK
  <2>. QED  BY <1>2, <2>1, <2>2 DEF GatewayAnswers, request, TypeInv, TypeOK, JobInv
<1>3. ASSUME NEW o \in Orders, Pay(o) \/ Decline(o) \/ ExpireSession(o) PROVE TypeInv'
  BY <1>3, ReportType DEF Pay, Decline, ExpireSession, Events
<1>4. ASSUME NEW h \in Handlers, NEW o \in Orders, NEW e \in Events, Deliver(h, o, e)
      PROVE  TypeInv'
  BY <1>4, DeliverIsStart, StartType
<1>5. ASSUME NEW h \in Handlers, NEW o \in Orders,
             SubscriptionEpayReturn(h, o) \/ AdminCompleteTopUp(h, o) \/ RedeemCode(h, o)
      PROVE  TypeInv'
  BY <1>5, StartType DEF SubscriptionEpayReturn, AdminCompleteTopUp, RedeemCode
<1>6. ASSUME NEW h \in Handlers, LockOrder(h) PROVE TypeInv'
  BY <1>6 DEF LockOrder, TypeInv, TypeOK, JobInv
<1>7. ASSUME NEW h \in Handlers, ReadOrder(h) PROVE TypeInv'
  <2>1. ASSUME NEW ok \in BOOLEAN, Finish(h, ok), NoFault \/ Fault PROVE TypeInv'
    <3>1. pc[h] # "idle"
      BY <1>7 DEF ReadOrder
    <3>. QED  BY <1>7, <2>1, <3>1, FinishType, FaultType DEF ReadOrder, TypeInv, TypeOK
  <2>2. CASE pc' = [pc EXCEPT ![h] = "write"] /\ UNCHANGED <<outbox, job, ev, faults>>
    BY <1>7, <2>2 DEF ReadOrder, TypeInv, TypeOK, JobInv
  <2>3. Reply(h) \in BOOLEAN
    BY DEF Reply, AlwaysAcks, Via, IsSub
  <2>. QED  BY <1>7, <2>1, <2>2, <2>3 DEF ReadOrder
<1>8. ASSUME NEW h \in Handlers, Commit(h) PROVE TypeInv'
  <2>1. pc[h] # "idle" /\ job[h] \in Orders
    BY <1>8 DEF Commit, TypeInv, JobInv
  <2>2. Amount(h) \in Nat
    BY BoundAssumption DEF Amount
  <2>3. Target(ev[h]) \in Statuses
    BY DEF Target, Statuses
  <2>4. /\ status' \in [Orders -> Statuses] /\ credits' \in [Orders -> Nat]
        /\ manual' \in SUBSET Orders
    BY <1>8, <2>1, <2>2, <2>3 DEF Commit, TypeInv, TypeOK
  <2>5. PICK ok \in BOOLEAN : Finish(h, ok) /\ (NoFault \/ Fault)
    BY <1>8 DEF Commit
  <2>. QED  BY <1>8, <2>1, <2>4, <2>5, FinishType, FaultType DEF Commit, TypeInv, TypeOK
<1>9. ASSUME NEW h \in Handlers, CommitFails(h) PROVE TypeInv'
  <2>1. pc[h] # "idle"
    BY <1>9 DEF CommitFails
  <2>2. (AlwaysAcks(job[h]) \/ ev[h] \in {"failed", "expired"}) \in BOOLEAN
    BY DEF AlwaysAcks, Via, IsSub
  <2>3. PICK ok \in BOOLEAN : Finish(h, ok) /\ Fault
    BY <1>9, <2>2 DEF CommitFails
  <2>. QED  BY <1>9, <2>1, <2>3, FinishType, FaultType DEF CommitFails, TypeInv, TypeOK
<1>10. ASSUME NEW n \in Nodes, Crash(n) PROVE TypeInv'
  BY <1>10, FaultType DEF Crash, TypeInv, TypeOK, JobInv
<1>11. CASE UNCHANGED vars
  BY <1>11 DEF vars, request, TypeInv, TypeOK, JobInv
<1>. QED
  BY <1>1, <1>2, <1>3, <1>4, <1>5, <1>6, <1>7, <1>8, <1>9, <1>10, <1>11
     DEF Next, HandlerStep

\* Every variable keeps its type: credits stay natural numbers, a request at
\* work keeps its order, and the faults stay within their bound.
THEOREM PaymentTypeCorrect == Spec => []TypeOK
<1>1. TypeInv => TypeOK
  BY DEF TypeInv
<1>. QED  BY <1>1, TypeInit, TypeStep, PTL DEF Spec

-----------------------------------------------------------------------------
(* One credit for every order *)

Crediting(e) == e \notin {"failed", "expired"}

\* Why o may be handled for the reason e.  A Stripe session that failed or
\* expired is over and will never be paid; a Waffo payer may still pay.
Reason(o, e) ==
    \/ e \in {"paid", "return"} /\ gateway[o] = "paid" /\ kind[o].what # "code"
    \/ e \in {"failed", "expired"} /\ Via(o, {"stripe"}) /\ gateway[o] = "over"
    \/ e = "failed" /\ Via(o, {"waffo"})
    \/ e = "manual" /\ kind[o].what = "topup"
    \/ e = "redeem" /\ kind[o].what = "code"

\* Events and requests have a reason; an order that is not stored has no
\* session at a gateway, and a code never has one.
ReasonInv ==
    /\ \A o \in Orders : status[o] = "none" => gateway[o] = "none"
    /\ \A o \in Orders : kind[o].what = "code" => gateway[o] \in {"none", "over"}
    /\ \A o \in Orders : \A e \in outbox[o] : Reason(o, e)
    /\ \A h \in Handlers : pc[h] # "idle" => Reason(job[h], ev[h])

\* The two locks: LockOrder within a node, the row lock within the database.
HoldsMutex(h) == pc[h] \in {"read", "write"} /\ TakesLock(job[h], ev[h])
HoldsRow(h) == pc[h] = "write" /\ InTx(h)

LockInv ==
    \A g, h \in Handlers : (g # h /\ job[g] = job[h]) =>
        /\ deploy.node[g] = deploy.node[h] => ~(HoldsMutex(g) /\ HoldsMutex(h))
        /\ deploy.rowLock => ~(HoldsRow(g) /\ HoldsRow(h))

\* The locks that keep o from being credited twice are there.
Guarded(o) == deploy.rowLock \/ (~SeveralNodes /\ kind[o].what # "code")

\* What a request has read still holds when it writes: no credit was given.
FreshInv ==
    \A h \in Handlers : pc[h] = "write" =>
        \/ credits[job[h]] = 0
        \/ IF Crediting(ev[h]) THEN ~Guarded(job[h]) ELSE Overwritable(job[h])

UncreditedInv ==
    \A o \in Orders :
        /\ status[o] \in {"none", "pending"} => credits[o] = 0
        /\ o \in manual => credits[o] > 0

CreditInv == UncreditedInv /\ FreshInv /\ CreditedOnce /\ StatusTellsCredit

OrderInv == TypeInv /\ ReasonInv /\ LockInv /\ CreditInv

LEMMA KindFacts ==
    ASSUME TypeInv, NEW o \in Orders
    PROVE  /\ kind[o].what \in {"topup", "sub", "code"}
           /\ kind[o].what = "code" => kind[o].via = "admin"
           /\ kind[o].what = "sub" => kind[o].via # "waffo"
  BY DEF TypeInv, TypeOK, Kinds, Providers

LEMMA OrderInit == Init => OrderInv
<1>. SUFFICES ASSUME Init PROVE OrderInv
  OBVIOUS
<1>1. ReasonInv /\ LockInv
  BY DEF Init, ReasonInv, LockInv, HoldsMutex, HoldsRow
<1>2. CreditInv
  BY DEF Init, CreditInv, UncreditedInv, FreshInv, CreditedOnce, StatusTellsCredit
<1>. QED  BY <1>1, <1>2, TypeInit DEF OrderInv

\* A step after which every reason is one still.
Steady ==
    /\ kind' = kind
    /\ \A o \in Orders : gateway[o] \in {"paid", "over"} => gateway'[o] = gateway[o]

LEMMA ReasonKept ==
    ASSUME Steady, NEW o \in Orders, NEW e, Reason(o, e)
    PROVE  Reason(o, e)'
  BY DEF Steady, Reason, Via

\* Steps of the shop, the gateway and the payer leave the requests alone.
LEMMA ReasonSession ==
    ASSUME OrderInv, NEW o \in Orders, kind' = kind, UNCHANGED request,
           gateway[o] \notin {"paid", "over"},
           gateway' = [gateway EXCEPT ![o] = gateway'[o]],
           status'[o] # "none",
           kind[o].what = "code" => gateway'[o] = "over",
           \A u \in Orders : u # o => status'[u] = status[u] /\ outbox'[u] = outbox[u],
           \A e \in outbox'[o] : e \in outbox[o] \/ Reason(o, e)'
    PROVE  ReasonInv'
<1>1. Steady
  BY DEF Steady, OrderInv, TypeInv, TypeOK
<1>2. \A u \in Orders :
          /\ status'[u] = "none" => gateway'[u] = "none"
          /\ kind'[u].what = "code" => gateway'[u] \in {"none", "over"}
  BY DEF OrderInv, ReasonInv, TypeInv, TypeOK
<1>3. ASSUME NEW u \in Orders, NEW e \in outbox'[u] PROVE Reason(u, e)'
  BY <1>1, <1>3, ReasonKept DEF OrderInv, ReasonInv
<1>4. ASSUME NEW h \in Handlers, pc'[h] # "idle" PROVE Reason(job[h], ev[h])'
  BY <1>1, <1>4 DEF Steady, request, OrderInv, ReasonInv, TypeInv, JobInv, Reason, Via
<1>. QED  BY <1>2, <1>3, <1>4 DEF ReasonInv

\* Steps of requests leave the sessions alone; at most one request gets a new
\* order, and no event is new.
LEMMA ReasonRequest ==
    ASSUME OrderInv, UNCHANGED <<kind, gateway>>,
           \A o \in Orders : status'[o] = "none" => status[o] = "none",
           \A o \in Orders : outbox'[o] \subseteq outbox[o],
           \A h \in Handlers : pc'[h] # "idle" =>
               \/ pc[h] # "idle" /\ job'[h] = job[h] /\ ev'[h] = ev[h]
               \/ Reason(job'[h], ev'[h])
    PROVE  ReasonInv'
  BY DEF OrderInv, ReasonInv, Reason, Via

LEMMA FinishShrinks ==
    ASSUME TypeInv, NEW h \in Handlers, pc[h] # "idle", NEW ok, Finish(h, ok)
    PROVE  /\ \A o \in Orders : outbox'[o] \subseteq outbox[o]
           /\ \A g \in Handlers : pc'[g] # "idle" =>
                 g # h /\ pc'[g] = pc[g] /\ job'[g] = job[g] /\ ev'[g] = ev[g]
           /\ pc'[h] = "idle"
  BY DEF Finish, TypeInv, TypeOK, JobInv

LEMMA ReasonStep == OrderInv /\ [Next]_vars => ReasonInv'
<1>. SUFFICES ASSUME OrderInv, [Next]_vars PROVE ReasonInv'
  OBVIOUS
<1>0. TypeInv /\ TypeOK /\ ReasonInv
  BY DEF OrderInv, TypeInv
<1>1. ASSUME NEW o \in Orders, LinkThenInsert(o) \/ InsertThenCall(o) \/ AddRedemption(o)
      PROVE  ReasonInv'
  <2>1. ASSUME NEW g, Store(o, g), kind[o].what = "code" => g = "over" PROVE ReasonInv'
    <3>1. gateway[o] \notin {"paid", "over"}
      BY <1>0, <2>1 DEF Store, ReasonInv
    <3>2. gateway'[o] = g /\ gateway' = [gateway EXCEPT ![o] = gateway'[o]]
      BY <1>0, <2>1 DEF Store, TypeOK
    <3>3. /\ status'[o] # "none" /\ outbox' = outbox
          /\ \A u \in Orders : u # o => status'[u] = status[u]
      BY <1>0, <2>1 DEF Store, TypeOK
    <3>4. kind' = kind /\ UNCHANGED request /\ (kind[o].what = "code" => g = "over")
      BY <2>1 DEF Store
    <3>. QED  BY <3>1, <3>2, <3>3, <3>4, ReasonSession
  <2>2. LinkFirst(o) => kind[o].what # "code"
    BY <1>0, KindFacts DEF LinkFirst, Via
  <2>. QED  BY <1>1, <2>1, <2>2 DEF LinkThenInsert, InsertThenCall, AddRedemption
<1>2. ASSUME NEW o \in Orders, GatewayAnswers(o) PROVE ReasonInv'
  <2>1. gateway[o] = "calling" /\ status[o] # "none"
    BY <1>0, <1>2 DEF GatewayAnswers, ReasonInv
  <2>2. status'[o] # "none" /\ \A u \in Orders : u # o => status'[u] = status[u]
    BY <1>0, <1>2, <2>1 DEF GatewayAnswers, TypeOK
  <2>3. gateway' = [gateway EXCEPT ![o] = gateway'[o]]
    BY <1>0, <1>2 DEF GatewayAnswers, TypeOK
  <2>4. kind[o].what # "code"
    BY <1>0, <2>1 DEF ReasonInv
  <2>. QED  BY <1>0, <1>2, <2>1, <2>2, <2>3, <2>4, ReasonSession DEF GatewayAnswers
<1>3. ASSUME NEW o \in Orders, Pay(o) \/ Decline(o) \/ ExpireSession(o) PROVE ReasonInv'
  <2>1. ASSUME NEW g, NEW e, Report(o, g, e),
               \/ g = "paid" /\ e = "paid"
               \/ g = "over" /\ e \in {"failed", "expired"} /\ Via(o, {"stripe"})
               \/ g = "open" /\ e = "failed" /\ Via(o, {"waffo"})
        PROVE  ReasonInv'
    <3>1. gateway[o] = "open" /\ status[o] # "none" /\ kind[o].what # "code"
      BY <1>0, <2>1 DEF Report, ReasonInv
    <3>2. Reason(o, e)'
      BY <1>0, <2>1, <3>1 DEF Report, TypeOK, Reason, Via
    <3>3. /\ gateway' = [gateway EXCEPT ![o] = gateway'[o]]
          /\ status' = status /\ kind' = kind /\ UNCHANGED request
          /\ outbox'[o] = outbox[o] \cup {e}
          /\ \A u \in Orders : u # o => outbox'[u] = outbox[u]
      BY <1>0, <2>1 DEF Report, TypeOK
    <3>4. \A x \in outbox'[o] : x \in outbox[o] \/ Reason(o, x)'
      BY <3>2, <3>3
    <3>. QED  BY <1>0, <3>1, <3>3, <3>4, ReasonSession
  <2>. QED  BY <1>3, <2>1 DEF Pay, Decline, ExpireSession
<1>4. ASSUME NEW h \in Handlers, NEW o \in Orders, NEW e, Start(h, o, e), Reason(o, e)
      PROVE  ReasonInv'
  BY <1>0, <1>4, ReasonRequest DEF Start, TypeOK
<1>5. ASSUME NEW h \in Handlers, NEW o \in Orders, NEW e \in Events, Deliver(h, o, e)
      PROVE  ReasonInv'
  BY <1>0, <1>4, <1>5, DeliverIsStart DEF ReasonInv
<1>6. ASSUME NEW h \in Handlers, NEW o \in Orders,
             SubscriptionEpayReturn(h, o) \/ AdminCompleteTopUp(h, o) \/ RedeemCode(h, o)
      PROVE  ReasonInv'
  BY <1>4, <1>6
     DEF SubscriptionEpayReturn, AdminCompleteTopUp, RedeemCode, Reason, IsSub
<1>7. ASSUME NEW h \in Handlers, LockOrder(h) PROVE ReasonInv'
  BY <1>0, <1>7, ReasonRequest DEF LockOrder, TypeOK
<1>8. ASSUME NEW h \in Handlers, NEW ok, Finish(h, ok), pc[h] # "idle",
             UNCHANGED <<kind, gateway>>,
             \A o \in Orders : status'[o] = "none" => status[o] = "none"
      PROVE  ReasonInv'
  BY <1>0, <1>8, FinishShrinks, ReasonRequest
<1>9. ASSUME NEW h \in Handlers, ReadOrder(h) PROVE ReasonInv'
  <2>1. CASE pc' = [pc EXCEPT ![h] = "write"] /\ UNCHANGED <<outbox, job, ev>>
    BY <1>0, <1>9, <2>1, ReasonRequest DEF ReadOrder, TypeOK
  <2>2. CASE \E ok : Finish(h, ok)
    BY <1>8, <1>9, <2>2 DEF ReadOrder
  <2>. QED  BY <1>9, <2>1, <2>2 DEF ReadOrder
<1>10. ASSUME NEW h \in Handlers, Commit(h) PROVE ReasonInv'
  <2>1. \A o \in Orders : status'[o] = "none" => status[o] = "none"
    BY <1>0, <1>10 DEF Commit, Target, TypeOK
  <2>. QED  BY <1>8, <1>10, <2>1 DEF Commit
<1>11. ASSUME NEW h \in Handlers, CommitFails(h) PROVE ReasonInv'
  BY <1>8, <1>11 DEF CommitFails
<1>12. ASSUME NEW n \in Nodes, Crash(n) PROVE ReasonInv'
  BY <1>0, <1>12, ReasonRequest DEF Crash, TypeOK
<1>13. CASE UNCHANGED vars
  BY <1>0, <1>13 DEF vars, request, ReasonInv, Reason, Via
<1>. QED
  BY <1>1, <1>2, <1>3, <1>5, <1>6, <1>7, <1>9, <1>10, <1>11, <1>12, <1>13
     DEF Next, HandlerStep

\* Requests go on, end, or begin without the mutex.
LEMMA LockKept ==
    ASSUME LockInv, UNCHANGED <<kind, deploy>>,
           \A h \in Handlers : pc'[h] \in {"read", "write"} =>
               \/ pc'[h] = pc[h] /\ job'[h] = job[h] /\ ev'[h] = ev[h]
               \/ pc'[h] = "read" /\ ~TakesLock(job'[h], ev'[h])
    PROVE  LockInv'
  BY DEF LockInv, HoldsMutex, HoldsRow, TakesLock, InTx, Via

LEMMA LockStep == OrderInv /\ [Next]_vars => LockInv'
<1>. SUFFICES ASSUME OrderInv, [Next]_vars PROVE LockInv'
  OBVIOUS
<1>0. TypeInv /\ TypeOK /\ LockInv
  BY DEF OrderInv, TypeInv
<1>1. ASSUME UNCHANGED <<kind, deploy, request>> PROVE LockInv'
  BY <1>0, <1>1, LockKept DEF request
<1>2. ASSUME NEW h \in Handlers, NEW o \in Orders, NEW e, Start(h, o, e) PROVE LockInv'
  BY <1>0, <1>2, LockKept DEF Start, TypeOK
<1>3. ASSUME NEW h \in Handlers, LockOrder(h) PROVE LockInv'
  <2>. SUFFICES ASSUME NEW f \in Handlers, NEW g \in Handlers, f # g, job'[f] = job'[g]
                PROVE  /\ deploy'.node[f] = deploy'.node[g] => ~(HoldsMutex(f) /\ HoldsMutex(g))'
                       /\ deploy'.rowLock => ~(HoldsRow(f) /\ HoldsRow(g))'
    BY DEF LockInv
  <2>1. UNCHANGED <<kind, deploy, job, ev>> /\ pc'[h] = "read"
        /\ \A i \in Handlers \ {h} : pc'[i] = pc[i]
    BY <1>0, <1>3 DEF LockOrder, TypeOK
  <2>2. CASE f # h /\ g # h
    BY <1>0, <2>1, <2>2 DEF LockInv, HoldsMutex, HoldsRow, TakesLock, InTx, Via
  <2>3. ASSUME NEW i \in Handlers \ {h}, job[i] = job[h], deploy.node[i] = deploy.node[h]
        PROVE  ~HoldsMutex(i)'
    BY <1>3, <2>1, <2>3 DEF LockOrder, HoldsMutex, TakesLock, Via
  <2>. QED  BY <2>1, <2>2, <2>3 DEF HoldsRow
<1>4. ASSUME NEW h \in Handlers, NEW ok, Finish(h, ok), pc[h] # "idle", UNCHANGED <<kind, deploy>>
      PROVE  LockInv'
  BY <1>0, <1>4, FinishShrinks, LockKept
<1>5. ASSUME NEW h \in Handlers, ReadOrder(h) PROVE LockInv'
  <2>1. CASE pc' = [pc EXCEPT ![h] = "write"] /\ UNCHANGED <<job, ev>>
    <3>. SUFFICES ASSUME NEW f \in Handlers, NEW g \in Handlers, f # g, job'[f] = job'[g]
                  PROVE  /\ deploy'.node[f] = deploy'.node[g] => ~(HoldsMutex(f) /\ HoldsMutex(g))'
                         /\ deploy'.rowLock => ~(HoldsRow(f) /\ HoldsRow(g))'
      BY DEF LockInv
    <3>1. UNCHANGED <<kind, deploy, job, ev>> /\ pc[h] = "read" /\ pc'[h] = "write"
          /\ \A i \in Handlers \ {h} : pc'[i] = pc[i]
      BY <1>0, <1>5, <2>1 DEF ReadOrder, TypeOK
    <3>2. \A i \in Handlers : HoldsMutex(i)' <=> HoldsMutex(i)
      BY <3>1 DEF HoldsMutex, TakesLock, Via
    <3>3. \A i \in Handlers \ {h} : HoldsRow(i)' <=> HoldsRow(i)
      BY <3>1 DEF HoldsRow, InTx, Via
    <3>4. ASSUME NEW i \in Handlers \ {h}, job[i] = job[h], deploy.rowLock, HoldsRow(h)'
          PROVE  ~HoldsRow(i)
      BY <1>5, <3>1, <3>4 DEF ReadOrder, RowFree, HoldsRow, InTx, Via
    <3>. QED  BY <1>0, <3>1, <3>2, <3>3, <3>4 DEF LockInv
  <2>2. CASE \E ok : Finish(h, ok)
    BY <1>4, <1>5, <2>2 DEF ReadOrder
  <2>. QED  BY <1>5, <2>1, <2>2 DEF ReadOrder
<1>6. ASSUME NEW h \in Handlers, Commit(h) \/ CommitFails(h) PROVE LockInv'
  BY <1>4, <1>6 DEF Commit, CommitFails
<1>7. ASSUME NEW n \in Nodes, Crash(n) PROVE LockInv'
  BY <1>0, <1>7, LockKept DEF Crash, TypeOK
<1>8. ASSUME NEW o \in Orders,
             \/ LinkThenInsert(o) \/ InsertThenCall(o) \/ AddRedemption(o) \/ GatewayAnswers(o)
             \/ Pay(o) \/ Decline(o) \/ ExpireSession(o)
      PROVE  LockInv'
  BY <1>1, <1>8
     DEF LinkThenInsert, InsertThenCall, AddRedemption, Store, GatewayAnswers, Pay, Decline,
         ExpireSession, Report
<1>9. ASSUME NEW h \in Handlers, NEW o \in Orders,
             \/ \E e \in Events : Deliver(h, o, e)
             \/ SubscriptionEpayReturn(h, o) \/ AdminCompleteTopUp(h, o) \/ RedeemCode(h, o)
      PROVE  LockInv'
  BY <1>2, <1>9, DeliverIsStart DEF SubscriptionEpayReturn, AdminCompleteTopUp, RedeemCode
<1>10. CASE UNCHANGED vars
  BY <1>1, <1>10 DEF vars
<1>. QED
  BY <1>3, <1>5, <1>6, <1>7, <1>8, <1>9, <1>10 DEF Next, HandlerStep

LEMMA SameNodes == ASSUME deploy' = deploy PROVE SeveralNodes' = SeveralNodes
  BY DEF SeveralNodes

\* Steps that give no credit and read no row.
LEMMA CreditKept ==
    ASSUME CreditInv, UNCHANGED <<kind, deploy, status, credits, manual>>,
           \A o \in Orders : gateway[o] = "paid" => gateway'[o] = "paid",
           \A h \in Handlers : pc'[h] = "write" =>
               pc[h] = "write" /\ job'[h] = job[h] /\ ev'[h] = ev[h]
    PROVE  CreditInv'
<1>1. SeveralNodes' = SeveralNodes
  BY SameNodes
<1>2. UncreditedInv' /\ FreshInv'
  BY <1>1 DEF CreditInv, UncreditedInv, FreshInv, Guarded, Overwritable, Crediting, Via
<1>3. CreditedOnce'
  BY <1>1 DEF CreditInv, CreditedOnce, Price, Via
<1>4. StatusTellsCredit'
  BY <1>1 DEF CreditInv, StatusTellsCredit, Overwritable, Via
<1>. QED  BY <1>2, <1>3, <1>4 DEF CreditInv

\* A failure or an expiry is written: nothing was credited since its row was
\* read, or the order is one of those a stale status may be saved for.
LEMMA FailureCommit ==
    ASSUME OrderInv, NEW h \in Handlers, Commit(h), ~Crediting(ev[h])
    PROVE  CreditInv'
<1>0. TypeInv /\ TypeOK /\ CreditInv /\ job[h] \in Orders /\ pc[h] = "write"
  BY DEF OrderInv, TypeInv, JobInv, Commit
<1>1. SeveralNodes' = SeveralNodes
  BY SameNodes DEF Commit
<1>2. /\ UNCHANGED <<kind, deploy, gateway, credits, manual>>
      /\ status'[job[h]] \in {"failed", "expired"}
      /\ \A o \in Orders : o # job[h] => status'[o] = status[o]
  BY <1>0 DEF Commit, Crediting, Amount, Target, TypeOK
<1>3. \A g \in Handlers : pc'[g] = "write" =>
          g # h /\ pc'[g] = pc[g] /\ job'[g] = job[g] /\ ev'[g] = ev[g]
  BY <1>0, FinishShrinks DEF Commit
<1>4. credits[job[h]] = 0 \/ Overwritable(job[h])
  BY <1>0 DEF CreditInv, FreshInv
<1>5. UncreditedInv'
  BY <1>0, <1>2 DEF CreditInv, UncreditedInv
<1>6. FreshInv'
  BY <1>0, <1>1, <1>2, <1>3 DEF CreditInv, FreshInv, Guarded, Overwritable, Crediting, Via
<1>7. CreditedOnce'
  BY <1>0, <1>1, <1>2 DEF CreditInv, CreditedOnce, Price, Via
<1>8. StatusTellsCredit'
  <2>1. \A o \in Orders : Overwritable(o)' <=> Overwritable(o)
    BY <1>1, <1>2 DEF Overwritable, Via
  <2>. QED  BY <1>0, <1>2, <1>4, <2>1 DEF CreditInv, StatusTellsCredit, TypeOK
<1>. QED  BY <1>5, <1>6, <1>7, <1>8 DEF CreditInv

\* An order is credited.  The heart of the matter: no other request that has
\* read the row before is still to write it, for want of a lock, unless the
\* deployment has none that holds or the order is overwritable.
LEMMA CreditCommit ==
    ASSUME OrderInv, NEW h \in Handlers, Commit(h), Crediting(ev[h])
    PROVE  CreditInv'
<1>a. PICK o \in Orders : o = job[h]
  BY DEF OrderInv, TypeInv, JobInv, Commit
<1>0. /\ TypeInv /\ TypeOK /\ CreditInv /\ LockInv /\ o = job[h] /\ pc[h] = "write"
      /\ Reason(o, ev[h])
  BY <1>a DEF OrderInv, TypeInv, ReasonInv, Commit
<1>1. SeveralNodes' = SeveralNodes
  BY SameNodes DEF Commit
<1>2. /\ UNCHANGED <<kind, deploy, gateway>>
      /\ status'[o] = "success" /\ credits'[o] = credits[o] + Amount(h)
      /\ \A u \in Orders : u # o => status'[u] = status[u] /\ credits'[u] = credits[u]
      /\ manual' = IF ev[h] = "manual" THEN manual \cup {o} ELSE manual
  BY <1>0 DEF Commit, Crediting, Target, TypeOK
<1>3. \A g \in Handlers : pc'[g] = "write" =>
          g # h /\ pc[g] = "write" /\ job'[g] = job[g] /\ ev'[g] = ev[g]
  BY <1>0, FinishShrinks DEF Commit
<1>4. /\ Amount(h) = IF ev[h] = "manual" /\ Via(o, {"creem"}) THEN QuotaPerUnit ELSE 1
      /\ Amount(h) \in Nat \ {0}
  BY <1>0, BoundAssumption DEF Amount, Crediting
<1>5. credits'[o] > 0 /\ credits[o] \in Nat
  BY <1>0, <1>2, <1>4 DEF TypeOK
<1>6. UncreditedInv'
  BY <1>0, <1>2, <1>5 DEF CreditInv, UncreditedInv
<1>7. Guarded(o) => credits[o] = 0 /\ o \notin manual
  BY <1>0 DEF CreditInv, FreshInv, UncreditedInv
<1>8. CreditedOnce'
  <2>1. ASSUME NEW u \in Orders, u # o
        PROVE  /\ Guarded(u)' => credits'[u] \in {0, Price(u)'}
               /\ credits'[u] > 0 => gateway'[u] = "paid" \/ u \in manual' \/ kind'[u].what = "code"
    BY <1>0, <1>1, <1>2, <2>1 DEF CreditInv, CreditedOnce, Guarded, Price, Via
  <2>2. Guarded(o)' => credits'[o] = Price(o)'
    BY <1>1, <1>2, <1>4, <1>5, <1>7 DEF Guarded, Price, Via
  <2>3. gateway'[o] = "paid" \/ o \in manual' \/ kind'[o].what = "code"
    BY <1>0, <1>2 DEF Reason, Crediting
  <2>. QED  BY <2>1, <2>2, <2>3 DEF CreditedOnce, Guarded
<1>9. \A u \in Orders : Overwritable(u) => Overwritable(u)'
  BY <1>1, <1>2 DEF Overwritable, Via
<1>10. StatusTellsCredit'
  BY <1>0, <1>2, <1>5, <1>9 DEF CreditInv, StatusTellsCredit
<1>11. ASSUME NEW g \in Handlers, pc'[g] = "write", job[g] = o, Crediting(ev[g])
       PROVE  ~Guarded(o)
  <2>1. g # h /\ HoldsRow(g) /\ HoldsRow(h)
    BY <1>0, <1>3, <1>11 DEF HoldsRow, InTx, Crediting
  <2>2. kind[o].what # "code" => TakesLock(o, ev[g]) /\ TakesLock(o, ev[h])
    <3>1. Reason(o, ev[g])
      BY <1>3, <1>11 DEF OrderInv, ReasonInv
    <3>. QED  BY <1>0, <1>11, <3>1 DEF Reason, TakesLock, Crediting
  <2>3. ~SeveralNodes => deploy.node[g] = deploy.node[h]
    BY DEF SeveralNodes
  <2>. QED  BY <1>0, <1>3, <1>11, <2>1, <2>2, <2>3 DEF LockInv, HoldsMutex, Guarded
<1>12. ASSUME NEW g \in Handlers, pc'[g] = "write", job[g] = o, ~Crediting(ev[g])
       PROVE  Overwritable(o)'
  <2>1. g # h /\ pc[g] = "write" /\ Reason(o, ev[g]) /\ HoldsRow(h)
    BY <1>0, <1>3, <1>12 DEF OrderInv, ReasonInv, HoldsRow, InTx, Crediting
  <2>2. CASE Via(o, {"waffo"})
    <3>1. HoldsRow(g)
      BY <1>12, <2>1, <2>2 DEF HoldsRow, InTx, Via
    <3>2. ~deploy.rowLock
      BY <1>0, <1>12, <2>1, <3>1 DEF LockInv
    <3>. QED  BY <1>2, <2>2, <3>2 DEF Overwritable, Via
  <2>3. CASE Via(o, {"stripe"}) /\ gateway[o] = "over"
    <3>1. ev[h] = "manual"
      BY <1>0, <2>3, KindFacts DEF Reason, Crediting, Via
    <3>2. HoldsMutex(g) /\ HoldsMutex(h)
      BY <1>0, <1>12, <2>1, <2>3, <3>1 DEF HoldsMutex, TakesLock, Crediting, Via
    <3>3. SeveralNodes
      BY <1>0, <1>12, <2>1, <3>2 DEF LockInv, SeveralNodes
    <3>. QED  BY <1>1, <1>2, <2>3, <3>1, <3>3 DEF Overwritable, Via
  <2>. QED  BY <1>12, <2>1, <2>2, <2>3 DEF Reason, Crediting
<1>13. FreshInv'
  <2>. SUFFICES ASSUME NEW g \in Handlers, pc'[g] = "write"
                PROVE  \/ credits'[job'[g]] = 0
                       \/ IF Crediting(ev'[g]) THEN ~Guarded(job[g])' ELSE Overwritable(job[g])'
    BY DEF FreshInv, Crediting
  <2>1. g # h /\ pc[g] = "write" /\ job'[g] = job[g] /\ ev'[g] = ev[g] /\ job[g] \in Orders
    BY <1>0, <1>3 DEF TypeInv, JobInv
  <2>2. CASE job[g] = o
    BY <1>1, <1>2, <1>11, <1>12, <2>1, <2>2 DEF Guarded, Overwritable, Via
  <2>3. CASE job[g] # o
    BY <1>0, <1>1, <1>2, <2>1, <2>3 DEF CreditInv, FreshInv, Guarded, Overwritable, Via
  <2>. QED  BY <2>2, <2>3
<1>. QED  BY <1>6, <1>8, <1>10, <1>13 DEF CreditInv

LEMMA CreditStep == OrderInv /\ [Next]_vars => CreditInv'
<1>. SUFFICES ASSUME OrderInv, [Next]_vars PROVE CreditInv'
  OBVIOUS
<1>0. TypeInv /\ TypeOK /\ CreditInv /\ ReasonInv
  BY DEF OrderInv, TypeInv
<1>1. ASSUME NEW o \in Orders, NEW g, Store(o, g) PROVE CreditInv'
  <2>1. SeveralNodes' = SeveralNodes
    BY <1>1, SameNodes DEF Store
  <2>2. /\ credits[o] = 0 /\ status'[o] = "pending" /\ gateway[o] = "none"
        /\ \A u \in Orders : u # o => status'[u] = status[u] /\ gateway'[u] = gateway[u]
        /\ UNCHANGED <<kind, deploy, credits, manual, pc, job, ev>>
    BY <1>0, <1>1 DEF Store, request, TypeOK, CreditInv, UncreditedInv, ReasonInv
  <2>3. UncreditedInv' /\ FreshInv'
    BY <1>0, <2>1, <2>2
       DEF CreditInv, UncreditedInv, FreshInv, Guarded, Overwritable, Crediting, Via
  <2>4. CreditedOnce'
    BY <1>0, <2>1, <2>2 DEF CreditInv, CreditedOnce, Price, Via
  <2>5. StatusTellsCredit'
    BY <1>0, <2>1, <2>2 DEF CreditInv, StatusTellsCredit, Overwritable, Via
  <2>. QED  BY <2>3, <2>4, <2>5 DEF CreditInv
<1>2. ASSUME NEW o \in Orders, GatewayAnswers(o) PROVE CreditInv'
  <2>1. SeveralNodes' = SeveralNodes
    BY <1>2, SameNodes DEF GatewayAnswers
  <2>2. /\ gateway[o] = "calling"
        /\ \A u \in Orders : u # o => status'[u] = status[u] /\ gateway'[u] = gateway[u]
        /\ UNCHANGED <<kind, deploy, credits, manual, pc, job, ev>>
    BY <1>0, <1>2 DEF GatewayAnswers, request, TypeOK
  <2>3. \/ status'[o] = status[o]
        \/ status'[o] = "failed" /\ Via(o, {"waffo", "pancake"})
        \/ status'[o] = "expired" /\ status[o] = "pending"
    BY <1>0, <1>2 DEF GatewayAnswers, TypeOK
  <2>4. credits[o] > 0 => o \in manual
    BY <1>0, <2>2, KindFacts DEF CreditInv, CreditedOnce, ReasonInv
  <2>5. UncreditedInv' /\ FreshInv'
    BY <1>0, <2>1, <2>2, <2>3
       DEF CreditInv, UncreditedInv, FreshInv, Guarded, Overwritable, Crediting, Via
  <2>6. CreditedOnce'
    BY <1>0, <2>1, <2>2, <2>4 DEF CreditInv, CreditedOnce, Price, Via
  <2>7. StatusTellsCredit'
    BY <1>0, <2>1, <2>2, <2>3, <2>4
       DEF CreditInv, UncreditedInv, StatusTellsCredit, Overwritable, Via
  <2>. QED  BY <2>5, <2>6, <2>7 DEF CreditInv
<1>3. ASSUME NEW o \in Orders, Pay(o) \/ Decline(o) \/ ExpireSession(o) PROVE CreditInv'
  BY <1>0, <1>3, CreditKept DEF Pay, Decline, ExpireSession, Report, request, TypeOK
<1>4. ASSUME NEW h \in Handlers, NEW o \in Orders, NEW e, Start(h, o, e) PROVE CreditInv'
  BY <1>0, <1>4, CreditKept DEF Start, TypeOK
<1>5. ASSUME NEW h \in Handlers, LockOrder(h) PROVE CreditInv'
  BY <1>0, <1>5, CreditKept DEF LockOrder, TypeOK
<1>6. ASSUME NEW h \in Handlers, NEW ok, Finish(h, ok), pc[h] # "idle",
             UNCHANGED <<kind, deploy, status, gateway, credits, manual>>
      PROVE  CreditInv'
  BY <1>0, <1>6, FinishShrinks, CreditKept
<1>7. ASSUME NEW h \in Handlers, ReadOrder(h) PROVE CreditInv'
  <2>1. CASE Completable(h) /\ pc' = [pc EXCEPT ![h] = "write"] /\ UNCHANGED <<job, ev>>
    <3>1. job[h] \in Orders
      BY <1>0, <1>7 DEF ReadOrder, TypeInv, JobInv
    <3>2. credits[job[h]] = 0
      BY <1>0, <2>1, <3>1 DEF Completable, CreditInv, UncreditedInv
    <3>3. SeveralNodes' = SeveralNodes
      BY <1>7, SameNodes DEF ReadOrder
    <3>4. /\ UNCHANGED <<kind, deploy, status, gateway, credits, manual, job, ev>>
          /\ \A g \in Handlers : pc'[g] = "write" => pc[g] = "write" \/ g = h
      BY <1>0, <1>7, <2>1 DEF ReadOrder, TypeOK
    <3>5. UncreditedInv' /\ FreshInv'
      BY <1>0, <3>2, <3>3, <3>4
         DEF CreditInv, UncreditedInv, FreshInv, Guarded, Overwritable, Crediting, Via
    <3>6. CreditedOnce' /\ StatusTellsCredit'
      BY <1>0, <3>3, <3>4
         DEF CreditInv, CreditedOnce, StatusTellsCredit, Overwritable, Price, Via
    <3>. QED  BY <3>5, <3>6 DEF CreditInv
  <2>2. CASE \E ok : Finish(h, ok)
    BY <1>6, <1>7, <2>2 DEF ReadOrder
  <2>. QED  BY <1>7, <2>1, <2>2 DEF ReadOrder
<1>8. ASSUME NEW h \in Handlers, Commit(h) PROVE CreditInv'
  BY <1>8, FailureCommit, CreditCommit
<1>9. ASSUME NEW h \in Handlers, CommitFails(h) PROVE CreditInv'
  BY <1>6, <1>9 DEF CommitFails
<1>10. ASSUME NEW n \in Nodes, Crash(n) PROVE CreditInv'
  BY <1>0, <1>10, CreditKept DEF Crash, TypeOK
<1>11. ASSUME NEW h \in Handlers, NEW o \in Orders,
              \/ \E e \in Events : Deliver(h, o, e)
              \/ SubscriptionEpayReturn(h, o) \/ AdminCompleteTopUp(h, o) \/ RedeemCode(h, o)
       PROVE  CreditInv'
  BY <1>4, <1>11, DeliverIsStart DEF SubscriptionEpayReturn, AdminCompleteTopUp, RedeemCode
<1>12. CASE UNCHANGED vars
  BY <1>0, <1>12, CreditKept DEF vars, request
<1>. QED
  BY <1>1, <1>2, <1>3, <1>5, <1>7, <1>8, <1>9, <1>10, <1>11, <1>12
     DEF Next, HandlerStep, LinkThenInsert, InsertThenCall, AddRedemption

LEMMA OrderStep == OrderInv /\ [Next]_vars => OrderInv'
<1>. SUFFICES ASSUME OrderInv, [Next]_vars PROVE OrderInv'
  OBVIOUS
<1>1. TypeInv'
  BY TypeStep DEF OrderInv
<1>. QED  BY <1>1, ReasonStep, LockStep, CreditStep DEF OrderInv

\* However many events, requests, nodes, errors and crashes there are, an order
\* is credited at most once, and only if it was paid, completed by hand or is a
\* code: with row locks in every deployment, without them as long as one
\* process handles all requests and the order is not a code.
THEOREM PaymentCreditedOnce == Spec => []CreditedOnce
<1>1. OrderInv => CreditedOnce
  BY DEF OrderInv, CreditInv
<1>. QED  BY <1>1, OrderInit, OrderStep, PTL DEF Spec

\* The status of an order tells whether it was credited in every deployment,
\* but for the three places where a stale status may be saved.
THEOREM PaymentStatusTellsCredit == Spec => []StatusTellsCredit
<1>1. OrderInv => StatusTellsCredit
  BY DEF OrderInv, CreditInv
<1>. QED  BY <1>1, OrderInit, OrderStep, PTL DEF Spec
=============================================================================
