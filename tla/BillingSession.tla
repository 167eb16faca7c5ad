--------------------------- MODULE BillingSession ---------------------------
(***************************************************************************)
(* The billing of synchronous relay requests: pre-consume, reserve, settle *)
(* and refund of one request's quota, on the three ledgers a request can   *)
(* touch: the user's wallet (users.quota), the API token                   *)
(* (tokens.remain_quota) and the user's subscriptions                      *)
(* (user_subscriptions.amount_used).                                       *)
(*                                                                         *)
(* Several requests of the same user and token run concurrently.  One      *)
(* action is one database statement, or one decision of the request's      *)
(* goroutine between two of them.  The transactions on a subscription read *)
(* its row, compute, and save every column of the row they read: the       *)
(* option that asks for FOR UPDATE is ignored by the gorm version in       *)
(* use, so other writes fall in between.  pc[r] is the goroutine's         *)
(* place in the code.  The session mutex (BillingSession.mu) never blocks: *)
(* a session is used by the goroutine of its own request only.  A crash of *)
(* the process is the behaviour in which its requests take no further      *)
(* step: nothing of a session is persisted, so nothing resumes it.         *)
(***************************************************************************)
EXTENDS Integers, FiniteSets, FiniteSetsExt

CONSTANTS
    Requests,      \* the requests; each has its own request id and session
    Subs,          \* number of subscriptions of the user, 1 ends first
    SubTotal,      \* amount_total of each subscription, 0 = no limit
    SubUsedInit,   \* amount_used of each before the first request
    WalletInit,    \* users.quota before the first request
    TokenInit,     \* tokens.remain_quota before the first request
    TrustQuota,    \* common.GetTrustQuota(), 0 = no trust bypass
    Prefs,         \* the billing preferences users have
    Kinds,         \* the kinds of token: limited, unlimited, playground
    Forces,        \* the values of RelayInfo.ForcePreConsume
    Estimates,     \* the quotas ModelPriceHelper estimates
    Targets,       \* the quotas Reserve is asked to reach
    Actuals,       \* the quotas the usage finally costs
    Fees,          \* the violation fees
    Faults         \* what the database may do: "fail" is a statement that
                   \* returns an error and changes nothing, "recordSave" the
                   \* same for the last write of RefundSubscriptionPreConsume
CONSTANT
    MaxFaults,     \* bound on the database errors that hit one request
    MaxPeriods     \* bound on the reset times of a subscription that go by;
                   \* 0 = its plan's quota_reset_period is never

AllPrefs == {"subscription_only", "wallet_only", "wallet_first", "subscription_first"}
AllKinds == {"limited", "unlimited", "playground"}

ASSUME RequestAssumption == IsFiniteSet(Requests)
ASSUME CountAssumption == Subs \in Nat /\ SubTotal \in Nat /\ TrustQuota \in Nat
ASSUME UsageAssumption ==
    SubUsedInit \in Nat /\ (SubTotal > 0 => SubUsedInit <= SubTotal) /\ MaxPeriods \in Nat
ASSUME BalanceAssumption == WalletInit \in Int /\ TokenInit \in Int
ASSUME ChoiceAssumption ==
    Prefs \subseteq AllPrefs /\ Kinds \subseteq AllKinds /\ Forces \subseteq BOOLEAN
ASSUME AmountAssumption ==
    Estimates \subseteq Nat /\ Targets \subseteq Nat /\ Actuals \subseteq Nat
        /\ Fees \subseteq Nat \ {0}
ASSUME FaultAssumption == Faults \subseteq {"fail", "recordSave"} /\ MaxFaults \in Nat

VARIABLES
    wallet,      \* users.quota
    token,       \* tokens.remain_quota
    subUsed,     \* subUsed[k]: amount_used of subscription k
    subStatus,   \* subStatus[k]: its status; active ones end in the future
    subNext,     \* subNext[k]: its next_reset_time, as a number of periods
    period,      \* period[k]: the reset times of k that have gone by
    record,      \* record[r]: status of SubscriptionPreConsumeRecord r
    pc,          \* pc[r]: where the goroutine of request r is
    req,         \* req[r]: what request r asks for, fixed when it starts
    sess,        \* sess[r]: the amounts of r's BillingSession
    flags,       \* flags[r]: its true ones of trusted, settled, refunded
    fund,        \* fund[r]: its WalletFunding or SubscriptionFunding
    op,          \* op[r]: locals of the operation under way
    row,         \* row[r]: the subscription row r's transaction has read
    locked,      \* the row the transaction of the reset task has read
    net,         \* history: net[r] is what r has taken from each ledger
    faults,      \* history: number of database errors that hit request r
    overwritten, \* history: the subscriptions of which a row was saved whose
                 \* amount_used had changed since it was read
    renewed      \* history: the subscriptions a periodic reset was applied to

subs == <<subUsed, subStatus, subNext, overwritten, renewed>>
ledgers == <<wallet, token, subs, record, net>>
session == <<sess, flags, fund, op>>
vars == <<wallet, token, subUsed, subStatus, subNext, period, record, pc, req, sess, flags,
          fund, op, row, locked, net, faults, overwritten, renewed>>

SubIds == 1..Subs

PCs == {"idle", "hasSub", "tryWallet", "trySub", "checkToken", "takeToken",
        "preFunding", "rollToken", "open", "rsvFunding", "rsvCheck", "rsvTake",
        "rsvRoll", "setFunding", "setToken", "refFunding", "refExtra",
        "refToken", "failed", "feeFunding", "feeToken", "end", "rejected"}

Sources == {"none", "wallet", "subscription"}

ReqType == [pref : AllPrefs, kind : AllKinds, force : BOOLEAN, est : Nat,
            tokenQuota : Int]

Places == {"open", "failed", "end", "tryWallet", "rejected"}

SessType == [pre : Nat,            \* preConsumedQuota
             tokenConsumed : Nat,
             extra : Nat]          \* extraReserved

Flags == {"trusted", "settled", "refunded"}

FundType == [src : Sources,
             consumed : Nat,       \* WalletFunding.consumed
             subId : Nat,          \* SubscriptionFunding.subscriptionId
             subPre : Nat]         \* SubscriptionFunding.preConsumed

OpType == [delta : Int,            \* the amount it moves
           actual : Nat,           \* argument of the Settle under way or done
           fee : Nat,              \* violation fee charged
           next : Places,          \* where the goroutine goes on afterwards
           tries : 0..3]           \* failed attempts of refundWithRetry

NetType == [wallet : Int, token : Int,
            sub : Int,             \* what it asked its subscription for
            clamped : Nat]         \* the part of its refunds the clamp at 0 kept

Statuses == {"active", "cancelled", "expired"}

RowType == [id : SubIds, used : Nat, status : Statuses, next : Nat,
            at : Nat]              \* the period in which it was read
NoRow == [id |-> 0, used |-> 0, status |-> "expired", next |-> 0, at |-> 0]

NoRequest == [pref |-> "wallet_only", kind |-> "limited", force |-> FALSE,
              est |-> 0, tokenQuota |-> 0]
NoSess == [pre |-> 0, tokenConsumed |-> 0, extra |-> 0]
NoFund == [src |-> "none", consumed |-> 0, subId |-> 0, subPre |-> 0]
NoNet == [wallet |-> 0, token |-> 0, sub |-> 0, clamped |-> 0]
NoOp == [delta |-> 0, actual |-> 0, fee |-> 0, next |-> "open", tries |-> 0]

TypeOK ==
    /\ wallet \in Int
    /\ token \in Int
    /\ subUsed \in [SubIds -> Nat]
    /\ subStatus \in [SubIds -> Statuses]
    /\ subNext \in [SubIds -> Nat]
    /\ period \in [SubIds -> 0..MaxPeriods]
    /\ record \in [Requests -> {"none", "consumed", "refunded"}]
    /\ pc \in [Requests -> PCs]
    /\ req \in [Requests -> ReqType]
    /\ sess \in [Requests -> SessType]
    /\ flags \in [Requests -> SUBSET Flags]
    /\ fund \in [Requests -> FundType]
    /\ op \in [Requests -> OpType]
    /\ row \in [Requests -> RowType \cup {NoRow}]
    /\ locked \in RowType \cup {NoRow}
    /\ net \in [Requests -> NetType]
    /\ faults \in [Requests -> 0..MaxFaults]
    /\ overwritten \subseteq SubIds
    /\ renewed \subseteq SubIds

Init ==
    /\ wallet = WalletInit
    /\ token = TokenInit
    /\ subUsed = [k \in SubIds |-> SubUsedInit]
    /\ subStatus = [k \in SubIds |-> "active"]
    /\ subNext = [k \in SubIds |-> 1]
    /\ period = [k \in SubIds |-> 0]
    /\ record = [r \in Requests |-> "none"]
    /\ pc = [r \in Requests |-> "idle"]
    /\ req = [r \in Requests |-> NoRequest]
    /\ sess = [r \in Requests |-> NoSess]
    /\ flags = [r \in Requests |-> {}]
    /\ fund = [r \in Requests |-> NoFund]
    /\ op = [r \in Requests |-> NoOp]
    /\ row = [r \in Requests |-> NoRow]
    /\ locked = NoRow
    /\ net = [r \in Requests |-> NoNet]
    /\ faults = [r \in Requests |-> 0]
    /\ overwritten = {}
    /\ renewed = {}

-----------------------------------------------------------------------------
(* The three ledgers.  Take(n) with n < 0 gives -n back. *)

\* DecreaseUserQuota and IncreaseUserQuota: quota = quota -/+ n, unchecked.
TakeWallet(r, n) ==
    /\ wallet' = wallet - n
    /\ net' = [net EXCEPT ![r].wallet = @ + n]
    /\ UNCHANGED <<token, record, row>> /\ UNCHANGED subs

\* DecreaseTokenQuota and IncreaseTokenQuota: remain_quota, unchecked.
TakeToken(r, n) ==
    /\ token' = token - n
    /\ net' = [net EXCEPT ![r].token = @ + n]
    /\ UNCHANGED <<wallet, record, row>> /\ UNCHANGED subs

\* The row of subscription k, as a statement reads it now.
Row(k) == [id |-> k, used |-> subUsed[k], status |-> subStatus[k], next |-> subNext[k],
           at |-> period[k]]

\* tx.Save of a row that was read before: every column of it is written, with
\* the new amount_used and next_reset_time, whatever the row holds by now.  The
\* end_time it writes does not bring back a subscription whose time has run out.
Save(w, used, next) ==
    /\ subUsed' = [subUsed EXCEPT ![w.id] = used]
    /\ subStatus' = [subStatus EXCEPT ![w.id] = IF @ = "expired" THEN @ ELSE w.status]
    /\ subNext' = [subNext EXCEPT ![w.id] = next]
    /\ overwritten' = IF subUsed[w.id] = w.used THEN overwritten ELSE overwritten \cup {w.id}

\* The transaction of r is over.
Done(r) == row' = [row EXCEPT ![r] = NoRow]

\* The error of PostConsumeUserSubscriptionDelta: the total would be exceeded.
Exceeds(w, n) == SubTotal > 0 /\ w.used + n > SubTotal

\* PostConsumeUserSubscriptionDelta: a refund never takes amount_used below 0.
UsedAfter(w, n) == IF w.used + n < 0 THEN 0 ELSE w.used + n

Clamped(w, n) == UsedAfter(w, n) - (w.used + n)

\* The second half of PostConsumeUserSubscriptionDelta.
MoveSub(r, n) ==
    /\ row[r] # NoRow
    /\ Save(row[r], UsedAfter(row[r], n), row[r].next)
    /\ net' = [net EXCEPT ![r].sub = @ + n, ![r].clamped = @ + Clamped(row[r], n)]
    /\ Done(r)
    /\ UNCHANGED <<wallet, token, renewed>>

TakeSub(r, n) == MoveSub(r, n) /\ UNCHANGED record

Take(r, n) ==
    \/ fund[r].src = "wallet" /\ TakeWallet(r, n)
    \/ fund[r].src = "subscription" /\ TakeSub(r, n)

\* The funding source refuses n: only a subscription ever does.
Refuses(r, n) ==
    fund[r].src = "subscription" /\ row[r] # NoRow /\ Exceeds(row[r], n)

\* The token ledger is kept for limited API tokens only.
Metered(r) == req[r].kind = "limited"

GoTo(r, place) == pc' = [pc EXCEPT ![r] = place]

\* An error of kind f hits a database statement of r.
Fault(r, f) ==
    /\ f \in Faults
    /\ faults[r] < MaxFaults
    /\ faults' = [faults EXCEPT ![r] = @ + 1]

\* A database statement of r returns an error: nothing is written.
DbError(r) == Fault(r, "fail") /\ UNCHANGED ledgers /\ Done(r)

NoError == UNCHANGED faults

\* Every step of a request but its first leaves the environment alone.
Frame == UNCHANGED <<period, locked, req>>

\* A decision between two database statements.
Quiet == UNCHANGED ledgers /\ NoError /\ UNCHANGED row

\* The funding source refuses n: the transaction writes nothing.
Refused(r, n) == Refuses(r, n) /\ UNCHANGED ledgers /\ NoError /\ Done(r)

-----------------------------------------------------------------------------
(* NewBillingSession and preConsume *)

FirstTry(pref) ==
    CASE pref = "subscription_only"  -> "trySub"
      [] pref = "subscription_first" -> "hasSub"
      [] OTHER                       -> "tryWallet"

\* TokenAuth has read the token (a limited one must have quota left) and
\* PreConsumeBilling is called with the estimated quota.
Start(r) ==
    /\ pc[r] = "idle"
    /\ \E pref \in Prefs, kind \in Kinds, force \in Forces, est \in Estimates :
        /\ kind = "limited" => token > 0
        /\ req' = [req EXCEPT ![r] =
              [pref |-> pref, kind |-> kind, force |-> force, est |-> est,
               tokenQuota |-> IF kind = "limited" THEN token ELSE 0]]
        /\ GoTo(r, FirstTry(pref))
    /\ Quiet
    /\ UNCHANGED <<period, locked>> /\ UNCHANGED session

HasActiveUserSubscription(r) ==
    /\ pc[r] = "hasSub"
    /\ \/ /\ GoTo(r, IF \E k \in SubIds : subStatus[k] = "active" THEN "trySub" ELSE "tryWallet")
          /\ Quiet
       \/ GoTo(r, "rejected") /\ DbError(r)
    /\ UNCHANGED session
    /\ Frame

\* shouldTrust, for a wallet whose quota has just been read.
ShouldTrust(r) ==
    /\ ~req[r].force
    /\ TrustQuota > 0
    /\ req[r].kind = "unlimited" \/ req[r].tokenQuota > TrustQuota
    /\ wallet > TrustQuota

\* The first half of preConsume: q is the effective quota.
BeginPreConsume(r, src, q, trusted) ==
    /\ fund' = [fund EXCEPT ![r].src = src]
    /\ flags' = [flags EXCEPT ![r] = IF trusted THEN {"trusted"} ELSE {}]
    /\ op' = [op EXCEPT ![r].delta = q]
    /\ UNCHANGED sess
    /\ GoTo(r, IF q > 0 /\ req[r].kind # "unlimited"
                THEN "checkToken" ELSE "preFunding")

TryWallet(r) ==
    /\ pc[r] = "tryWallet"
    /\ \/ /\ wallet > 0 /\ wallet >= req[r].est
          /\ BeginPreConsume(r, "wallet", IF ShouldTrust(r) THEN 0 ELSE req[r].est,
                             ShouldTrust(r))
          /\ Quiet
       \/ /\ wallet <= 0 \/ wallet < req[r].est
          /\ GoTo(r, IF req[r].pref = "wallet_first" THEN "trySub" ELSE "rejected")
          /\ Quiet /\ UNCHANGED session
       \/ GoTo(r, "rejected") /\ DbError(r) /\ UNCHANGED session
    /\ Frame

\* A subscription takes at least 1 and never uses the trust bypass.
TrySubscription(r) ==
    /\ pc[r] = "trySub"
    /\ BeginPreConsume(r, "subscription", IF req[r].est = 0 THEN 1 ELSE req[r].est, FALSE)
    /\ Quiet /\ Frame

\* PreConsumeTokenQuota up to the read of the token's remaining quota.
CheckToken(r) ==
    /\ pc[r] = "checkToken"
    /\ \/ /\ req[r].kind = "playground"
          /\ sess' = [sess EXCEPT ![r].tokenConsumed = op[r].delta]
          /\ GoTo(r, "preFunding") /\ Quiet /\ UNCHANGED <<flags, fund, op>>
       \/ /\ Metered(r)
          /\ GoTo(r, IF token < op[r].delta THEN "rejected" ELSE "takeToken")
          /\ Quiet /\ UNCHANGED session
       \/ /\ Metered(r)
          /\ GoTo(r, "rejected") /\ DbError(r) /\ UNCHANGED session
    /\ Frame

PreConsumeTokenQuota(r) ==
    /\ pc[r] = "takeToken"
    /\ \/ /\ TakeToken(r, op[r].delta) /\ NoError
          /\ sess' = [sess EXCEPT ![r].tokenConsumed = op[r].delta]
          /\ GoTo(r, "preFunding") /\ UNCHANGED <<flags, fund, op>>
       \/ GoTo(r, "rejected") /\ DbError(r) /\ UNCHANGED session
    /\ Frame

\* The session under construction is dropped and the caller goes on: with the
\* wallet when a subscription was short of quota, with the error otherwise.
Abandon(r, place) ==
    /\ sess' = [sess EXCEPT ![r] = NoSess]
    /\ flags' = [flags EXCEPT ![r] = {}]
    /\ fund' = [fund EXCEPT ![r] = NoFund]
    /\ op' = [op EXCEPT ![r] = NoOp]
    /\ GoTo(r, place)

\* Only InsufficientUserQuota is worth a second try.
Fallback(r, insufficient) ==
    IF insufficient /\ req[r].pref = "subscription_first" THEN "tryWallet" ELSE "rejected"

\* funding.PreConsume has failed: the token is rolled back first.
FundingFails(r, insufficient) ==
    \/ /\ sess[r].tokenConsumed > 0 /\ req[r].kind # "playground"
       /\ op' = [op EXCEPT ![r].next = Fallback(r, insufficient)]
       /\ GoTo(r, "rollToken")
       /\ UNCHANGED <<sess, flags, fund>>
    \/ /\ sess[r].tokenConsumed = 0 \/ req[r].kind = "playground"
       /\ Abandon(r, Fallback(r, insufficient))

PreConsumeWallet(r) ==
    /\ pc[r] = "preFunding" /\ fund[r].src = "wallet"
    /\ LET n == op[r].delta IN
       \/ /\ TakeWallet(r, n) /\ NoError
          /\ fund' = [fund EXCEPT ![r].consumed = n]
          /\ sess' = [sess EXCEPT ![r].pre = n]
          /\ GoTo(r, "open") /\ UNCHANGED <<flags, op>>
       \/ n > 0 /\ DbError(r) /\ FundingFails(r, FALSE)
    /\ Frame

\* maybeResetUserSubscriptionWithPlanTx: a row whose next reset time had gone by
\* when it was read starts a new period at 0.
ResetDue(w) == w.next <= w.at
UsedThisPeriod(w) == IF ResetDue(w) THEN 0 ELSE w.used
NextReset(w) == IF ResetDue(w) THEN w.at + 1 ELSE w.next
Renews(w) == renewed' = IF ResetDue(w) THEN renewed \cup {w.id} ELSE renewed

\* Mutant: the remaining amount is not compared with n.
CandidatesAnyRoom(n) == {k \in SubIds : subStatus[k] = "active"}

\* The active subscriptions with room for n; the lowest ends first.
Candidates(n) ==
    {k \in SubIds : /\ subStatus[k] = "active"
                    /\ ~(SubTotal > 0 /\ SubTotal - UsedThisPeriod(Row(k)) < n)}

\* The reads of PreConsumeUserSubscription.  A failed read of the subscriptions
\* is reported as "no active subscription".  The branches for a request id that
\* has a record already are not reached: each request has an id of its own and
\* calls PreConsume at most once.
FindSubscription(r) ==
    /\ pc[r] = "preFunding" /\ fund[r].src = "subscription" /\ row[r] = NoRow
    /\ LET n == op[r].delta IN
       \/ /\ \E k \in Candidates(n) :
             /\ \A j \in Candidates(n) : k <= j
             /\ row' = [row EXCEPT ![r] = Row(k)]
          /\ UNCHANGED ledgers /\ NoError
          /\ UNCHANGED pc /\ UNCHANGED session
       \/ Candidates(n) = {} /\ Quiet /\ FundingFails(r, TRUE)
       \/ \E insufficient \in BOOLEAN : DbError(r) /\ FundingFails(r, insufficient)
    /\ Frame

\* The writes of PreConsumeUserSubscription: its record, and the row it chose.
PreConsumeSubscription(r) ==
    /\ pc[r] = "preFunding" /\ fund[r].src = "subscription" /\ row[r] # NoRow
    /\ LET n == op[r].delta
           w == row[r]
       IN
       \/ /\ Save(w, UsedThisPeriod(w) + n, NextReset(w)) /\ Renews(w)
          /\ fund' = [fund EXCEPT ![r].subId = w.id, ![r].subPre = n]
          /\ sess' = [sess EXCEPT ![r].pre = n]
          /\ record' = [record EXCEPT ![r] = "consumed"]
          /\ net' = [net EXCEPT ![r].sub = @ + n]
          /\ GoTo(r, "open")
          /\ Done(r) /\ NoError /\ UNCHANGED <<wallet, token, flags, op>>
       \/ DbError(r) /\ FundingFails(r, FALSE)
    /\ Frame

\* The token's roll back; an error of it is only logged.
RollBackToken(r) ==
    /\ pc[r] = "rollToken"
    /\ \/ TakeToken(r, -sess[r].tokenConsumed) /\ NoError
       \/ DbError(r)
    /\ Abandon(r, op[r].next)
    /\ Frame

\* The first half of PostConsumeUserSubscriptionDelta: the row is read by its id.
ReadSubscription(r) ==
    /\ pc[r] \in {"rsvFunding", "rsvRoll", "setFunding", "refFunding", "refExtra", "feeFunding"}
    /\ fund[r].src = "subscription" /\ row[r] = NoRow
    /\ row' = [row EXCEPT ![r] = Row(fund[r].subId)]
    /\ UNCHANGED ledgers /\ NoError
    /\ Frame /\ UNCHANGED pc /\ UNCHANGED session

-----------------------------------------------------------------------------
(* Reserve: raise the pre-consumed quota to a target *)

\* Mutant: a target below the pre-consumed quota is not a no-op.
ReserveTargetsBelow(r) == {target \in Targets : target # sess[r].pre}

ReserveTargets(r) == {target \in Targets : target > sess[r].pre}

Reserve(r) ==
    /\ pc[r] = "open"
    /\ flags[r] \cap Flags = {}
    /\ \E target \in ReserveTargets(r) :
        op' = [op EXCEPT ![r].delta = target - sess[r].pre]
    /\ GoTo(r, "rsvFunding")
    /\ Quiet /\ Frame /\ UNCHANGED <<sess, flags, fund>>

\* Mutant: WalletFunding.consumed stays at what preConsume took.
ConsumedUnchanged(r, n) == fund[r].consumed

\* Mutant: the roll back of a reservation leaves WalletFunding.consumed alone.
ConsumedNotRolledBack(r, n) ==
    IF fund[r].src = "wallet" /\ n > 0 THEN fund[r].consumed + n ELSE fund[r].consumed

\* WalletFunding.consumed follows the reserved quota, up and down.
Consumed(r, n) == IF fund[r].src = "wallet" THEN fund[r].consumed + n ELSE fund[r].consumed

\* Mutant: extraReserved is not updated.
ReservedNoExtra(f, n) == [f EXCEPT !.pre = @ + n, !.tokenConsumed = @ + n]

\* tokenConsumed grows for unlimited and playground tokens too.
Reserved(f, n) == [f EXCEPT !.pre = @ + n, !.tokenConsumed = @ + n, !.extra = @ + n]

ReserveFunding(r) ==
    /\ pc[r] = "rsvFunding"
    /\ LET n == op[r].delta IN
       \/ /\ ~Refuses(r, n)
          /\ Take(r, n) /\ NoError
          /\ fund' = [fund EXCEPT ![r].consumed = Consumed(r, n)]
          /\ \/ Metered(r) /\ GoTo(r, "rsvCheck") /\ UNCHANGED sess
             \/ /\ ~Metered(r) /\ GoTo(r, "open")
                /\ sess' = [sess EXCEPT ![r] = Reserved(@, n)]
       \/ /\ \/ Refused(r, n)
             \/ DbError(r)
          /\ GoTo(r, "open") /\ UNCHANGED <<sess, fund>>
    /\ Frame /\ UNCHANGED <<flags, op>>

ReserveCheckToken(r) ==
    /\ pc[r] = "rsvCheck"
    /\ \/ GoTo(r, IF token < op[r].delta THEN "rsvRoll" ELSE "rsvTake") /\ Quiet
       \/ GoTo(r, "rsvRoll") /\ DbError(r)
    /\ Frame /\ UNCHANGED session

ReserveToken(r) ==
    /\ pc[r] = "rsvTake"
    /\ \/ /\ TakeToken(r, op[r].delta) /\ NoError
          /\ sess' = [sess EXCEPT ![r] = Reserved(@, op[r].delta)]
          /\ GoTo(r, "open")
       \/ GoTo(r, "rsvRoll") /\ DbError(r) /\ UNCHANGED sess
    /\ Frame /\ UNCHANGED <<flags, fund, op>>

RollbackFundingReserve(r) ==
    /\ pc[r] = "rsvRoll"
    /\ \/ /\ Take(r, -op[r].delta) /\ NoError
          /\ fund' = [fund EXCEPT ![r].consumed = Consumed(r, -op[r].delta)]
       \/ DbError(r) /\ UNCHANGED fund
    /\ GoTo(r, "open")
    /\ Frame /\ UNCHANGED <<sess, flags, op>>

-----------------------------------------------------------------------------
(* Settle *)

Settled(r) == "settled" \in flags[r]

\* A handler has the usage of its upstream call and calls SettleBilling.  It
\* returns success ("end"), or, when the client went away while the generated
\* image was stored, an error that is retried ("open") or not ("failed").
Settle(r) ==
    /\ pc[r] = "open"
    /\ \E actual \in Actuals, next \in {"open", "failed", "end"} :
        \/ Settled(r) /\ GoTo(r, next) /\ UNCHANGED <<flags, op>>
        \/ /\ ~Settled(r) /\ actual = sess[r].pre
           /\ flags' = [flags EXCEPT ![r] = @ \cup {"settled"}]
           /\ op' = [op EXCEPT ![r].actual = actual]
           /\ GoTo(r, next)
        \/ /\ ~Settled(r) /\ actual # sess[r].pre
           /\ op' = [op EXCEPT ![r].delta = actual - sess[r].pre,
                               ![r].actual = actual, ![r].next = next]
           /\ GoTo(r, "setFunding") /\ UNCHANGED flags
    /\ Quiet /\ Frame /\ UNCHANGED <<sess, fund>>

\* An error of the funding source leaves the session unsettled.
SettleFunding(r) ==
    /\ pc[r] = "setFunding"
    /\ LET n == op[r].delta IN
       \/ /\ ~Refuses(r, n)
          /\ Take(r, n) /\ NoError
          /\ \/ Metered(r) /\ GoTo(r, "setToken") /\ UNCHANGED flags
             \/ /\ ~Metered(r) /\ GoTo(r, op[r].next)
                /\ flags' = [flags EXCEPT ![r] = @ \cup {"settled"}]
       \/ /\ \/ Refused(r, n)
             \/ DbError(r)
          /\ GoTo(r, op[r].next) /\ UNCHANGED flags
    /\ Frame /\ UNCHANGED <<sess, fund, op>>

\* The funding source is committed: the session is settled even when the
\* token's adjustment fails.
SettleToken(r) ==
    /\ pc[r] = "setToken"
    /\ \/ TakeToken(r, op[r].delta) /\ NoError
       \/ DbError(r)
    /\ flags' = [flags EXCEPT ![r] = @ \cup {"settled"}]
    /\ GoTo(r, op[r].next)
    /\ Frame /\ UNCHANGED <<sess, fund, op>>

-----------------------------------------------------------------------------
(* The deferred refund of Relay, and Refund *)

\* Mutant: a settled session is refunded all the same.
NeedsRefundSettled(r) ==
    /\ "refunded" \notin flags[r]
    /\ sess[r].pre > 0 \/ sess[r].tokenConsumed > 0 \/ fund[r].subPre > 0

NeedsRefund(r) ==
    /\ flags[r] \cap {"settled", "refunded"} = {}
    /\ sess[r].pre > 0 \/ sess[r].tokenConsumed > 0 \/ fund[r].subPre > 0

\* What Refund still has to do once the funding source has been refunded.
AfterExtra(r) ==
    IF sess[r].tokenConsumed > 0 /\ Metered(r) THEN "refToken" ELSE "failed"
AfterRefund(r) ==
    IF sess[r].extra > 0 /\ fund[r].src = "subscription" THEN "refExtra" ELSE AfterExtra(r)

\* The last attempt has failed with a refundable error.
Refund(r) ==
    /\ pc[r] = "open"
    /\ \/ /\ NeedsRefund(r)
          /\ flags' = [flags EXCEPT ![r] = @ \cup {"refunded"}]
          /\ GoTo(r, "refFunding")
       \/ ~NeedsRefund(r) /\ GoTo(r, "failed") /\ UNCHANGED flags
    /\ Quiet /\ Frame /\ UNCHANGED <<sess, fund, op>>

\* The last error is one the user pays for (ShouldRefundRelayError is false).
SkipRefund(r) ==
    /\ pc[r] = "open"
    /\ GoTo(r, "failed")
    /\ Quiet /\ Frame /\ UNCHANGED session

\* WalletFunding.Refund: tried once, the error is only logged.
RefundWallet(r) ==
    /\ pc[r] = "refFunding" /\ fund[r].src = "wallet"
    /\ \/ TakeWallet(r, -fund[r].consumed) /\ NoError
       \/ fund[r].consumed > 0 /\ DbError(r)
    /\ GoTo(r, AfterRefund(r))
    /\ Frame /\ UNCHANGED session

MaxRefundAttempts == 3

\* One more attempt of refundWithRetry has failed.
RetryRefund(r) ==
    /\ op' = [op EXCEPT ![r].tries = @ + 1]
    /\ IF op[r].tries + 1 < MaxRefundAttempts
       THEN UNCHANGED pc ELSE GoTo(r, AfterRefund(r))

\* One attempt of RefundSubscriptionPreConsume.  amount_used is given back by
\* PostConsumeUserSubscriptionDelta in a transaction of its own, before the
\* record is saved as refunded.
RefundSubscription(r) ==
    /\ pc[r] = "refFunding" /\ fund[r].src = "subscription"
    /\ LET giveBack == /\ record[r] = "consumed"
                       /\ MoveSub(r, -fund[r].subPre)
       IN
       \/ /\ giveBack
          /\ record' = [record EXCEPT ![r] = "refunded"]
          /\ GoTo(r, AfterRefund(r))
          /\ NoError /\ UNCHANGED op
       \/ DbError(r) /\ RetryRefund(r)
       \/ Fault(r, "recordSave") /\ giveBack /\ UNCHANGED record /\ RetryRefund(r)
    /\ Frame /\ UNCHANGED <<sess, flags, fund>>

RefundExtra(r) ==
    /\ pc[r] = "refExtra"
    /\ \/ TakeSub(r, -sess[r].extra) /\ NoError
       \/ DbError(r)
    /\ GoTo(r, AfterExtra(r))
    /\ Frame /\ UNCHANGED session

RefundToken(r) ==
    /\ pc[r] = "refToken"
    /\ \/ TakeToken(r, -sess[r].tokenConsumed) /\ NoError
       \/ DbError(r)
    /\ GoTo(r, "failed")
    /\ Frame /\ UNCHANGED session

-----------------------------------------------------------------------------
(* ChargeViolationFeeIfNeeded, after the refund *)

ChargeViolationFee(r) ==
    /\ pc[r] = "failed"
    /\ \/ GoTo(r, "end") /\ UNCHANGED op
       \/ \E fee \in Fees :
            op' = [op EXCEPT ![r].delta = fee] /\ GoTo(r, "feeFunding")
    /\ Quiet /\ Frame /\ UNCHANGED <<sess, flags, fund>>

PostConsumeFunding(r) ==
    /\ pc[r] = "feeFunding"
    /\ LET n == op[r].delta IN
       \/ /\ ~Refuses(r, n)
          /\ Take(r, n) /\ NoError
          /\ op' = [op EXCEPT ![r].fee = n]
          /\ GoTo(r, IF Metered(r) THEN "feeToken" ELSE "end")
       \/ /\ \/ Refused(r, n)
             \/ DbError(r)
          /\ GoTo(r, "end") /\ UNCHANGED op
    /\ Frame /\ UNCHANGED <<sess, flags, fund>>

PostConsumeToken(r) ==
    /\ pc[r] = "feeToken"
    /\ \/ TakeToken(r, op[r].delta) /\ NoError
       \/ DbError(r)
    /\ GoTo(r, "end")
    /\ Frame /\ UNCHANGED session

-----------------------------------------------------------------------------
(* The other writers of the subscriptions, and time *)

\* The requests see nothing of a step.
Aside == UNCHANGED <<wallet, token, record, net, faults, pc, req, row>> /\ UNCHANGED session

\* The end time of k passes.
SubscriptionExpires(k) ==
    /\ subStatus[k] # "expired"
    /\ subStatus' = [subStatus EXCEPT ![k] = "expired"]
    /\ Aside /\ UNCHANGED <<subUsed, subNext, overwritten, renewed, period, locked>>

\* Status and end_time are written, and no other column.
AdminInvalidateUserSubscription(k) ==
    /\ subStatus[k] = "active"
    /\ subStatus' = [subStatus EXCEPT ![k] = "cancelled"]
    /\ Aside /\ UNCHANGED <<subUsed, subNext, overwritten, renewed, period, locked>>

\* The next reset time of k's plan passes.
PeriodPasses(k) ==
    /\ period[k] < MaxPeriods
    /\ period' = [period EXCEPT ![k] = @ + 1]
    /\ Aside /\ UNCHANGED subs /\ UNCHANGED locked

\* ResetDueSubscriptions, run every minute: a due row is read ...
ResetDueSubscriptions(k) ==
    /\ locked = NoRow
    /\ subStatus[k] = "active" /\ ResetDue(Row(k))
    /\ locked' = Row(k)
    /\ Aside /\ UNCHANGED subs /\ UNCHANGED period

\* ... and saved with its usage at 0, or not at all.
ResetSubscription ==
    /\ locked # NoRow
    /\ \/ Save(locked, UsedThisPeriod(locked), NextReset(locked)) /\ Renews(locked)
       \/ "fail" \in Faults /\ UNCHANGED subs
    /\ locked' = NoRow
    /\ Aside /\ UNCHANGED period

RequestStep(r) ==
    \/ Start(r) \/ HasActiveUserSubscription(r) \/ TryWallet(r) \/ TrySubscription(r)
    \/ CheckToken(r) \/ PreConsumeTokenQuota(r) \/ PreConsumeWallet(r)
    \/ FindSubscription(r) \/ PreConsumeSubscription(r) \/ RollBackToken(r)
    \/ ReadSubscription(r)
    \/ Reserve(r) \/ ReserveFunding(r) \/ ReserveCheckToken(r) \/ ReserveToken(r)
    \/ RollbackFundingReserve(r)
    \/ Settle(r) \/ SettleFunding(r) \/ SettleToken(r)
    \/ Refund(r) \/ SkipRefund(r) \/ RefundWallet(r) \/ RefundSubscription(r)
    \/ RefundExtra(r) \/ RefundToken(r)
    \/ ChargeViolationFee(r) \/ PostConsumeFunding(r) \/ PostConsumeToken(r)

Next ==
    \/ \E r \in Requests : RequestStep(r)
    \/ \E k \in SubIds :
        \/ SubscriptionExpires(k) \/ AdminInvalidateUserSubscription(k)
        \/ PeriodPasses(k) \/ ResetDueSubscriptions(k)
    \/ ResetSubscription

Spec == Init /\ [][Next]_vars

-----------------------------------------------------------------------------
(* Properties *)

\* What request r owes: the actual quota once settled, otherwise its
\* pre-consumed quota unless that was refunded, plus the violation fee.
Due(r) ==
    (IF Settled(r) THEN op[r].actual
     ELSE IF "refunded" \in flags[r] THEN 0 ELSE sess[r].pre) + op[r].fee

\* What r has taken from its subscription, by what its row was changed by.
SubTaken(r) == net[r].sub + net[r].clamped

AtRest(r) == pc[r] \in {"open", "end", "rejected"} /\ faults[r] = 0

\* No stale save has put an old amount_used of k back, and no reset taken it away.
Undisturbed(k) == k \notin overwritten \cup renewed

\* The ledgers agree with the session: whenever a session is at rest (open, or
\* its request over) and no statement of it has failed, its funding source has
\* been charged exactly what it owes, no other source anything, and a limited
\* token the same amount; a rejected request has been charged nothing.  This is
\* what the roll backs of preConsume and Reserve, the delta of Settle, the
\* three refunds of Refund and the no-ops after Settle amount to, the clamp at
\* 0 of PostConsumeUserSubscriptionDelta included: it bites only where a stale
\* save or a reset has taken a charge away.
SessionLedgerExact ==
    \A r \in Requests : AtRest(r) =>
        LET due == IF pc[r] = "rejected" THEN 0 ELSE Due(r) IN
        /\ net[r].wallet = IF fund[r].src = "wallet" THEN due ELSE 0
        /\ Undisturbed(fund[r].subId) =>
              SubTaken(r) = IF fund[r].src = "subscription" THEN due ELSE 0
        /\ net[r].token = IF Metered(r) THEN due ELSE 0

\* No request ever takes back more than it put in, whichever statement fails,
\* wherever the process dies and however stale the row it saves: every refund,
\* roll back and negative settlement is covered by what the same request has
\* taken from that ledger.
NeverOverRefunded ==
    \A r \in Requests : net[r].wallet >= 0 /\ net[r].token >= 0 /\ SubTaken(r) >= 0

\* The requests that subscription k pays for.
Served(k) == {r \in Requests : fund[r].subId = k}

\* amount_used of a subscription never exceeds its total, stale saves and resets
\* included; and as long as none of those has touched it, it is, when the
\* requests it serves are at rest, what it was plus the sum of what they owe.
SubscriptionLedgerExact ==
    \A k \in SubIds :
        /\ SubTotal > 0 => subUsed[k] <= SubTotal
        /\ (Undisturbed(k) /\ \A r \in Served(k) : AtRest(r)) =>
              subUsed[k] = SubUsedInit + MapThenSumSet(Due, Served(k))

\* "PreConsumeUserSubscription ... locks the subscription": a charge is not lost
\* to a concurrent transaction on the same row.  When the requests a subscription
\* serves are at rest, and no reset has come, its amount_used covers what they owe.
NoChargeLost ==
    \A k \in SubIds \ renewed :
        (\A r \in Served(k) : AtRest(r)) =>
            subUsed[k] >= SubUsedInit + MapThenSumSet(Due, Served(k))

\* "RefundSubscriptionPreConsume is idempotent": however often refundWithRetry
\* calls it, a refunded request has not given back more than it took.
RefundIsIdempotent ==
    \A r \in Requests : record[r] # "none" => SubTaken(r) >= 0

\* "Marks a user subscription as cancelled and ends it immediately": a cancelled
\* subscription does not become active again.
CancelledIsFinal ==
    [][\A k \in SubIds : subStatus[k] = "cancelled" => subStatus'[k] # "active"]_vars

\* Once Settle has committed, nothing the request's goroutine still does (a
\* retry that settles again, the deferred refund) moves its pre-consumed or
\* settled quota: only a violation fee may be added.
SettledIsFinal ==
    [][\A r \in Requests : Settled(r) =>
        /\ Settled(r)' /\ "refunded" \notin flags'[r]
        /\ net'[r] # net[r] => pc[r] \in {"feeFunding", "feeToken"}]_vars
=============================================================================
