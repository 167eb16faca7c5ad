------------------------ MODULE BillingSessionProofs ------------------------
(***************************************************************************)
(* Proofs about BillingSession, for every number of requests and           *)
(* subscriptions, every balance, price and bound.                          *)
(***************************************************************************)
EXTENDS BillingSession, SetSums

-----------------------------------------------------------------------------
(* The inductive invariant: everything it says is about one request *)

Refunded(r) == "refunded" \in flags[r]

\* Places before a session is open, and places of an open or a closed session.
Fresh == {"idle", "hasSub", "tryWallet", "trySub"}
Opening == {"checkToken", "takeToken", "preFunding", "rollToken"}
Reserving == {"rsvCheck", "rsvTake", "rsvRoll"}
Settling == {"setFunding", "setToken"}
Refunding == {"refFunding", "refExtra", "refToken"}
Closing == {"failed", "feeFunding", "feeToken", "end"}
Live == {"open", "rsvFunding"} \cup Reserving \cup Settling \cup Refunding \cup Closing

\* A session that has just been made, or was dropped.
FreshShape(r) ==
    pc[r] \in Fresh =>
        sess[r] = NoSess /\ fund[r] = NoFund /\ flags[r] = {} /\ op[r] = NoOp

\* preConsume: the token is charged first, for the quota the funding source
\* will be asked for.
OpeningShape(r) ==
    pc[r] \in Opening =>
        /\ sess[r].pre = 0 /\ sess[r].extra = 0
        /\ fund[r].src # "none" /\ fund[r].consumed = 0 /\ fund[r].subPre = 0
        /\ flags[r] \cap {"settled", "refunded"} = {}
        /\ op[r].delta >= 0 /\ op[r].fee = 0 /\ op[r].tries = 0
        /\ pc[r] \in {"checkToken", "takeToken"} =>
              sess[r].tokenConsumed = 0 /\ req[r].kind # "unlimited"
        /\ pc[r] \in {"takeToken", "rollToken"} => Metered(r)
        /\ pc[r] = "preFunding" /\ req[r].kind = "unlimited" => sess[r].tokenConsumed = 0
        /\ Metered(r) /\ pc[r] \in {"preFunding", "rollToken"} =>
              sess[r].tokenConsumed = op[r].delta
        /\ pc[r] = "rollToken" => op[r].next \in {"tryWallet", "rejected"}

\* An open session: what it has pre-consumed is what its funding source and its
\* token were asked for; the flags and locals of the operation under way.
LiveShape(r) ==
    pc[r] \in Live =>
        /\ fund[r].src # "none"
        /\ fund[r].src = "subscription" => sess[r].pre = fund[r].subPre + sess[r].extra
        /\ Metered(r) => sess[r].tokenConsumed = sess[r].pre
        /\ Settled(r) => pc[r] \in {"open"} \cup Closing /\ ~Refunded(r)
        /\ Refunded(r) => pc[r] \in Refunding \cup Closing
        /\ pc[r] \in Refunding => Refunded(r)
        /\ pc[r] \notin {"feeToken", "end"} => op[r].fee = 0
        /\ pc[r] \notin Refunding \cup Closing => op[r].tries = 0
        /\ pc[r] = "refFunding" => op[r].tries < MaxRefundAttempts

OperationShape(r) ==
    /\ pc[r] \in {"rsvFunding"} \cup Reserving => op[r].delta > 0
    /\ pc[r] \in Reserving \cup {"setToken", "refToken", "feeToken"} => Metered(r)
    /\ pc[r] \in Settling =>
          op[r].delta = op[r].actual - sess[r].pre /\ op[r].next \in {"open", "failed", "end"}
    /\ pc[r] = "refExtra" => fund[r].src = "subscription"
    /\ pc[r] \in {"feeFunding", "feeToken"} => op[r].delta > 0
    /\ pc[r] = "feeToken" => op[r].fee = op[r].delta
    /\ pc[r] = "rejected" => ~Settled(r) /\ ~Refunded(r)

Shape(r) == FreshShape(r) /\ OpeningShape(r) /\ LiveShape(r) /\ OperationShape(r)

\* What r's funding source has been charged when r is at its place in the code.
OwedFunding(r) ==
    IF pc[r] \in Reserving THEN sess[r].pre + op[r].delta
    ELSE IF pc[r] \in {"open", "rsvFunding", "setFunding"} \cup Closing THEN Due(r)
    ELSE IF pc[r] = "setToken" THEN op[r].actual
    ELSE IF pc[r] = "refFunding" THEN sess[r].pre
    ELSE IF pc[r] = "refExtra" THEN sess[r].extra
    ELSE 0

\* The same for the token.
OwedToken(r) ==
    IF pc[r] \in {"preFunding", "rollToken"} THEN sess[r].tokenConsumed
    ELSE IF pc[r] = "feeToken" THEN Due(r) - op[r].fee
    ELSE IF pc[r] \in {"open", "rsvFunding", "setFunding", "failed", "feeFunding", "end"}
         THEN Due(r)
    ELSE IF pc[r] \in Reserving \cup Refunding \cup {"setToken"} THEN sess[r].pre
    ELSE 0

\* The session still has something to give back.
Returnable(r) == pc[r] \notin Closing /\ ~Settled(r)

\* A source that is not r's, and a token that is not metered, are never touched,
\* and no source is touched before the session is open.
OtherLedgers(r) ==
    /\ fund[r].src # "wallet" => net[r].wallet = 0
    /\ fund[r].src # "subscription" => net[r].sub = 0
    /\ ~Metered(r) => net[r].token = 0
    /\ pc[r] \in Fresh \cup Opening \cup {"rejected"} => net[r].wallet = 0 /\ net[r].sub = 0
    /\ pc[r] = "idle" => net[r].token = 0

\* What may still be given back is covered by what was taken.
Covered(r) ==
    /\ net[r].wallet >= 0 /\ net[r].token >= 0
    /\ "recordSave" \notin Faults => net[r].sub >= 0
    /\ Returnable(r) =>
          /\ fund[r].src = "wallet" => net[r].wallet >= OwedFunding(r)
          /\ fund[r].src = "subscription" /\ "recordSave" \notin Faults =>
                net[r].sub >= OwedFunding(r)
          /\ Metered(r) => net[r].token >= OwedToken(r)

\* WalletFunding.consumed is what Refund will give back.
ConsumedExact(r) ==
    (/\ fund[r].src = "wallet"
     /\ Returnable(r) /\ pc[r] \in Live \ {"setToken", "refExtra", "refToken"}) =>
        net[r].wallet = fund[r].consumed

\* Without an error the ledgers are exact at every place.
ExactLedgers(r) ==
    faults[r] = 0 =>
        /\ fund[r].src = "wallet" => net[r].wallet = OwedFunding(r)
        /\ fund[r].src = "subscription" => net[r].sub = OwedFunding(r)
        /\ Metered(r) => net[r].token = OwedToken(r)

Ledger(r) == OtherLedgers(r) /\ Covered(r) /\ ConsumedExact(r) /\ ExactLedgers(r)

\* The subscription that pays for an open session is known; before, there is none.
SubServed(r) ==
    /\ pc[r] \in Live /\ fund[r].src = "subscription" => fund[r].subId \in SubIds
    /\ pc[r] \notin Live \/ fund[r].src # "subscription" => fund[r].subId = 0
    /\ fund[r].subId = 0 => net[r].clamped = 0

BillingInv == TypeOK /\ \A r \in Requests : Shape(r) /\ Ledger(r) /\ SubServed(r)

-----------------------------------------------------------------------------
(* Lemmas *)

\* The fields of one request.
Fields(r) ==
    /\ pc[r] \in PCs /\ flags[r] \in SUBSET Flags /\ faults[r] \in Nat
    /\ req[r].pref \in AllPrefs /\ req[r].kind \in AllKinds /\ req[r].est \in Nat
    /\ sess[r].pre \in Nat /\ sess[r].tokenConsumed \in Nat /\ sess[r].extra \in Nat
    /\ fund[r].src \in Sources /\ fund[r].consumed \in Nat /\ fund[r].subPre \in Nat
    /\ op[r].delta \in Int /\ op[r].actual \in Nat /\ op[r].fee \in Nat
    /\ op[r].next \in Places /\ op[r].tries \in 0..3
    /\ net[r].wallet \in Int /\ net[r].token \in Int /\ net[r].sub \in Int
    /\ net[r].clamped \in Nat

LEMMA FieldTypes == ASSUME TypeOK, NEW r \in Requests PROVE Fields(r)
<1>1. /\ pc[r] \in PCs /\ flags[r] \in SUBSET Flags /\ faults[r] \in Nat
      /\ req[r] \in ReqType /\ sess[r] \in SessType /\ fund[r] \in FundType
      /\ op[r] \in OpType /\ net[r] \in NetType
  BY FaultAssumption DEF TypeOK
<1>. QED  BY <1>1 DEF Fields, ReqType, SessType, FundType, OpType, NetType

\* Nothing of q's session has changed.
SameSession(q) ==
    /\ pc'[q] = pc[q] /\ req'[q] = req[q] /\ sess'[q] = sess[q] /\ flags'[q] = flags[q]
    /\ fund'[q] = fund[q] /\ op'[q] = op[q] /\ net'[q] = net[q] /\ faults'[q] = faults[q]

\* Nothing of q has changed.
Same(q) == SameSession(q) /\ row'[q] = row[q]

LEMMA SameKept ==
    ASSUME NEW q, SameSession(q), Shape(q), Ledger(q)
    PROVE  Shape(q)' /\ Ledger(q)'
<1>1. Settled(q)' = Settled(q) /\ Refunded(q)' = Refunded(q) /\ Metered(q)' = Metered(q)
  BY DEF SameSession, Settled, Refunded, Metered
<1>2. Due(q)' = Due(q) /\ Returnable(q)' = Returnable(q)
  BY <1>1 DEF SameSession, Due, Returnable
<1>3. OwedFunding(q)' = OwedFunding(q) /\ OwedToken(q)' = OwedToken(q)
  BY <1>2 DEF SameSession, OwedFunding, OwedToken
<1>4. Shape(q)'
  BY <1>1 DEF SameSession, Shape, FreshShape, OpeningShape, LiveShape, OperationShape
<1>5. Ledger(q)'
  BY <1>1, <1>2, <1>3 DEF SameSession, Ledger, OtherLedgers, Covered, ConsumedExact, ExactLedgers
<1>. QED  BY <1>4, <1>5

\* A step of a request leaves the other requests alone.
LEMMA OthersStep ==
    ASSUME BillingInv, NEW r \in Requests, RequestStep(r)
    PROVE  \A q \in Requests \ {r} : Same(q)
<1>. USE DEF GoTo, Quiet, NoError, DbError, Done, Fault, Frame, session, subs,
     ledgers, Same, SameSession, TypeOK
<1>0. TypeOK
  BY DEF BillingInv
<1>1. CASE Start(r)
  BY <1>0, <1>1 DEF Start
<1>2. CASE HasActiveUserSubscription(r)
  BY <1>0, <1>2 DEF HasActiveUserSubscription
<1>3. CASE TryWallet(r)
  BY <1>0, <1>3 DEF TryWallet, BeginPreConsume, ShouldTrust
<1>4. CASE TrySubscription(r)
  BY <1>0, <1>4 DEF TrySubscription, BeginPreConsume
<1>5. CASE CheckToken(r)
  BY <1>0, <1>5 DEF CheckToken
<1>6. CASE PreConsumeTokenQuota(r)
  BY <1>0, <1>6 DEF PreConsumeTokenQuota, TakeToken
<1>7. CASE PreConsumeWallet(r)
  BY <1>0, <1>7 DEF PreConsumeWallet, TakeWallet, FundingFails, Fallback, Abandon
<1>8. CASE PreConsumeSubscription(r)
  BY ZenonT(60), <1>0, <1>8 DEF PreConsumeSubscription, FundingFails, Fallback, Abandon
<1>27. CASE FindSubscription(r)
  BY ZenonT(60), <1>0, <1>27 DEF FindSubscription, FundingFails, Fallback, Abandon
<1>28. CASE ReadSubscription(r)
  BY <1>0, <1>28 DEF ReadSubscription
<1>9. CASE RollBackToken(r)
  BY <1>0, <1>9 DEF RollBackToken, TakeToken, Abandon
<1>10. CASE Reserve(r)
  BY <1>0, <1>10 DEF Reserve, ReserveTargets
<1>11. CASE ReserveFunding(r)
  BY <1>0, <1>11 DEF ReserveFunding, Refused, Take, TakeWallet, TakeSub, MoveSub, Consumed,
     Reserved
<1>12. CASE ReserveCheckToken(r)
  BY <1>0, <1>12 DEF ReserveCheckToken
<1>13. CASE ReserveToken(r)
  BY <1>0, <1>13 DEF ReserveToken, TakeToken, Reserved
<1>14. CASE RollbackFundingReserve(r)
  BY <1>0, <1>14 DEF RollbackFundingReserve, Take, TakeWallet, TakeSub, MoveSub,
     Consumed
<1>15. CASE Settle(r)
  BY <1>0, <1>15 DEF Settle
<1>16. CASE SettleFunding(r)
  BY <1>0, <1>16 DEF SettleFunding, Refused, Take, TakeWallet, TakeSub, MoveSub
<1>17. CASE SettleToken(r)
  BY <1>0, <1>17 DEF SettleToken, TakeToken
<1>18. CASE Refund(r)
  BY <1>0, <1>18 DEF Refund, NeedsRefund
<1>19. CASE SkipRefund(r)
  BY <1>0, <1>19 DEF SkipRefund
<1>20. CASE RefundWallet(r)
  BY <1>0, <1>20 DEF RefundWallet, TakeWallet, AfterRefund, AfterExtra
<1>21. CASE RefundSubscription(r)
  BY <1>0, <1>21 DEF RefundSubscription, MoveSub, RetryRefund, AfterRefund, AfterExtra
<1>22. CASE RefundExtra(r)
  BY <1>0, <1>22 DEF RefundExtra, TakeSub, MoveSub, AfterExtra
<1>23. CASE RefundToken(r)
  BY <1>0, <1>23 DEF RefundToken, TakeToken
<1>24. CASE ChargeViolationFee(r)
  BY <1>0, <1>24 DEF ChargeViolationFee
<1>25. CASE PostConsumeFunding(r)
  BY <1>0, <1>25 DEF PostConsumeFunding, Refused, Take, TakeWallet, TakeSub, MoveSub
<1>26. CASE PostConsumeToken(r)
  BY <1>0, <1>26 DEF PostConsumeToken, TakeToken
<1>. QED
  BY <1>1, <1>2, <1>3, <1>4, <1>5, <1>6, <1>7, <1>8, <1>9, <1>10, <1>11, <1>12,
     <1>13, <1>14, <1>15, <1>16, <1>17, <1>18, <1>19, <1>20, <1>21, <1>22, <1>23, <1>24,
     <1>25, <1>26, <1>27, <1>28 DEF RequestStep

-----------------------------------------------------------------------------
(* What the steps that write do to their own request *)

NetMoves(r, w, t, s) ==
    /\ net'[r].wallet = net[r].wallet + w
    /\ net'[r].token = net[r].token + t
    /\ net'[r].sub = net[r].sub + s

FundMoves(r, n) ==
    \/ fund[r].src = "wallet" /\ NetMoves(r, n, 0, 0)
    \/ fund[r].src = "subscription" /\ NetMoves(r, 0, 0, n)

\* An error: nothing is written.
Hit(r) == net'[r] = net[r] /\ faults'[r] = faults[r] + 1

\* No error, and nothing is written.
Calm(r) == net'[r] = net[r] /\ faults'[r] = faults[r]

\* Reserve has raised the pre-consumed quota.
Raised(r) ==
    /\ sess'[r].pre = sess[r].pre + op[r].delta
    /\ sess'[r].tokenConsumed = sess[r].tokenConsumed + op[r].delta
    /\ sess'[r].extra = sess[r].extra + op[r].delta

\* preConsume has failed after the token was charged, or before.
Dropped(r) ==
    \/ /\ sess[r].tokenConsumed > 0 /\ req[r].kind # "playground"
       /\ pc'[r] = "rollToken" /\ op'[r].next \in {"tryWallet", "rejected"}
       /\ op'[r].delta = op[r].delta /\ op'[r].fee = op[r].fee /\ op'[r].tries = op[r].tries
       /\ UNCHANGED <<sess[r], flags[r], fund[r]>>
    \/ /\ sess[r].tokenConsumed = 0 \/ req[r].kind = "playground"
       /\ pc'[r] \in {"tryWallet", "rejected"}
       /\ sess'[r] = NoSess /\ fund'[r] = NoFund /\ flags'[r] = {} /\ op'[r] = NoOp

LEMMA StartEffect ==
    ASSUME TypeOK, NEW r \in Requests, Start(r)
    PROVE  /\ pc[r] = "idle" /\ pc'[r] \in {"trySub", "hasSub", "tryWallet"} /\ Calm(r)
           /\ UNCHANGED <<sess[r], flags[r], fund[r], op[r]>>
<1>1. Fields(r)
  BY FieldTypes
<1>2. /\ req[r] \in ReqType /\ sess[r] \in SessType /\ fund[r] \in FundType /\ op[r] \in OpType
      /\ net[r] \in NetType
  BY DEF TypeOK
<1>. QED
  BY <1>1, <1>2 DEF Start, FirstTry, NetMoves, Hit, Calm, GoTo, Quiet, NoError,
     DbError, Done, Fault, Frame, session, subs, ledgers, TypeOK, Fields, ReqType, SessType,
     FundType, OpType, NetType

LEMMA CheckTokenEffect ==
    ASSUME TypeOK, NEW r \in Requests, CheckToken(r)
    PROVE  /\ pc[r] = "checkToken" /\ UNCHANGED <<req[r], flags[r], fund[r], op[r]>>
           /\ \/ /\ req[r].kind = "playground" /\ pc'[r] = "preFunding" /\ Calm(r)
                 /\ sess'[r].tokenConsumed = op[r].delta
                 /\ sess'[r].pre = sess[r].pre /\ sess'[r].extra = sess[r].extra
              \/ /\ Metered(r) /\ pc'[r] \in {"rejected", "takeToken"} /\ Calm(r)
                 /\ UNCHANGED sess[r]
              \/ pc'[r] = "rejected" /\ Hit(r) /\ UNCHANGED sess[r]
<1>1. Fields(r)
  BY FieldTypes
<1>2. /\ req[r] \in ReqType /\ sess[r] \in SessType /\ fund[r] \in FundType /\ op[r] \in OpType
      /\ net[r] \in NetType
  BY DEF TypeOK
<1>. QED
  BY <1>1, <1>2 DEF CheckToken, NetMoves, Hit, Calm, GoTo, Quiet, NoError,
     DbError, Done, Fault, Frame, session, subs, ledgers, TypeOK, Fields, ReqType, SessType,
     FundType, OpType, NetType

LEMMA PreConsumeTokenQuotaEffect ==
    ASSUME TypeOK, NEW r \in Requests, PreConsumeTokenQuota(r)
    PROVE  /\ pc[r] = "takeToken" /\ UNCHANGED <<req[r], flags[r], fund[r], op[r]>>
           /\ \/ /\ pc'[r] = "preFunding" /\ faults'[r] = faults[r]
                 /\ NetMoves(r, 0, op[r].delta, 0)
                 /\ sess'[r].tokenConsumed = op[r].delta
                 /\ sess'[r].pre = sess[r].pre /\ sess'[r].extra = sess[r].extra
              \/ pc'[r] = "rejected" /\ Hit(r) /\ UNCHANGED sess[r]
<1>1. Fields(r)
  BY FieldTypes
<1>2. /\ req[r] \in ReqType /\ sess[r] \in SessType /\ fund[r] \in FundType /\ op[r] \in OpType
      /\ net[r] \in NetType
  BY DEF TypeOK
<1>. QED
  BY <1>1, <1>2 DEF PreConsumeTokenQuota, TakeToken, NetMoves, Hit, Calm, GoTo,
     Quiet, NoError, DbError, Done, Fault, Frame, session, subs, ledgers, TypeOK, Fields, ReqType,
     SessType, FundType, OpType, NetType

LEMMA PreConsumeWalletEffect ==
    ASSUME TypeOK, NEW r \in Requests, PreConsumeWallet(r)
    PROVE  /\ pc[r] = "preFunding" /\ fund[r].src = "wallet" /\ UNCHANGED req[r]
           /\ \/ /\ pc'[r] = "open" /\ faults'[r] = faults[r]
                 /\ NetMoves(r, op[r].delta, 0, 0)
                 /\ fund'[r].src = "wallet" /\ fund'[r].consumed = op[r].delta
                 /\ sess'[r].pre = op[r].delta /\ sess'[r].extra = sess[r].extra
                 /\ sess'[r].tokenConsumed = sess[r].tokenConsumed
                 /\ UNCHANGED <<flags[r], op[r]>>
              \/ Hit(r) /\ Dropped(r)
<1>1. Fields(r)
  BY FieldTypes
<1>2. /\ req[r] \in ReqType /\ sess[r] \in SessType /\ fund[r] \in FundType /\ op[r] \in OpType
      /\ net[r] \in NetType
  BY DEF TypeOK
<1>. QED
  BY <1>1, <1>2 DEF PreConsumeWallet, TakeWallet, FundingFails, Fallback,
     Abandon, Dropped, NetMoves, Hit, Calm, GoTo, Quiet, NoError, DbError, Done, Fault, Frame,
     session, subs, ledgers, TypeOK, Fields, ReqType, SessType, FundType, OpType, NetType

LEMMA FundingFailsEffect ==
    ASSUME TypeOK, NEW r \in Requests, NEW insufficient \in BOOLEAN, FundingFails(r, insufficient)
    PROVE  Dropped(r)
<1>1. Fields(r) /\ op[r] \in OpType
  BY FieldTypes DEF TypeOK
<1>. QED
  BY <1>1 DEF FundingFails, Fallback, Abandon, Dropped, GoTo, TypeOK, OpType, Fields

LEMMA FindSubscriptionEffect ==
    ASSUME TypeOK, NEW r \in Requests, FindSubscription(r)
    PROVE  /\ pc[r] = "preFunding" /\ fund[r].src = "subscription" /\ UNCHANGED req[r]
           /\ \/ SameSession(r)
              \/ (Calm(r) \/ Hit(r)) /\ Dropped(r)
<1>3. pc[r] = "preFunding" /\ fund[r].src = "subscription" /\ UNCHANGED req[r]
  BY DEF FindSubscription, Frame
<1>5. CASE Quiet /\ FundingFails(r, TRUE)
  BY <1>3, <1>5, FundingFailsEffect DEF Calm, Quiet, NoError, subs, ledgers
<1>6. CASE \E insufficient \in BOOLEAN : DbError(r) /\ FundingFails(r, insufficient)
  <2>1. Hit(r)
    BY <1>6, FieldTypes DEF Hit, DbError, Fault, subs, ledgers, TypeOK, Fields
  <2>. QED  BY <1>3, <1>6, <2>1, FundingFailsEffect
<1>7. CASE UNCHANGED ledgers /\ NoError /\ UNCHANGED pc /\ UNCHANGED session
  BY <1>3, <1>7 DEF SameSession, NoError, ledgers, session
<1>. QED  BY <1>5, <1>6, <1>7 DEF FindSubscription

LEMMA ReadSubscriptionEffect ==
    ASSUME TypeOK, NEW r \in Requests, ReadSubscription(r)
    PROVE  SameSession(r)
  BY DEF ReadSubscription, SameSession, Frame, NoError, ledgers, session

LEMMA PreConsumeSubscriptionEffect ==
    ASSUME TypeOK, NEW r \in Requests, PreConsumeSubscription(r)
    PROVE  /\ pc[r] = "preFunding" /\ fund[r].src = "subscription" /\ UNCHANGED req[r]
           /\ \/ /\ pc'[r] = "open" /\ faults'[r] = faults[r]
                 /\ NetMoves(r, 0, 0, op[r].delta)
                 /\ fund'[r].src = "subscription" /\ fund'[r].consumed = fund[r].consumed
                 /\ fund'[r].subPre = op[r].delta
                 /\ sess'[r].pre = op[r].delta /\ sess'[r].extra = sess[r].extra
                 /\ sess'[r].tokenConsumed = sess[r].tokenConsumed
                 /\ UNCHANGED <<flags[r], op[r]>>
              \/ (Calm(r) \/ Hit(r)) /\ Dropped(r)
<1>1. Fields(r)
  BY FieldTypes
<1>2. /\ req[r] \in ReqType /\ sess[r] \in SessType /\ fund[r] \in FundType /\ op[r] \in OpType
      /\ net[r] \in NetType
  BY DEF TypeOK
<1>3. pc[r] = "preFunding" /\ fund[r].src = "subscription" /\ UNCHANGED req[r]
  BY DEF PreConsumeSubscription, Frame
<1>6. CASE DbError(r) /\ FundingFails(r, FALSE)
  <2>1. Hit(r)
    BY <1>1, <1>6 DEF Hit, DbError, Fault, subs, ledgers, TypeOK, Fields
  <2>. QED  BY <1>3, <1>6, <2>1, FundingFailsEffect
<1>7. CASE /\ fund' = [fund EXCEPT ![r].subId = row[r].id, ![r].subPre = op[r].delta]
           /\ sess' = [sess EXCEPT ![r].pre = op[r].delta]
           /\ net' = [net EXCEPT ![r].sub = @ + op[r].delta]
           /\ GoTo(r, "open") /\ NoError /\ UNCHANGED <<flags, op>>
  <2>1. pc'[r] = "open" /\ faults'[r] = faults[r] /\ UNCHANGED <<flags[r], op[r]>>
    BY <1>7 DEF GoTo, NoError, TypeOK
  <2>2. NetMoves(r, 0, 0, op[r].delta)
    BY <1>1, <1>2, <1>7 DEF NetMoves, NetType, TypeOK, Fields
  <2>3. /\ fund'[r].src = "subscription" /\ fund'[r].consumed = fund[r].consumed
        /\ fund'[r].subPre = op[r].delta
    BY <1>2, <1>3, <1>7 DEF FundType, TypeOK
  <2>4. /\ sess'[r].pre = op[r].delta /\ sess'[r].extra = sess[r].extra
        /\ sess'[r].tokenConsumed = sess[r].tokenConsumed
    BY <1>2, <1>7 DEF SessType, TypeOK
  <2>. QED  BY <1>3, <2>1, <2>2, <2>3, <2>4
<1>. QED  BY <1>6, <1>7 DEF PreConsumeSubscription

LEMMA RollBackTokenEffect ==
    ASSUME TypeOK, NEW r \in Requests, RollBackToken(r)
    PROVE  /\ pc[r] = "rollToken" /\ pc'[r] = op[r].next /\ UNCHANGED req[r]
           /\ sess'[r] = NoSess /\ fund'[r] = NoFund /\ flags'[r] = {} /\ op'[r] = NoOp
           /\ \/ NetMoves(r, 0, -sess[r].tokenConsumed, 0) /\ faults'[r] = faults[r]
              \/ Hit(r)
<1>1. Fields(r)
  BY FieldTypes
<1>2. /\ req[r] \in ReqType /\ sess[r] \in SessType /\ fund[r] \in FundType /\ op[r] \in OpType
      /\ net[r] \in NetType
  BY DEF TypeOK
<1>. QED
  BY <1>1, <1>2 DEF RollBackToken, TakeToken, Abandon, NetMoves, Hit, Calm,
     GoTo, Quiet, NoError, DbError, Done, Fault, Frame, session, subs, ledgers, TypeOK, Fields,
     ReqType, SessType, FundType, OpType, NetType

LEMMA ReserveEffect ==
    ASSUME TypeOK, NEW r \in Requests, Reserve(r)
    PROVE  /\ pc[r] = "open" /\ pc'[r] = "rsvFunding" /\ flags[r] = {} /\ Calm(r)
           /\ UNCHANGED <<req[r], sess[r], flags[r], fund[r]>>
           /\ op'[r].delta > 0 /\ op'[r].actual = op[r].actual /\ op'[r].fee = op[r].fee
           /\ op'[r].tries = op[r].tries
<1>1. Fields(r)
  BY FieldTypes
<1>2. /\ req[r] \in ReqType /\ sess[r] \in SessType /\ fund[r] \in FundType /\ op[r] \in OpType
      /\ net[r] \in NetType
  BY DEF TypeOK
<1>. QED
  BY <1>1, <1>2, AmountAssumption DEF Reserve, ReserveTargets, Flags, NetMoves,
     Hit, Calm, GoTo, Quiet, NoError, DbError, Done, Fault, Frame, session, subs, ledgers, TypeOK,
     Fields, ReqType, SessType, FundType, OpType, NetType

LEMMA ReserveFundingEffect ==
    ASSUME TypeOK, NEW r \in Requests, ReserveFunding(r)
    PROVE  /\ pc[r] = "rsvFunding" /\ UNCHANGED <<req[r], flags[r], op[r]>>
           /\ \/ /\ FundMoves(r, op[r].delta) /\ faults'[r] = faults[r]
                 /\ fund'[r].src = fund[r].src /\ fund'[r].subPre = fund[r].subPre
                 /\ fund'[r].consumed = Consumed(r, op[r].delta)
                 /\ \/ Metered(r) /\ pc'[r] = "rsvCheck" /\ UNCHANGED sess[r]
                    \/ ~Metered(r) /\ pc'[r] = "open" /\ Raised(r)
              \/ (Calm(r) \/ Hit(r)) /\ pc'[r] = "open" /\ UNCHANGED <<sess[r], fund[r]>>
<1>1. Fields(r)
  BY FieldTypes
<1>2. /\ req[r] \in ReqType /\ sess[r] \in SessType /\ fund[r] \in FundType /\ op[r] \in OpType
      /\ net[r] \in NetType
  BY DEF TypeOK
<1>3. pc[r] = "rsvFunding" /\ UNCHANGED <<req[r], flags[r], op[r]>>
  BY DEF ReserveFunding, Refused, Frame
<1>4. CASE /\ Refused(r, op[r].delta) \/ DbError(r)
           /\ GoTo(r, "open") /\ UNCHANGED <<sess, fund>>
  BY <1>1, <1>3, <1>4 DEF Refused, Hit, Calm, GoTo, NoError, DbError, Done, Fault, subs, ledgers,
     TypeOK
<1>5. CASE /\ Take(r, op[r].delta) /\ NoError
           /\ fund' = [fund EXCEPT ![r].consumed = Consumed(r, op[r].delta)]
           /\ \/ Metered(r) /\ GoTo(r, "rsvCheck") /\ UNCHANGED sess
              \/ /\ ~Metered(r) /\ GoTo(r, "open")
                 /\ sess' = [sess EXCEPT ![r] = Reserved(@, op[r].delta)]
  <2>1. FundMoves(r, op[r].delta) /\ faults'[r] = faults[r]
    BY <1>1, <1>2, <1>5 DEF Take, TakeWallet, TakeSub, MoveSub, NoError, FundMoves,
       NetMoves,
       TypeOK, NetType, Fields
  <2>2. /\ fund'[r].src = fund[r].src /\ fund'[r].subPre = fund[r].subPre
        /\ fund'[r].consumed = Consumed(r, op[r].delta)
    BY <1>1, <1>2, <1>5 DEF TypeOK, FundType
  <2>3. CASE Metered(r) /\ GoTo(r, "rsvCheck") /\ UNCHANGED sess
    BY <1>3, <2>1, <2>2, <2>3 DEF GoTo, TypeOK
  <2>4. CASE /\ ~Metered(r) /\ GoTo(r, "open")
             /\ sess' = [sess EXCEPT ![r] = Reserved(@, op[r].delta)]
    <3>1. pc'[r] = "open" /\ sess'[r] = Reserved(sess[r], op[r].delta)
      BY <2>4 DEF GoTo, TypeOK
    <3>2. Raised(r)
      BY <1>1, <1>2, <3>1 DEF Raised, Reserved, SessType, Fields
    <3>. QED  BY <1>3, <2>1, <2>2, <2>4, <3>1, <3>2
  <2>. QED  BY <1>5, <2>3, <2>4
<1>. QED  BY <1>4, <1>5 DEF ReserveFunding, Refused

LEMMA ReserveTokenEffect ==
    ASSUME TypeOK, NEW r \in Requests, ReserveToken(r)
    PROVE  /\ pc[r] = "rsvTake" /\ UNCHANGED <<req[r], flags[r], fund[r], op[r]>>
           /\ \/ /\ pc'[r] = "open" /\ faults'[r] = faults[r]
                 /\ NetMoves(r, 0, op[r].delta, 0) /\ Raised(r)
              \/ pc'[r] = "rsvRoll" /\ Hit(r) /\ UNCHANGED sess[r]
<1>1. Fields(r)
  BY FieldTypes
<1>2. /\ req[r] \in ReqType /\ sess[r] \in SessType /\ fund[r] \in FundType /\ op[r] \in OpType
      /\ net[r] \in NetType
  BY DEF TypeOK
<1>3. pc[r] = "rsvTake" /\ UNCHANGED <<req[r], flags[r], fund[r], op[r]>>
  BY DEF ReserveToken, Frame
<1>4. CASE DbError(r) /\ GoTo(r, "rsvRoll") /\ UNCHANGED sess
  BY <1>1, <1>3, <1>4 DEF Hit, GoTo, DbError, Done, Fault, subs, ledgers, TypeOK
<1>5. CASE /\ TakeToken(r, op[r].delta) /\ NoError /\ GoTo(r, "open")
           /\ sess' = [sess EXCEPT ![r] = Reserved(@, op[r].delta)]
  <2>1. pc'[r] = "open" /\ faults'[r] = faults[r] /\ NetMoves(r, 0, op[r].delta, 0)
    BY <1>1, <1>2, <1>5 DEF TakeToken, NoError, GoTo, NetMoves, TypeOK, NetType, Fields
  <2>2. sess'[r] = Reserved(sess[r], op[r].delta)
    BY <1>5 DEF TypeOK
  <2>3. Raised(r)
    BY <1>1, <1>2, <2>2 DEF Raised, Reserved, SessType, Fields
  <2>. QED  BY <1>3, <2>1, <2>3
<1>. QED  BY <1>4, <1>5 DEF ReserveToken

LEMMA RollbackFundingReserveEffect ==
    ASSUME TypeOK, NEW r \in Requests, RollbackFundingReserve(r)
    PROVE  /\ pc[r] = "rsvRoll" /\ pc'[r] = "open"
           /\ UNCHANGED <<req[r], sess[r], flags[r], op[r]>>
           /\ \/ /\ FundMoves(r, -op[r].delta) /\ faults'[r] = faults[r]
                 /\ fund'[r].src = fund[r].src /\ fund'[r].subPre = fund[r].subPre
                 /\ fund'[r].consumed = Consumed(r, -op[r].delta)
              \/ Hit(r) /\ UNCHANGED fund[r]
<1>1. Fields(r)
  BY FieldTypes
<1>2. /\ req[r] \in ReqType /\ sess[r] \in SessType /\ fund[r] \in FundType /\ op[r] \in OpType
      /\ net[r] \in NetType
  BY DEF TypeOK
<1>. QED
  BY <1>1, <1>2 DEF RollbackFundingReserve, Take, TakeWallet, TakeSub, MoveSub,
     FundMoves, NetMoves, Hit, Calm, GoTo, Quiet, NoError, DbError, Done, Fault, Frame,
     session, subs, ledgers, TypeOK, Fields, ReqType, SessType, FundType, OpType, NetType

LEMMA SettleEffect ==
    ASSUME TypeOK, NEW r \in Requests, Settle(r)
    PROVE  /\ pc[r] = "open" /\ UNCHANGED <<req[r], sess[r], fund[r]>> /\ Calm(r)
           /\ \/ /\ Settled(r) /\ pc'[r] \in {"open", "failed", "end"}
                 /\ UNCHANGED <<flags[r], op[r]>>
              \/ /\ ~Settled(r) /\ pc'[r] \in {"open", "failed", "end"}
                 /\ flags'[r] = flags[r] \cup {"settled"} /\ op'[r].actual = sess[r].pre
                 /\ op'[r].fee = op[r].fee /\ op'[r].tries = op[r].tries
              \/ /\ ~Settled(r) /\ pc'[r] = "setFunding" /\ flags'[r] = flags[r]
                 /\ op'[r].delta = op'[r].actual - sess[r].pre /\ op'[r].actual \in Nat
                 /\ op'[r].next \in {"open", "failed", "end"}
                 /\ op'[r].fee = op[r].fee /\ op'[r].tries = op[r].tries
<1>1. Fields(r)
  BY FieldTypes
<1>2. /\ req[r] \in ReqType /\ sess[r] \in SessType /\ fund[r] \in FundType /\ op[r] \in OpType
      /\ net[r] \in NetType
  BY DEF TypeOK
<1>. QED
  BY <1>1, <1>2, AmountAssumption DEF Settle, NetMoves, Hit, Calm, GoTo, Quiet,
     NoError, DbError, Done, Fault, Frame, session, subs, ledgers, TypeOK, Fields, ReqType,
     SessType, FundType, OpType, NetType

LEMMA SettleFundingEffect ==
    ASSUME TypeOK, NEW r \in Requests, SettleFunding(r)
    PROVE  /\ pc[r] = "setFunding" /\ UNCHANGED <<req[r], sess[r], fund[r], op[r]>>
           /\ \/ /\ FundMoves(r, op[r].delta) /\ faults'[r] = faults[r]
                 /\ \/ Metered(r) /\ pc'[r] = "setToken" /\ flags'[r] = flags[r]
                    \/ /\ ~Metered(r) /\ pc'[r] = op[r].next
                       /\ flags'[r] = flags[r] \cup {"settled"}
              \/ (Calm(r) \/ Hit(r)) /\ pc'[r] = op[r].next /\ flags'[r] = flags[r]
<1>1. Fields(r)
  BY FieldTypes
<1>2. /\ req[r] \in ReqType /\ sess[r] \in SessType /\ fund[r] \in FundType /\ op[r] \in OpType
      /\ net[r] \in NetType
  BY DEF TypeOK
<1>. QED
  BY <1>1, <1>2 DEF SettleFunding, Refused, Take, TakeWallet, TakeSub, MoveSub,
     FundMoves, NetMoves, Hit, Calm, GoTo, Quiet, NoError, DbError, Done, Fault, Frame,
     session, subs, ledgers, TypeOK, Fields, ReqType, SessType, FundType, OpType, NetType

LEMMA SettleTokenEffect ==
    ASSUME TypeOK, NEW r \in Requests, SettleToken(r)
    PROVE  /\ pc[r] = "setToken" /\ pc'[r] = op[r].next
           /\ UNCHANGED <<req[r], sess[r], fund[r], op[r]>>
           /\ flags'[r] = flags[r] \cup {"settled"}
           /\ \/ NetMoves(r, 0, op[r].delta, 0) /\ faults'[r] = faults[r]
              \/ Hit(r)
<1>1. Fields(r)
  BY FieldTypes
<1>2. /\ req[r] \in ReqType /\ sess[r] \in SessType /\ fund[r] \in FundType /\ op[r] \in OpType
      /\ net[r] \in NetType
  BY DEF TypeOK
<1>. QED
  BY <1>1, <1>2 DEF SettleToken, TakeToken, NetMoves, Hit, Calm, GoTo, Quiet,
     NoError, DbError, Done, Fault, Frame, session, subs, ledgers, TypeOK, Fields, ReqType,
     SessType, FundType, OpType, NetType

LEMMA RefundWalletEffect ==
    ASSUME TypeOK, NEW r \in Requests, RefundWallet(r)
    PROVE  /\ pc[r] = "refFunding" /\ fund[r].src = "wallet" /\ pc'[r] = AfterRefund(r)
           /\ UNCHANGED <<req[r], sess[r], flags[r], fund[r], op[r]>>
           /\ \/ NetMoves(r, -fund[r].consumed, 0, 0) /\ faults'[r] = faults[r]
              \/ Hit(r)
<1>1. Fields(r)
  BY FieldTypes
<1>2. /\ req[r] \in ReqType /\ sess[r] \in SessType /\ fund[r] \in FundType /\ op[r] \in OpType
      /\ net[r] \in NetType
  BY DEF TypeOK
<1>. QED
  BY <1>1, <1>2 DEF RefundWallet, TakeWallet, NetMoves, Hit, Calm, GoTo, Quiet,
     NoError, DbError, Done, Fault, Frame, session, subs, ledgers, TypeOK, Fields, ReqType,
     SessType, FundType, OpType, NetType

LEMMA RefundSubscriptionEffect ==
    ASSUME TypeOK, NEW r \in Requests, RefundSubscription(r)
    PROVE  /\ pc[r] = "refFunding" /\ fund[r].src = "subscription"
           /\ UNCHANGED <<req[r], sess[r], flags[r], fund[r]>>
           /\ op'[r].delta = op[r].delta /\ op'[r].actual = op[r].actual
           /\ op'[r].fee = op[r].fee
           /\ \/ /\ NetMoves(r, 0, 0, -fund[r].subPre) /\ faults'[r] = faults[r]
                 /\ pc'[r] = AfterRefund(r) /\ op'[r].tries = op[r].tries
              \/ /\ Hit(r) \/ ("recordSave" \in Faults /\ faults'[r] > faults[r]
                              /\ NetMoves(r, 0, 0, -fund[r].subPre))
                 /\ op'[r].tries = op[r].tries + 1
                 /\ \/ op[r].tries + 1 < MaxRefundAttempts /\ pc'[r] = "refFunding"
                    \/ pc'[r] = AfterRefund(r)
<1>1. Fields(r)
  BY FieldTypes
<1>2. /\ req[r] \in ReqType /\ sess[r] \in SessType /\ fund[r] \in FundType /\ op[r] \in OpType
      /\ net[r] \in NetType
  BY DEF TypeOK
<1>. QED
  BY <1>1, <1>2 DEF RefundSubscription, MoveSub, RetryRefund, NetMoves, Hit,
     Calm, GoTo, Quiet, NoError, DbError, Done, Fault, Frame, session, subs, ledgers, TypeOK,
     Fields, ReqType, SessType, FundType, OpType, NetType

LEMMA RefundExtraEffect ==
    ASSUME TypeOK, NEW r \in Requests, RefundExtra(r)
    PROVE  /\ pc[r] = "refExtra" /\ pc'[r] = AfterExtra(r)
           /\ UNCHANGED <<req[r], sess[r], flags[r], fund[r], op[r]>>
           /\ \/ NetMoves(r, 0, 0, -sess[r].extra) /\ faults'[r] = faults[r]
              \/ Hit(r)
<1>1. Fields(r)
  BY FieldTypes
<1>2. /\ req[r] \in ReqType /\ sess[r] \in SessType /\ fund[r] \in FundType /\ op[r] \in OpType
      /\ net[r] \in NetType
  BY DEF TypeOK
<1>. QED
  BY <1>1, <1>2 DEF RefundExtra, TakeSub, MoveSub, NetMoves, Hit, Calm, GoTo,
     Quiet, NoError, DbError, Done, Fault, Frame, session, subs, ledgers, TypeOK, Fields, ReqType,
     SessType, FundType, OpType, NetType

LEMMA RefundTokenEffect ==
    ASSUME TypeOK, NEW r \in Requests, RefundToken(r)
    PROVE  /\ pc[r] = "refToken" /\ pc'[r] = "failed"
           /\ UNCHANGED <<req[r], sess[r], flags[r], fund[r], op[r]>>
           /\ \/ NetMoves(r, 0, -sess[r].tokenConsumed, 0) /\ faults'[r] = faults[r]
              \/ Hit(r)
<1>1. Fields(r)
  BY FieldTypes
<1>2. /\ req[r] \in ReqType /\ sess[r] \in SessType /\ fund[r] \in FundType /\ op[r] \in OpType
      /\ net[r] \in NetType
  BY DEF TypeOK
<1>. QED
  BY <1>1, <1>2 DEF RefundToken, TakeToken, NetMoves, Hit, Calm, GoTo, Quiet,
     NoError, DbError, Done, Fault, Frame, session, subs, ledgers, TypeOK, Fields, ReqType,
     SessType, FundType, OpType, NetType

LEMMA ChargeViolationFeeEffect ==
    ASSUME TypeOK, NEW r \in Requests, ChargeViolationFee(r)
    PROVE  /\ pc[r] = "failed" /\ UNCHANGED <<req[r], sess[r], flags[r], fund[r]>> /\ Calm(r)
           /\ \/ pc'[r] = "end" /\ UNCHANGED op[r]
              \/ /\ pc'[r] = "feeFunding" /\ op'[r].delta > 0 /\ op'[r].actual = op[r].actual
                 /\ op'[r].fee = op[r].fee
<1>1. Fields(r)
  BY FieldTypes
<1>2. /\ req[r] \in ReqType /\ sess[r] \in SessType /\ fund[r] \in FundType /\ op[r] \in OpType
      /\ net[r] \in NetType
  BY DEF TypeOK
<1>. QED
  BY <1>1, <1>2, AmountAssumption DEF ChargeViolationFee, NetMoves, Hit, Calm,
     GoTo, Quiet, NoError, DbError, Done, Fault, Frame, session, subs, ledgers, TypeOK, Fields,
     ReqType, SessType, FundType, OpType, NetType

LEMMA PostConsumeFundingEffect ==
    ASSUME TypeOK, NEW r \in Requests, PostConsumeFunding(r)
    PROVE  /\ pc[r] = "feeFunding" /\ UNCHANGED <<req[r], sess[r], flags[r], fund[r]>>
           /\ \/ /\ FundMoves(r, op[r].delta) /\ faults'[r] = faults[r]
                 /\ op'[r].fee = op[r].delta /\ op'[r].delta = op[r].delta
                 /\ op'[r].actual = op[r].actual
                 /\ pc'[r] = IF Metered(r) THEN "feeToken" ELSE "end"
              \/ (Calm(r) \/ Hit(r)) /\ pc'[r] = "end" /\ UNCHANGED op[r]
<1>1. Fields(r)
  BY FieldTypes
<1>2. /\ req[r] \in ReqType /\ sess[r] \in SessType /\ fund[r] \in FundType /\ op[r] \in OpType
      /\ net[r] \in NetType
  BY DEF TypeOK
<1>. QED
  BY <1>1, <1>2 DEF PostConsumeFunding, Refused, Take, TakeWallet, TakeSub, MoveSub,
     FundMoves, NetMoves, Hit, Calm, GoTo, Quiet, NoError, DbError, Done, Fault, Frame,
     session, subs, ledgers, TypeOK, Fields, ReqType, SessType, FundType, OpType, NetType

LEMMA PostConsumeTokenEffect ==
    ASSUME TypeOK, NEW r \in Requests, PostConsumeToken(r)
    PROVE  /\ pc[r] = "feeToken" /\ pc'[r] = "end"
           /\ UNCHANGED <<req[r], sess[r], flags[r], fund[r], op[r]>>
           /\ \/ NetMoves(r, 0, op[r].delta, 0) /\ faults'[r] = faults[r]
              \/ Hit(r)
<1>1. Fields(r)
  BY FieldTypes
<1>2. /\ req[r] \in ReqType /\ sess[r] \in SessType /\ fund[r] \in FundType /\ op[r] \in OpType
      /\ net[r] \in NetType
  BY DEF TypeOK
<1>. QED
  BY <1>1, <1>2 DEF PostConsumeToken, TakeToken, NetMoves, Hit, Calm, GoTo,
     Quiet, NoError, DbError, Done, Fault, Frame, session, subs, ledgers, TypeOK, Fields, ReqType,
     SessType, FundType, OpType, NetType

\* The session of a request keeps its shape.
LEMMA ShapeStep ==
    ASSUME BillingInv, NEW r \in Requests, RequestStep(r)
    PROVE  Shape(r)'
<1>. USE DEF Fields, Shape, FreshShape, OpeningShape, LiveShape, OperationShape, NoSess,
     NoFund, NoOp, Settled, Refunded, Metered, MaxRefundAttempts, Flags, AllKinds,
     Sources, Fresh, Opening, Reserving, Settling, Refunding, Closing, Live
<1>0. TypeOK /\ Fields(r) /\ Shape(r) /\ Ledger(r)
  BY FieldTypes DEF BillingInv
<1>1. CASE Start(r)
  BY <1>0, <1>1, StartEffect DEF Calm, Hit
<1>2. CASE HasActiveUserSubscription(r)
  BY <1>0, <1>2 DEF TypeOK, GoTo, Quiet, NoError, DbError, Done, Fault, Frame, session, subs, ledgers,
     HasActiveUserSubscription
<1>3. CASE TryWallet(r)
  BY <1>0, <1>3 DEF TypeOK, GoTo, Quiet, NoError, DbError, Done, Fault, Frame, session, subs, ledgers,
     TryWallet, BeginPreConsume, ShouldTrust
<1>4. CASE TrySubscription(r)
  BY <1>0, <1>4 DEF TypeOK, GoTo, Quiet, NoError, DbError, Done, Fault, Frame, session, subs, ledgers,
     TrySubscription, BeginPreConsume
<1>5. CASE CheckToken(r)
  BY <1>0, <1>5, CheckTokenEffect DEF Calm, Hit
<1>6. CASE PreConsumeTokenQuota(r)
  BY SMTT(30), <1>0, <1>6, PreConsumeTokenQuotaEffect DEF Calm, Hit
<1>7. CASE PreConsumeWallet(r)
  BY SMTT(30), <1>0, <1>7, PreConsumeWalletEffect DEF Dropped, Calm, Hit
<1>8. CASE PreConsumeSubscription(r)
  BY <1>0, <1>8, PreConsumeSubscriptionEffect DEF Dropped, Calm, Hit
<1>27. CASE FindSubscription(r)
  BY <1>0, <1>27, FindSubscriptionEffect, SameKept DEF Dropped, Calm, Hit
<1>28. CASE ReadSubscription(r)
  BY <1>0, <1>28, ReadSubscriptionEffect, SameKept
<1>9. CASE RollBackToken(r)
  BY <1>0, <1>9, RollBackTokenEffect DEF Calm, Hit
<1>10. CASE Reserve(r)
  BY <1>0, <1>10, ReserveEffect DEF Calm, Hit
<1>11. CASE ReserveFunding(r)
  BY <1>0, <1>11, ReserveFundingEffect DEF FundMoves, Raised, Consumed, Calm, Hit
<1>12. CASE ReserveCheckToken(r)
  BY <1>0, <1>12 DEF TypeOK, GoTo, Quiet, NoError, DbError, Done, Fault, Frame, session, subs, ledgers,
     ReserveCheckToken
<1>13. CASE ReserveToken(r)
  BY <1>0, <1>13, ReserveTokenEffect DEF Raised, Calm, Hit
<1>14. CASE RollbackFundingReserve(r)
  BY <1>0, <1>14, RollbackFundingReserveEffect DEF FundMoves, Consumed, Calm, Hit
<1>15. CASE Settle(r)
  BY <1>0, <1>15, SettleEffect DEF Calm, Hit
<1>16. CASE SettleFunding(r)
  BY <1>0, <1>16, SettleFundingEffect DEF FundMoves, Calm, Hit
<1>17. CASE SettleToken(r)
  BY <1>0, <1>17, SettleTokenEffect DEF Calm, Hit
<1>18. CASE Refund(r)
  BY <1>0, <1>18 DEF TypeOK, GoTo, Quiet, NoError, DbError, Done, Fault, Frame, session, subs, ledgers,
     Refund, NeedsRefund
<1>19. CASE SkipRefund(r)
  BY <1>0, <1>19 DEF TypeOK, GoTo, Quiet, NoError, DbError, Done, Fault, Frame, session, subs, ledgers,
     SkipRefund
<1>20. CASE RefundWallet(r)
  BY <1>0, <1>20, RefundWalletEffect DEF AfterRefund, AfterExtra, Calm, Hit
<1>21. CASE RefundSubscription(r)
  BY <1>0, <1>21, RefundSubscriptionEffect DEF AfterRefund, AfterExtra, Calm, Hit
<1>22. CASE RefundExtra(r)
  BY <1>0, <1>22, RefundExtraEffect DEF AfterExtra, Calm, Hit
<1>23. CASE RefundToken(r)
  BY <1>0, <1>23, RefundTokenEffect DEF Calm, Hit
<1>24. CASE ChargeViolationFee(r)
  BY <1>0, <1>24, ChargeViolationFeeEffect DEF Calm, Hit
<1>25. CASE PostConsumeFunding(r)
  BY <1>0, <1>25, PostConsumeFundingEffect DEF FundMoves, Calm, Hit
<1>26. CASE PostConsumeToken(r)
  BY <1>0, <1>26, PostConsumeTokenEffect DEF Calm, Hit
<1>. QED
  BY <1>1, <1>2, <1>3, <1>4, <1>5, <1>6, <1>7, <1>8, <1>9, <1>10, <1>11, <1>12,
     <1>13, <1>14, <1>15, <1>16, <1>17, <1>18, <1>19, <1>20, <1>21, <1>22, <1>23, <1>24,
     <1>25, <1>26, <1>27, <1>28 DEF RequestStep

\* Every step moves the ledgers by what its place in the code calls for.
LEMMA LedgerStep ==
    ASSUME BillingInv, NEW r \in Requests, RequestStep(r)
    PROVE  Ledger(r)'
<1>. USE DEF Fields, Settled, Refunded, Metered
<1>0. TypeOK /\ Fields(r) /\ Shape(r) /\ Ledger(r)
  BY FieldTypes DEF BillingInv
<1>00. Shape(r)'
  BY ShapeStep
<1>1. CASE Start(r)
  <2>1. pc[r] = "idle" /\ OwedFunding(r) = 0 /\ OwedToken(r) = 0
    BY <1>0, <1>1, StartEffect DEF OwedFunding, OwedToken, Fresh, Opening, Reserving,
       Settling, Refunding, Closing, Live
  <2>2. CASE pc'[r] \in {"trySub", "hasSub", "tryWallet"}
    <3>1. OwedFunding(r)' = 0 /\ OwedToken(r)' = 0
      BY <2>2 DEF OwedFunding, OwedToken, Fresh, Opening, Reserving, Settling,
         Refunding, Closing, Live
    <3>. QED  BY <1>0, <1>1, StartEffect, <1>00, <2>1, <2>2, <3>1 DEF NetMoves, Calm,
         Hit, Shape, FreshShape, OpeningShape, LiveShape, OperationShape, NoSess,
         NoFund, NoOp, Ledger, OtherLedgers, Covered, ConsumedExact, ExactLedgers, Due,
         Returnable, Fresh, Opening, Reserving, Settling, Refunding, Closing, Live
  <2>. QED  BY <1>0, <1>1, StartEffect, <2>1, <2>2 DEF Shape, OpeningShape,
       OperationShape, Fresh, Opening, Reserving, Settling, Refunding, Closing, Live
<1>2. CASE HasActiveUserSubscription(r)
  <2>1. pc[r] = "hasSub" /\ OwedFunding(r) = 0 /\ OwedToken(r) = 0
    BY <1>0, <1>2 DEF OwedFunding, OwedToken, HasActiveUserSubscription, Fresh, Opening,
       Reserving, Settling, Refunding, Closing, Live
  <2>2. CASE pc'[r] \in {"trySub", "tryWallet", "rejected"}
    <3>1. OwedFunding(r)' = 0 /\ OwedToken(r)' = 0
      BY <2>2 DEF OwedFunding, OwedToken, Fresh, Opening, Reserving, Settling,
         Refunding, Closing, Live
    <3>. QED  BY <1>0, <1>2, <1>00, <2>1, <2>2, <3>1 DEF HasActiveUserSubscription,
         TypeOK, GoTo, Quiet, NoError, DbError, Done, Fault, Frame, session, subs, ledgers,
         NetMoves, Calm, Hit, Shape, FreshShape, OpeningShape, LiveShape,
         OperationShape, NoSess, NoFund, NoOp, Ledger, OtherLedgers, Covered,
         ConsumedExact, ExactLedgers, Due, Returnable, Fresh, Opening, Reserving,
         Settling, Refunding, Closing, Live
  <2>. QED  BY <1>0, <1>2, <2>1, <2>2 DEF HasActiveUserSubscription, TypeOK, GoTo,
       Quiet, NoError, DbError, Done, Fault, Frame, session, subs, ledgers, Shape, OpeningShape,
       OperationShape, Fresh, Opening, Reserving, Settling, Refunding, Closing, Live
<1>3. CASE TryWallet(r)
  <2>1. pc[r] = "tryWallet" /\ OwedFunding(r) = 0 /\ OwedToken(r) = 0
    BY <1>0, <1>3 DEF OwedFunding, OwedToken, TryWallet, Fresh, Opening, Reserving,
       Settling, Refunding, Closing, Live
  <2>2. CASE pc'[r] \in {"checkToken", "trySub", "rejected"}
    <3>1. OwedFunding(r)' = 0 /\ OwedToken(r)' = 0
      BY <2>2 DEF OwedFunding, OwedToken, Fresh, Opening, Reserving, Settling,
         Refunding, Closing, Live
    <3>. QED  BY <1>0, <1>3, <1>00, <2>1, <2>2, <3>1 DEF TryWallet, BeginPreConsume,
         ShouldTrust, TypeOK, GoTo, Quiet, NoError, DbError, Done, Fault, Frame, session,
         subs, ledgers, NetMoves, Calm, Hit, Shape, FreshShape, OpeningShape, LiveShape,
         OperationShape, NoSess, NoFund, NoOp, Ledger, OtherLedgers, Covered,
         ConsumedExact, ExactLedgers, Due, Returnable, Fresh, Opening, Reserving,
         Settling, Refunding, Closing, Live
  <2>3. CASE pc'[r] = "preFunding"
    <3>1. OwedFunding(r)' = 0 /\ OwedToken(r)' = sess'[r].tokenConsumed
      BY <2>3 DEF OwedFunding, OwedToken, Fresh, Opening, Reserving, Settling,
         Refunding, Closing, Live
    <3>. QED  BY <1>0, <1>3, <1>00, <2>1, <2>3, <3>1 DEF TryWallet, BeginPreConsume,
         ShouldTrust, TypeOK, GoTo, Quiet, NoError, DbError, Done, Fault, Frame, session,
         subs, ledgers, NetMoves, Calm, Hit, Shape, FreshShape, OpeningShape, LiveShape,
         OperationShape, NoSess, NoFund, NoOp, Ledger, OtherLedgers, Covered,
         ConsumedExact, ExactLedgers, Due, Returnable, Fresh, Opening, Reserving,
         Settling, Refunding, Closing, Live
  <2>. QED  BY <1>0, <1>3, <2>1, <2>2, <2>3 DEF TryWallet, BeginPreConsume, ShouldTrust,
       TypeOK, GoTo, Quiet, NoError, DbError, Done, Fault, Frame, session, subs, ledgers, Shape,
       OpeningShape, OperationShape, Fresh, Opening, Reserving, Settling, Refunding,
       Closing, Live
<1>4. CASE TrySubscription(r)
  <2>1. pc[r] = "trySub" /\ OwedFunding(r) = 0 /\ OwedToken(r) = 0
    BY <1>0, <1>4 DEF OwedFunding, OwedToken, TrySubscription, Fresh, Opening,
       Reserving, Settling, Refunding, Closing, Live
  <2>2. CASE pc'[r] = "checkToken"
    <3>1. OwedFunding(r)' = 0 /\ OwedToken(r)' = 0
      BY <2>2 DEF OwedFunding, OwedToken, Fresh, Opening, Reserving, Settling,
         Refunding, Closing, Live
    <3>. QED  BY <1>0, <1>4, <1>00, <2>1, <2>2, <3>1 DEF TrySubscription,
         BeginPreConsume, TypeOK, GoTo, Quiet, NoError, DbError, Done, Fault, Frame, session,
         subs, ledgers, NetMoves, Calm, Hit, Shape, FreshShape, OpeningShape, LiveShape,
         OperationShape, NoSess, NoFund, NoOp, Ledger, OtherLedgers, Covered,
         ConsumedExact, ExactLedgers, Due, Returnable, Fresh, Opening, Reserving,
         Settling, Refunding, Closing, Live
  <2>3. CASE pc'[r] = "preFunding"
    <3>1. OwedFunding(r)' = 0 /\ OwedToken(r)' = sess'[r].tokenConsumed
      BY <2>3 DEF OwedFunding, OwedToken, Fresh, Opening, Reserving, Settling,
         Refunding, Closing, Live
    <3>. QED  BY <1>0, <1>4, <1>00, <2>1, <2>3, <3>1 DEF TrySubscription,
         BeginPreConsume, TypeOK, GoTo, Quiet, NoError, DbError, Done, Fault, Frame, session,
         subs, ledgers, NetMoves, Calm, Hit, Shape, FreshShape, OpeningShape, LiveShape,
         OperationShape, NoSess, NoFund, NoOp, Ledger, OtherLedgers, Covered,
         ConsumedExact, ExactLedgers, Due, Returnable, Fresh, Opening, Reserving,
         Settling, Refunding, Closing, Live
  <2>. QED  BY <1>0, <1>4, <2>1, <2>2, <2>3 DEF TrySubscription, BeginPreConsume,
       TypeOK, GoTo, Quiet, NoError, DbError, Done, Fault, Frame, session, subs, ledgers, Shape,
       OpeningShape, OperationShape, Fresh, Opening, Reserving, Settling, Refunding,
       Closing, Live
<1>5. CASE CheckToken(r)
  <2>1. pc[r] = "checkToken" /\ OwedFunding(r) = 0 /\ OwedToken(r) = 0
    BY <1>0, <1>5, CheckTokenEffect DEF OwedFunding, OwedToken, Fresh, Opening,
       Reserving, Settling, Refunding, Closing, Live
  <2>2. CASE pc'[r] = "preFunding"
    <3>1. OwedFunding(r)' = 0 /\ OwedToken(r)' = sess'[r].tokenConsumed
      BY <2>2 DEF OwedFunding, OwedToken, Fresh, Opening, Reserving, Settling,
         Refunding, Closing, Live
    <3>. QED  BY <1>0, <1>5, CheckTokenEffect, <1>00, <2>1, <2>2, <3>1 DEF NetMoves,
         Calm, Hit, Shape, FreshShape, OpeningShape, LiveShape, OperationShape, NoSess,
         NoFund, NoOp, Ledger, OtherLedgers, Covered, ConsumedExact, ExactLedgers, Due,
         Returnable, Fresh, Opening, Reserving, Settling, Refunding, Closing, Live
  <2>3. CASE pc'[r] \in {"rejected", "takeToken"}
    <3>1. OwedFunding(r)' = 0 /\ OwedToken(r)' = 0
      BY <2>3 DEF OwedFunding, OwedToken, Fresh, Opening, Reserving, Settling,
         Refunding, Closing, Live
    <3>. QED  BY <1>0, <1>5, CheckTokenEffect, <1>00, <2>1, <2>3, <3>1 DEF NetMoves,
         Calm, Hit, Shape, FreshShape, OpeningShape, LiveShape, OperationShape, NoSess,
         NoFund, NoOp, Ledger, OtherLedgers, Covered, ConsumedExact, ExactLedgers, Due,
         Returnable, Fresh, Opening, Reserving, Settling, Refunding, Closing, Live
  <2>. QED  BY <1>0, <1>5, CheckTokenEffect, <2>1, <2>2, <2>3 DEF Shape, OpeningShape,
       OperationShape, Fresh, Opening, Reserving, Settling, Refunding, Closing, Live
<1>6. CASE PreConsumeTokenQuota(r)
  <2>1. pc[r] = "takeToken" /\ OwedFunding(r) = 0 /\ OwedToken(r) = 0
    BY <1>0, <1>6, PreConsumeTokenQuotaEffect DEF OwedFunding, OwedToken, Fresh,
       Opening, Reserving, Settling, Refunding, Closing, Live
  <2>2. CASE pc'[r] = "preFunding"
    <3>1. OwedFunding(r)' = 0 /\ OwedToken(r)' = sess'[r].tokenConsumed
      BY <2>2 DEF OwedFunding, OwedToken, Fresh, Opening, Reserving, Settling,
         Refunding, Closing, Live
    <3>. QED  BY <1>0, <1>6, PreConsumeTokenQuotaEffect, <1>00, <2>1, <2>2, <3>1 DEF
         NetMoves, Calm, Hit, Shape, FreshShape, OpeningShape, LiveShape,
         OperationShape, NoSess, NoFund, NoOp, Ledger, OtherLedgers, Covered,
         ConsumedExact, ExactLedgers, Due, Returnable, Fresh, Opening, Reserving,
         Settling, Refunding, Closing, Live
  <2>3. CASE pc'[r] = "rejected"
    <3>1. OwedFunding(r)' = 0 /\ OwedToken(r)' = 0
      BY <2>3 DEF OwedFunding, OwedToken, Fresh, Opening, Reserving, Settling,
         Refunding, Closing, Live
    <3>. QED  BY <1>0, <1>6, PreConsumeTokenQuotaEffect, <1>00, <2>1, <2>3, <3>1 DEF
         NetMoves, Calm, Hit, Shape, FreshShape, OpeningShape, LiveShape,
         OperationShape, NoSess, NoFund, NoOp, Ledger, OtherLedgers, Covered,
         ConsumedExact, ExactLedgers, Due, Returnable, Fresh, Opening, Reserving,
         Settling, Refunding, Closing, Live
  <2>. QED  BY <1>0, <1>6, PreConsumeTokenQuotaEffect, <2>1, <2>2, <2>3 DEF Shape,
       OpeningShape, OperationShape, Fresh, Opening, Reserving, Settling, Refunding,
       Closing, Live
<1>7. CASE PreConsumeWallet(r)
  <2>1. pc[r] = "preFunding" /\ OwedFunding(r) = 0 /\ OwedToken(r) = sess[r].tokenConsumed
    BY <1>0, <1>7, PreConsumeWalletEffect DEF OwedFunding, OwedToken, Fresh, Opening,
       Reserving, Settling, Refunding, Closing, Live
  <2>0. /\ fund[r].src \in {"wallet", "subscription"} /\ sess[r].extra = 0
        /\ ~Settled(r) /\ ~Refunded(r) /\ op[r].delta >= 0 /\ op[r].fee = 0
        /\ Returnable(r) /\ (Metered(r) => sess[r].tokenConsumed = op[r].delta)
    BY <1>0, <2>1 DEF
       Sources, Shape, OpeningShape, LiveShape, OperationShape, Returnable, Due, Fresh,
       Opening, Reserving, Settling, Refunding, Closing, Live
  <2>2. CASE pc'[r] = "open"
    <3>1. OwedFunding(r)' = Due(r)' /\ OwedToken(r)' = Due(r)'
      BY <2>2 DEF OwedFunding, OwedToken, Fresh, Opening, Reserving, Settling,
         Refunding, Closing, Live
    <3>2. Returnable(r)' /\ Due(r)' = sess'[r].pre
      BY <1>0, <1>7, PreConsumeWalletEffect, <2>0, <2>1, <2>2 DEF Dropped, Calm, Hit,
         Due, Returnable, Closing, NoSess
    <3>3. OtherLedgers(r)'
      BY <1>0, <1>7, PreConsumeWalletEffect, <2>0, <2>1, <2>2, <3>1, <3>2 DEF Dropped,
         NetMoves, Calm, Hit, Ledger, OtherLedgers, Fresh, Opening
    <3>4. Covered(r)'
      <4>1. net'[r].wallet >= 0 /\ net'[r].token >= 0 /\ ("recordSave" \notin Faults => net'[r].sub >= 0)
        BY SMTT(30), <1>0, <1>7, PreConsumeWalletEffect, <2>0, <2>1, <2>2, <3>1, <3>2 DEF
           Dropped, NetMoves, Calm, Hit, Ledger, OtherLedgers, Covered, ConsumedExact,
           Opening, Live, Refunding, Reserving
      <4>2. Returnable(r)' /\ fund'[r].src = "wallet" => net'[r].wallet >= OwedFunding(r)'
        BY <1>0, <1>7, PreConsumeWalletEffect, <2>0, <2>1, <2>2, <3>1, <3>2 DEF
           Dropped, NetMoves, Calm, Hit, Ledger, OtherLedgers, Covered, ConsumedExact,
           Opening, Live, Refunding, Reserving
      <4>3. Returnable(r)' /\ fund'[r].src = "subscription" /\ "recordSave" \notin Faults =>
               net'[r].sub >= OwedFunding(r)'
        BY <1>0, <1>7, PreConsumeWalletEffect, <2>0, <2>1, <2>2, <3>1, <3>2 DEF
           Dropped, NetMoves, Calm, Hit, Ledger, OtherLedgers, Covered, ConsumedExact,
           Opening, Live, Refunding, Reserving
      <4>4. Returnable(r)' /\ Metered(r)' => net'[r].token >= OwedToken(r)'
        BY <1>0, <1>7, PreConsumeWalletEffect, <2>0, <2>1, <2>2, <3>1, <3>2 DEF
           Dropped, NetMoves, Calm, Hit, Ledger, OtherLedgers, Covered, ConsumedExact,
           Opening, Live, Refunding, Reserving
      <4>. QED  BY <4>1, <4>2, <4>3, <4>4 DEF Covered
    <3>5. ConsumedExact(r)'
      BY <1>0, <1>7, PreConsumeWalletEffect, <2>0, <2>1, <2>2, <3>1, <3>2 DEF Dropped,
         NetMoves, Calm, Hit, Ledger, OtherLedgers, ConsumedExact, Opening, Fresh,
         Opening, Reserving, Settling, Refunding, Closing, Live
    <3>6. ExactLedgers(r)'
      BY <1>0, <1>7, PreConsumeWalletEffect, <2>0, <2>1, <2>2, <3>1, <3>2 DEF Dropped,
         NetMoves, Calm, Hit, Ledger, OtherLedgers, ExactLedgers, ConsumedExact,
         Opening, Live, Refunding
    <3>. QED  BY <3>3, <3>4, <3>5, <3>6 DEF Ledger
  <2>3. CASE pc'[r] = "rollToken"
    <3>1. OwedFunding(r)' = 0 /\ OwedToken(r)' = sess'[r].tokenConsumed
      BY <2>3 DEF OwedFunding, OwedToken, Fresh, Opening, Reserving, Settling,
         Refunding, Closing, Live
    <3>. QED  BY <1>0, <1>7, PreConsumeWalletEffect, <1>00, <2>1, <2>3, <3>1 DEF
         Dropped, NetMoves, Calm, Hit, Shape, FreshShape, OpeningShape, LiveShape,
         OperationShape, NoSess, NoFund, NoOp, Ledger, OtherLedgers, Covered,
         ConsumedExact, ExactLedgers, Due, Returnable, Fresh, Opening, Reserving,
         Settling, Refunding, Closing, Live
  <2>4. CASE pc'[r] \in {"tryWallet", "rejected"}
    <3>1. OwedFunding(r)' = 0 /\ OwedToken(r)' = 0
      BY <2>4 DEF OwedFunding, OwedToken, Fresh, Opening, Reserving, Settling,
         Refunding, Closing, Live
    <3>. QED  BY <1>0, <1>7, PreConsumeWalletEffect, <1>00, <2>1, <2>4, <3>1 DEF
         Dropped, NetMoves, Calm, Hit, Shape, FreshShape, OpeningShape, LiveShape,
         OperationShape, NoSess, NoFund, NoOp, Ledger, OtherLedgers, Covered,
         ConsumedExact, ExactLedgers, Due, Returnable, Fresh, Opening, Reserving,
         Settling, Refunding, Closing, Live
  <2>. QED  BY <1>0, <1>7, PreConsumeWalletEffect, <2>1, <2>2, <2>3, <2>4 DEF Dropped,
       Shape, OpeningShape, OperationShape, Fresh, Opening, Reserving, Settling,
       Refunding, Closing, Live
<1>8. CASE PreConsumeSubscription(r)
  <2>1. pc[r] = "preFunding" /\ OwedFunding(r) = 0 /\ OwedToken(r) = sess[r].tokenConsumed
    BY <1>0, <1>8, PreConsumeSubscriptionEffect DEF OwedFunding, OwedToken, Fresh,
       Opening, Reserving, Settling, Refunding, Closing, Live
  <2>0. /\ fund[r].src \in {"wallet", "subscription"} /\ sess[r].extra = 0
        /\ ~Settled(r) /\ ~Refunded(r) /\ op[r].delta >= 0 /\ op[r].fee = 0
        /\ Returnable(r) /\ (Metered(r) => sess[r].tokenConsumed = op[r].delta)
    BY <1>0, <2>1 DEF
       Sources, Shape, OpeningShape, LiveShape, OperationShape, Returnable, Due, Fresh,
       Opening, Reserving, Settling, Refunding, Closing, Live
  <2>2. CASE pc'[r] = "open"
    <3>1. OwedFunding(r)' = Due(r)' /\ OwedToken(r)' = Due(r)'
      BY <2>2 DEF OwedFunding, OwedToken, Fresh, Opening, Reserving, Settling,
         Refunding, Closing, Live
    <3>2. Returnable(r)' /\ Due(r)' = sess'[r].pre /\ NetMoves(r, 0, 0, op[r].delta)
          /\ UNCHANGED req[r] /\ fund'[r].src = "subscription" /\ sess'[r].pre = op[r].delta
      BY <1>0, <1>8, PreConsumeSubscriptionEffect, <2>0, <2>1, <2>2 DEF Dropped, Calm,
         Hit, Due, Returnable, Closing, NoSess
    <3>3. OtherLedgers(r)'
      BY <1>0, <1>8, PreConsumeSubscriptionEffect, <2>0, <2>1, <2>2, <3>1, <3>2 DEF
         Dropped, NetMoves, Calm, Hit, Ledger, OtherLedgers, Fresh, Opening
    <3>4. Covered(r)'
      <4>1. net'[r].wallet >= 0 /\ net'[r].token >= 0 /\ ("recordSave" \notin Faults => net'[r].sub >= 0)
        BY <1>0, <2>0, <2>1, <2>2, <3>1, <3>2 DEF Dropped, NetMoves, Calm, Hit, Ledger,
           OtherLedgers, Covered, ConsumedExact, Opening, Live, Refunding, Reserving
      <4>2. Returnable(r)' /\ fund'[r].src = "wallet" => net'[r].wallet >= OwedFunding(r)'
        BY <1>0, <2>0, <2>1, <2>2, <3>1, <3>2 DEF Dropped, NetMoves, Calm, Hit, Ledger,
           OtherLedgers, Covered, ConsumedExact, Opening, Live, Refunding, Reserving
      <4>3. Returnable(r)' /\ fund'[r].src = "subscription" /\ "recordSave" \notin Faults =>
               net'[r].sub >= OwedFunding(r)'
        BY <1>0, <2>0, <2>1, <2>2, <3>1, <3>2 DEF Dropped, NetMoves, Calm, Hit, Ledger,
           OtherLedgers, Covered, ConsumedExact, Opening, Live, Refunding, Reserving
      <4>4. Returnable(r)' /\ Metered(r)' => net'[r].token >= OwedToken(r)'
        BY <1>0, <2>0, <2>1, <2>2, <3>1, <3>2 DEF Dropped, NetMoves, Calm, Hit, Ledger,
           OtherLedgers, Covered, ConsumedExact, Opening, Live, Refunding, Reserving
      <4>. QED  BY <4>1, <4>2, <4>3, <4>4 DEF Covered
    <3>5. ConsumedExact(r)'
      BY <1>0, <1>8, PreConsumeSubscriptionEffect, <2>0, <2>1, <2>2, <3>1, <3>2 DEF
         Dropped, NetMoves, Calm, Hit, Ledger, OtherLedgers, ConsumedExact, Opening,
         Fresh, Opening, Reserving, Settling, Refunding, Closing, Live
    <3>6. ExactLedgers(r)'
      BY <1>0, <1>8, PreConsumeSubscriptionEffect, <2>0, <2>1, <2>2, <3>1, <3>2 DEF
         Dropped, NetMoves, Calm, Hit, Ledger, OtherLedgers, ExactLedgers,
         ConsumedExact, Opening, Live, Refunding
    <3>. QED  BY <3>3, <3>4, <3>5, <3>6 DEF Ledger
  <2>3. CASE pc'[r] = "rollToken"
    <3>1. OwedFunding(r)' = 0 /\ OwedToken(r)' = sess'[r].tokenConsumed
      BY <2>3 DEF OwedFunding, OwedToken, Fresh, Opening, Reserving, Settling,
         Refunding, Closing, Live
    <3>. QED  BY <1>0, <1>8, PreConsumeSubscriptionEffect, <1>00, <2>1, <2>3, <3>1 DEF
         Dropped, NetMoves, Calm, Hit, Shape, FreshShape, OpeningShape, LiveShape,
         OperationShape, NoSess, NoFund, NoOp, Ledger, OtherLedgers, Covered,
         ConsumedExact, ExactLedgers, Due, Returnable, Fresh, Opening, Reserving,
         Settling, Refunding, Closing, Live
  <2>4. CASE pc'[r] \in {"tryWallet", "rejected"}
    <3>1. OwedFunding(r)' = 0 /\ OwedToken(r)' = 0
      BY <2>4 DEF OwedFunding, OwedToken, Fresh, Opening, Reserving, Settling,
         Refunding, Closing, Live
    <3>. QED  BY <1>0, <1>8, PreConsumeSubscriptionEffect, <1>00, <2>1, <2>4, <3>1 DEF
         Dropped, NetMoves, Calm, Hit, Shape, FreshShape, OpeningShape, LiveShape,
         OperationShape, NoSess, NoFund, NoOp, Ledger, OtherLedgers, Covered,
         ConsumedExact, ExactLedgers, Due, Returnable, Fresh, Opening, Reserving,
         Settling, Refunding, Closing, Live
  <2>. QED  BY <1>0, <1>8, PreConsumeSubscriptionEffect, <2>1, <2>2, <2>3, <2>4 DEF
       Dropped, Shape, OpeningShape, OperationShape, Fresh, Opening, Reserving,
       Settling, Refunding, Closing, Live
<1>27. CASE FindSubscription(r)
  <2>1. pc[r] = "preFunding" /\ OwedFunding(r) = 0 /\ OwedToken(r) = sess[r].tokenConsumed
    BY <1>0, <1>27, FindSubscriptionEffect DEF OwedFunding, OwedToken, Fresh,
       Opening, Reserving, Settling, Refunding, Closing, Live
  <2>0. /\ fund[r].src \in {"wallet", "subscription"} /\ sess[r].extra = 0
        /\ ~Settled(r) /\ ~Refunded(r) /\ op[r].delta >= 0 /\ op[r].fee = 0
        /\ Returnable(r) /\ (Metered(r) => sess[r].tokenConsumed = op[r].delta)
    BY <1>0, <2>1 DEF
       Sources, Shape, OpeningShape, LiveShape, OperationShape, Returnable, Due, Fresh,
       Opening, Reserving, Settling, Refunding, Closing, Live
  <2>2. CASE SameSession(r)
    BY <1>0, <2>2, SameKept
  <2>3. CASE pc'[r] = "rollToken"
    <3>1. OwedFunding(r)' = 0 /\ OwedToken(r)' = sess'[r].tokenConsumed
      BY <2>3 DEF OwedFunding, OwedToken, Fresh, Opening, Reserving, Settling,
         Refunding, Closing, Live
    <3>. QED  BY <1>0, <1>27, FindSubscriptionEffect, <1>00, <2>1, <2>3, <3>1 DEF
         SameSession, Dropped, NetMoves, Calm, Hit, Shape, FreshShape, OpeningShape, LiveShape,
         OperationShape, NoSess, NoFund, NoOp, Ledger, OtherLedgers, Covered,
         ConsumedExact, ExactLedgers, Due, Returnable, Fresh, Opening, Reserving,
         Settling, Refunding, Closing, Live
  <2>4. CASE pc'[r] \in {"tryWallet", "rejected"}
    <3>1. OwedFunding(r)' = 0 /\ OwedToken(r)' = 0
      BY <2>4 DEF OwedFunding, OwedToken, Fresh, Opening, Reserving, Settling,
         Refunding, Closing, Live
    <3>. QED  BY <1>0, <1>27, FindSubscriptionEffect, <1>00, <2>1, <2>4, <3>1 DEF
         SameSession, Dropped, NetMoves, Calm, Hit, Shape, FreshShape, OpeningShape, LiveShape,
         OperationShape, NoSess, NoFund, NoOp, Ledger, OtherLedgers, Covered,
         ConsumedExact, ExactLedgers, Due, Returnable, Fresh, Opening, Reserving,
         Settling, Refunding, Closing, Live
  <2>. QED  BY <1>0, <1>27, FindSubscriptionEffect, <2>1, <2>2, <2>3, <2>4 DEF
       Dropped, Shape, OpeningShape, OperationShape, Fresh, Opening, Reserving,
       Settling, Refunding, Closing, Live
<1>28. CASE ReadSubscription(r)
  BY <1>0, <1>28, ReadSubscriptionEffect, SameKept
<1>9. CASE RollBackToken(r)
  <2>1. pc[r] = "rollToken" /\ OwedFunding(r) = 0 /\ OwedToken(r) = sess[r].tokenConsumed
    BY <1>0, <1>9, RollBackTokenEffect DEF OwedFunding, OwedToken, Fresh, Opening,
       Reserving, Settling, Refunding, Closing, Live
  <2>2. CASE pc'[r] \in {"tryWallet", "rejected"}
    <3>1. OwedFunding(r)' = 0 /\ OwedToken(r)' = 0
      BY <2>2 DEF OwedFunding, OwedToken, Fresh, Opening, Reserving, Settling,
         Refunding, Closing, Live
    <3>. QED  BY <1>0, <1>9, RollBackTokenEffect, <1>00, <2>1, <2>2, <3>1 DEF NetMoves,
         Calm, Hit, Shape, FreshShape, OpeningShape, LiveShape, OperationShape, NoSess,
         NoFund, NoOp, Ledger, OtherLedgers, Covered, ConsumedExact, ExactLedgers, Due,
         Returnable, Fresh, Opening, Reserving, Settling, Refunding, Closing, Live
  <2>. QED  BY <1>0, <1>9, RollBackTokenEffect, <2>1, <2>2 DEF Shape, OpeningShape,
       OperationShape, Fresh, Opening, Reserving, Settling, Refunding, Closing, Live
<1>10. CASE Reserve(r)
  <2>1. pc[r] = "open" /\ OwedFunding(r) = Due(r) /\ OwedToken(r) = Due(r)
    BY <1>0, <1>10, ReserveEffect DEF OwedFunding, OwedToken, Fresh, Opening, Reserving,
       Settling, Refunding, Closing, Live
  <2>2. CASE pc'[r] = "rsvFunding"
    <3>1. OwedFunding(r)' = Due(r)' /\ OwedToken(r)' = Due(r)'
      BY <2>2 DEF OwedFunding, OwedToken, Fresh, Opening, Reserving, Settling,
         Refunding, Closing, Live
    <3>. QED  BY <1>0, <1>10, ReserveEffect, <1>00, <2>1, <2>2, <3>1 DEF NetMoves, Calm,
         Hit, Shape, FreshShape, OpeningShape, LiveShape, OperationShape, NoSess,
         NoFund, NoOp, Ledger, OtherLedgers, Covered, ConsumedExact, ExactLedgers, Due,
         Returnable, Fresh, Opening, Reserving, Settling, Refunding, Closing, Live
  <2>. QED  BY <1>0, <1>10, ReserveEffect, <2>1, <2>2 DEF Shape, OpeningShape,
       OperationShape, Fresh, Opening, Reserving, Settling, Refunding, Closing, Live
<1>11. CASE ReserveFunding(r)
  <2>1. pc[r] = "rsvFunding" /\ OwedFunding(r) = Due(r) /\ OwedToken(r) = Due(r)
    BY <1>0, <1>11, ReserveFundingEffect DEF OwedFunding, OwedToken, Fresh, Opening,
       Reserving, Settling, Refunding, Closing, Live
  <2>0. /\ fund[r].src \in {"wallet", "subscription"}
        /\ fund[r].src = "subscription" => sess[r].pre = fund[r].subPre + sess[r].extra
        /\ Metered(r) => sess[r].tokenConsumed = sess[r].pre
        /\ ~Settled(r) /\ Returnable(r)
        /\ ~Refunded(r) /\ op[r].fee = 0 /\ op[r].delta > 0
        /\ Due(r) = sess[r].pre
    BY <1>0, <2>1 DEF
       Sources, Shape, OpeningShape, LiveShape, OperationShape, Returnable, Due, Fresh,
       Opening, Reserving, Settling, Refunding, Closing, Live
  <2>2. CASE pc'[r] = "rsvCheck"
    <3>1. OwedFunding(r)' = sess'[r].pre + op'[r].delta /\ OwedToken(r)' = sess'[r].pre
      BY <2>2 DEF OwedFunding, OwedToken, Fresh, Opening, Reserving, Settling,
         Refunding, Closing, Live
    <3>2. Returnable(r)'
      BY <1>0, <1>11, ReserveFundingEffect, <2>0, <2>1, <2>2 DEF FundMoves, Raised,
         Consumed, Calm, Hit, Due, Returnable, Closing, NoSess
    <3>3. OtherLedgers(r)'
      BY <1>0, <1>11, ReserveFundingEffect, <2>0, <2>1, <2>2, <3>1, <3>2 DEF FundMoves,
         Raised, Consumed, NetMoves, Calm, Hit, Ledger, OtherLedgers, Fresh, Opening
    <3>4. Covered(r)'
      BY SMTT(30), <1>0, <1>11, ReserveFundingEffect, <2>0, <2>1, <2>2, <3>1, <3>2 DEF FundMoves,
         Raised, Consumed, NetMoves, Calm, Hit, Ledger, OtherLedgers, Covered,
         ConsumedExact, Opening, Live, Refunding, Reserving
    <3>5. ConsumedExact(r)'
      BY <1>0, <1>11, ReserveFundingEffect, <2>0, <2>1, <2>2, <3>1, <3>2 DEF FundMoves,
         Raised, Consumed, NetMoves, Calm, Hit, Ledger, OtherLedgers, ConsumedExact,
         Opening, Fresh, Opening, Reserving, Settling, Refunding, Closing, Live
    <3>6. ExactLedgers(r)'
      BY <1>0, <1>11, ReserveFundingEffect, <2>0, <2>1, <2>2, <3>1, <3>2 DEF FundMoves,
         Raised, Consumed, NetMoves, Calm, Hit, Ledger, OtherLedgers, ExactLedgers,
         ConsumedExact, Opening, Live, Refunding
    <3>. QED  BY <3>3, <3>4, <3>5, <3>6 DEF Ledger
  <2>3. CASE pc'[r] = "open"
    <3>1. OwedFunding(r)' = Due(r)' /\ OwedToken(r)' = Due(r)'
      BY <2>3 DEF OwedFunding, OwedToken, Fresh, Opening, Reserving, Settling,
         Refunding, Closing, Live
    <3>2. Returnable(r)' /\ Due(r)' = sess'[r].pre
      BY <1>0, <1>11, ReserveFundingEffect, <2>0, <2>1, <2>3 DEF FundMoves, Raised,
         Consumed, Calm, Hit, Due, Returnable, Closing, NoSess
    <3>3. OtherLedgers(r)'
      BY <1>0, <1>11, ReserveFundingEffect, <2>0, <2>1, <2>3, <3>1, <3>2 DEF FundMoves,
         Raised, Consumed, NetMoves, Calm, Hit, Ledger, OtherLedgers, Fresh, Opening
    <3>4. Covered(r)'
      BY SMTT(30), <1>0, <1>11, ReserveFundingEffect, <2>0, <2>1, <2>3, <3>1, <3>2 DEF FundMoves,
         Raised, Consumed, NetMoves, Calm, Hit, Ledger, OtherLedgers, Covered,
         ConsumedExact, Opening, Live, Refunding, Reserving
    <3>5. ConsumedExact(r)'
      BY <1>0, <1>11, ReserveFundingEffect, <2>0, <2>1, <2>3, <3>1, <3>2 DEF FundMoves,
         Raised, Consumed, NetMoves, Calm, Hit, Ledger, OtherLedgers, ConsumedExact,
         Opening, Fresh, Opening, Reserving, Settling, Refunding, Closing, Live
    <3>6. ExactLedgers(r)'
      BY <1>0, <1>11, ReserveFundingEffect, <2>0, <2>1, <2>3, <3>1, <3>2 DEF FundMoves,
         Raised, Consumed, NetMoves, Calm, Hit, Ledger, OtherLedgers, ExactLedgers,
         ConsumedExact, Opening, Live, Refunding
    <3>. QED  BY <3>3, <3>4, <3>5, <3>6 DEF Ledger
  <2>. QED  BY <1>0, <1>11, ReserveFundingEffect, <2>1, <2>2, <2>3 DEF Shape,
       OpeningShape, OperationShape, Fresh, Opening, Reserving, Settling, Refunding,
       Closing, Live
<1>12. CASE ReserveCheckToken(r)
  <2>1. pc[r] = "rsvCheck" /\ OwedFunding(r) = sess[r].pre + op[r].delta /\ OwedToken(r) = sess[r].pre
    BY <1>0, <1>12 DEF OwedFunding, OwedToken, ReserveCheckToken, Fresh, Opening,
       Reserving, Settling, Refunding, Closing, Live
  <2>2. CASE pc'[r] \in {"rsvRoll", "rsvTake"}
    <3>1. OwedFunding(r)' = sess'[r].pre + op'[r].delta /\ OwedToken(r)' = sess'[r].pre
      BY <2>2 DEF OwedFunding, OwedToken, Fresh, Opening, Reserving, Settling,
         Refunding, Closing, Live
    <3>. QED  BY <1>0, <1>12, <1>00, <2>1, <2>2, <3>1 DEF ReserveCheckToken, TypeOK,
         GoTo, Quiet, NoError, DbError, Done, Fault, Frame, session, subs, ledgers, NetMoves, Calm,
         Hit, Shape, FreshShape, OpeningShape, LiveShape, OperationShape, NoSess,
         NoFund, NoOp, Ledger, OtherLedgers, Covered, ConsumedExact, ExactLedgers, Due,
         Returnable, Fresh, Opening, Reserving, Settling, Refunding, Closing, Live
  <2>. QED  BY <1>0, <1>12, <2>1, <2>2 DEF ReserveCheckToken, TypeOK, GoTo, Quiet,
       NoError, DbError, Done, Fault, Frame, session, subs, ledgers, Shape, OpeningShape,
       OperationShape, Fresh, Opening, Reserving, Settling, Refunding, Closing, Live
<1>13. CASE ReserveToken(r)
  <2>1. pc[r] = "rsvTake" /\ OwedFunding(r) = sess[r].pre + op[r].delta /\ OwedToken(r) = sess[r].pre
    BY <1>0, <1>13, ReserveTokenEffect DEF OwedFunding, OwedToken, Fresh, Opening,
       Reserving, Settling, Refunding, Closing, Live
  <2>0. /\ fund[r].src \in {"wallet", "subscription"}
        /\ fund[r].src = "subscription" => sess[r].pre = fund[r].subPre + sess[r].extra
        /\ Metered(r) => sess[r].tokenConsumed = sess[r].pre
        /\ ~Settled(r) /\ Returnable(r)
        /\ ~Refunded(r) /\ op[r].fee = 0 /\ op[r].delta > 0 /\ Metered(r)
    BY <1>0, <2>1 DEF
       Sources, Shape, OpeningShape, LiveShape, OperationShape, Returnable, Due, Fresh,
       Opening, Reserving, Settling, Refunding, Closing, Live
  <2>2. CASE pc'[r] = "open"
    <3>1. OwedFunding(r)' = Due(r)' /\ OwedToken(r)' = Due(r)'
      BY <2>2 DEF OwedFunding, OwedToken, Fresh, Opening, Reserving, Settling,
         Refunding, Closing, Live
    <3>2. Returnable(r)' /\ Due(r)' = sess'[r].pre
      BY <1>0, <1>13, ReserveTokenEffect, <2>0, <2>1, <2>2 DEF Raised, Calm, Hit, Due,
         Returnable, Closing, NoSess
    <3>3. OtherLedgers(r)'
      BY <1>0, <1>13, ReserveTokenEffect, <2>0, <2>1, <2>2, <3>1, <3>2 DEF Raised,
         NetMoves, Calm, Hit, Ledger, OtherLedgers, Fresh, Opening
    <3>4. Covered(r)'
      BY <1>0, <1>13, ReserveTokenEffect, <2>0, <2>1, <2>2, <3>1, <3>2 DEF Raised,
         NetMoves, Calm, Hit, Ledger, OtherLedgers, Covered, ConsumedExact, Opening,
         Live, Refunding, Reserving
    <3>5. ConsumedExact(r)'
      BY <1>0, <1>13, ReserveTokenEffect, <2>0, <2>1, <2>2, <3>1, <3>2 DEF Raised,
         NetMoves, Calm, Hit, Ledger, OtherLedgers, ConsumedExact, Opening, Fresh,
         Opening, Reserving, Settling, Refunding, Closing, Live
    <3>6. ExactLedgers(r)'
      BY <1>0, <1>13, ReserveTokenEffect, <2>0, <2>1, <2>2, <3>1, <3>2 DEF Raised,
         NetMoves, Calm, Hit, Ledger, OtherLedgers, ExactLedgers, ConsumedExact,
         Opening, Live, Refunding
    <3>. QED  BY <3>3, <3>4, <3>5, <3>6 DEF Ledger
  <2>3. CASE pc'[r] = "rsvRoll"
    <3>1. OwedFunding(r)' = sess'[r].pre + op'[r].delta /\ OwedToken(r)' = sess'[r].pre
      BY <2>3 DEF OwedFunding, OwedToken, Fresh, Opening, Reserving, Settling,
         Refunding, Closing, Live
    <3>. QED  BY <1>0, <1>13, ReserveTokenEffect, <1>00, <2>1, <2>3, <3>1 DEF Raised,
         NetMoves, Calm, Hit, Shape, FreshShape, OpeningShape, LiveShape,
         OperationShape, NoSess, NoFund, NoOp, Ledger, OtherLedgers, Covered,
         ConsumedExact, ExactLedgers, Due, Returnable, Fresh, Opening, Reserving,
         Settling, Refunding, Closing, Live
  <2>. QED  BY <1>0, <1>13, ReserveTokenEffect, <2>1, <2>2, <2>3 DEF Shape,
       OpeningShape, OperationShape, Fresh, Opening, Reserving, Settling, Refunding,
       Closing, Live
<1>14. CASE RollbackFundingReserve(r)
  <2>1. pc[r] = "rsvRoll" /\ OwedFunding(r) = sess[r].pre + op[r].delta /\ OwedToken(r) = sess[r].pre
    BY <1>0, <1>14, RollbackFundingReserveEffect DEF OwedFunding, OwedToken, Fresh,
       Opening, Reserving, Settling, Refunding, Closing, Live
  <2>0. /\ fund[r].src \in {"wallet", "subscription"}
        /\ fund[r].src = "subscription" => sess[r].pre = fund[r].subPre + sess[r].extra
        /\ Metered(r) => sess[r].tokenConsumed = sess[r].pre
        /\ ~Settled(r) /\ Returnable(r)
        /\ ~Refunded(r) /\ op[r].fee = 0 /\ op[r].delta > 0 /\ Metered(r)
    BY <1>0, <2>1 DEF
       Sources, Shape, OpeningShape, LiveShape, OperationShape, Returnable, Due, Fresh,
       Opening, Reserving, Settling, Refunding, Closing, Live
  <2>2. CASE pc'[r] = "open"
    <3>1. OwedFunding(r)' = Due(r)' /\ OwedToken(r)' = Due(r)'
      BY <2>2 DEF OwedFunding, OwedToken, Fresh, Opening, Reserving, Settling,
         Refunding, Closing, Live
    <3>2. Returnable(r)' /\ Due(r)' = sess'[r].pre
      BY <1>0, <1>14, RollbackFundingReserveEffect, <2>0, <2>1, <2>2 DEF FundMoves,
         Consumed, Calm, Hit, Due, Returnable, Closing, NoSess
    <3>3. OtherLedgers(r)'
      BY <1>0, <1>14, RollbackFundingReserveEffect, <2>0, <2>1, <2>2, <3>1, <3>2 DEF
         FundMoves, Consumed, NetMoves, Calm, Hit, Ledger, OtherLedgers, Fresh, Opening
    <3>4. Covered(r)'
      <4>1. net'[r].wallet >= 0 /\ net'[r].token >= 0 /\ ("recordSave" \notin Faults => net'[r].sub >= 0)
        BY <1>0, <1>14, RollbackFundingReserveEffect, <2>0, <2>1, <2>2, <3>1, <3>2 DEF
           FundMoves, Consumed, NetMoves, Calm, Hit, Ledger, OtherLedgers, Covered,
           ConsumedExact, Opening, Live, Refunding, Reserving
      <4>2. Returnable(r)' /\ fund'[r].src = "wallet" => net'[r].wallet >= OwedFunding(r)'
        BY <1>0, <1>14, RollbackFundingReserveEffect, <2>0, <2>1, <2>2, <3>1, <3>2 DEF
           FundMoves, Consumed, NetMoves, Calm, Hit, Ledger, OtherLedgers, Covered,
           ConsumedExact, Opening, Live, Refunding, Reserving
      <4>3. Returnable(r)' /\ fund'[r].src = "subscription" /\ "recordSave" \notin Faults =>
               net'[r].sub >= OwedFunding(r)'
        BY <1>0, <1>14, RollbackFundingReserveEffect, <2>0, <2>1, <2>2, <3>1, <3>2 DEF
           FundMoves, Consumed, NetMoves, Calm, Hit, Ledger, OtherLedgers, Covered,
           ConsumedExact, Opening, Live, Refunding, Reserving
      <4>4. Returnable(r)' /\ Metered(r)' => net'[r].token >= OwedToken(r)'
        BY <1>0, <1>14, RollbackFundingReserveEffect, <2>0, <2>1, <2>2, <3>1, <3>2 DEF
           FundMoves, Consumed, NetMoves, Calm, Hit, Ledger, OtherLedgers, Covered,
           ConsumedExact, Opening, Live, Refunding, Reserving
      <4>. QED  BY <4>1, <4>2, <4>3, <4>4 DEF Covered
    <3>5. ConsumedExact(r)'
      BY <1>0, <1>14, RollbackFundingReserveEffect, <2>0, <2>1, <2>2, <3>1, <3>2 DEF
         FundMoves, Consumed, NetMoves, Calm, Hit, Ledger, OtherLedgers, ConsumedExact,
         Opening, Fresh, Opening, Reserving, Settling, Refunding, Closing, Live
    <3>6. ExactLedgers(r)'
      BY <1>0, <1>14, RollbackFundingReserveEffect, <2>0, <2>1, <2>2, <3>1, <3>2 DEF
         FundMoves, Consumed, NetMoves, Calm, Hit, Ledger, OtherLedgers, ExactLedgers,
         ConsumedExact, Opening, Live, Refunding
    <3>. QED  BY <3>3, <3>4, <3>5, <3>6 DEF Ledger
  <2>. QED  BY <1>0, <1>14, RollbackFundingReserveEffect, <2>1, <2>2 DEF Shape,
       OpeningShape, OperationShape, Fresh, Opening, Reserving, Settling, Refunding,
       Closing, Live
<1>15. CASE Settle(r)
  <2>1. pc[r] = "open" /\ OwedFunding(r) = Due(r) /\ OwedToken(r) = Due(r)
    BY <1>0, <1>15, SettleEffect DEF OwedFunding, OwedToken, Fresh, Opening, Reserving,
       Settling, Refunding, Closing, Live
  <2>2. CASE pc'[r] \in {"open", "failed", "end", "setFunding"}
    <3>1. OwedFunding(r)' = Due(r)' /\ OwedToken(r)' = Due(r)'
      BY <2>2 DEF OwedFunding, OwedToken, Fresh, Opening, Reserving, Settling,
         Refunding, Closing, Live
    <3>. QED  BY <1>0, <1>15, SettleEffect, <1>00, <2>1, <2>2, <3>1 DEF NetMoves, Calm,
         Hit, Shape, FreshShape, OpeningShape, LiveShape, OperationShape, NoSess,
         NoFund, NoOp, Ledger, OtherLedgers, Covered, ConsumedExact, ExactLedgers, Due,
         Returnable, Fresh, Opening, Reserving, Settling, Refunding, Closing, Live
  <2>. QED  BY <1>0, <1>15, SettleEffect, <2>1, <2>2 DEF Shape, OpeningShape,
       OperationShape, Fresh, Opening, Reserving, Settling, Refunding, Closing, Live
<1>16. CASE SettleFunding(r)
  <2>1. pc[r] = "setFunding" /\ OwedFunding(r) = Due(r) /\ OwedToken(r) = Due(r)
    BY <1>0, <1>16, SettleFundingEffect DEF OwedFunding, OwedToken, Fresh, Opening,
       Reserving, Settling, Refunding, Closing, Live
  <2>0. /\ fund[r].src \in {"wallet", "subscription"}
        /\ fund[r].src = "subscription" => sess[r].pre = fund[r].subPre + sess[r].extra
        /\ Metered(r) => sess[r].tokenConsumed = sess[r].pre
        /\ ~Settled(r) /\ Returnable(r)
        /\ ~Refunded(r) /\ op[r].fee = 0 /\ op[r].delta = op[r].actual - sess[r].pre
        /\ op[r].next \in {"open", "failed", "end"}
        /\ Due(r) = sess[r].pre
    BY <1>0, <2>1 DEF
       Sources, Shape, OpeningShape, LiveShape, OperationShape, Returnable, Due, Fresh,
       Opening, Reserving, Settling, Refunding, Closing, Live
  <2>9. /\ net[r].wallet >= 0 /\ net[r].token >= 0 /\ ("recordSave" \notin Faults => net[r].sub >= 0)
        /\ fund[r].src = "wallet" => net[r].wallet >= sess[r].pre
        /\ fund[r].src = "subscription" /\ "recordSave" \notin Faults => net[r].sub >= sess[r].pre
        /\ faults[r] = 0 /\ fund[r].src = "subscription" => net[r].sub = sess[r].pre
    BY <1>0, <2>0, <2>1 DEF Ledger, Covered, ExactLedgers
  <2>2. CASE pc'[r] = "setToken"
    <3>1. OwedFunding(r)' = op'[r].actual /\ OwedToken(r)' = sess'[r].pre
      BY <2>2 DEF OwedFunding, OwedToken, Fresh, Opening, Reserving, Settling,
         Refunding, Closing, Live
    <3>2. Returnable(r)' /\ FundMoves(r, op[r].delta) /\ Metered(r) /\ faults'[r] = faults[r]
          /\ UNCHANGED <<req[r], sess[r], fund[r], op[r]>>
      BY <1>0, <1>16, SettleFundingEffect, <2>0, <2>1, <2>2 DEF Calm, Hit, Due,
         Returnable, Closing, NoSess
    <3>3. OtherLedgers(r)'
      <4>1. pc'[r] = "setToken" /\ fund'[r] = fund[r] /\ req'[r] = req[r] /\ OtherLedgers(r)
        BY <1>0, <2>2, <3>2 DEF Ledger
      <4>2. CASE fund[r].src = "wallet" /\ NetMoves(r, op[r].delta, 0, 0)
        BY <1>0, <3>2, <4>1, <4>2 DEF NetMoves, OtherLedgers, Metered, Fresh, Opening
      <4>3. CASE fund[r].src = "subscription" /\ NetMoves(r, 0, 0, op[r].delta)
        BY <1>0, <3>2, <4>1, <4>3 DEF NetMoves, OtherLedgers, Metered, Fresh, Opening
      <4>. QED  BY <3>2, <4>2, <4>3 DEF FundMoves
    <3>4. Covered(r)'
      <4>1. net'[r].wallet >= 0 /\ net'[r].token >= 0 /\ ("recordSave" \notin Faults => net'[r].sub >= 0)
        BY <1>0, <2>0, <2>9, <3>1, <3>2 DEF FundMoves, NetMoves, Calm, Hit
      <4>2. Returnable(r)' /\ fund'[r].src = "wallet" => net'[r].wallet >= OwedFunding(r)'
        BY <1>0, <2>0, <2>1, <2>2, <3>1, <3>2 DEF FundMoves, NetMoves, Calm, Hit,
           Ledger, OtherLedgers, Covered, ConsumedExact, Opening, Live, Refunding,
           Reserving
      <4>3. Returnable(r)' /\ fund'[r].src = "subscription" /\ "recordSave" \notin Faults =>
               net'[r].sub >= OwedFunding(r)'
        BY <1>0, <2>0, <2>1, <2>2, <3>1, <3>2 DEF FundMoves, NetMoves, Calm, Hit,
           Ledger, OtherLedgers, Covered, ConsumedExact, Opening, Live, Refunding,
           Reserving
      <4>4. Returnable(r)' /\ Metered(r)' => net'[r].token >= OwedToken(r)'
        BY <1>0, <2>0, <2>1, <2>2, <3>1, <3>2 DEF FundMoves, NetMoves, Calm, Hit,
           Ledger, OtherLedgers, Covered, ConsumedExact, Opening, Live, Refunding,
           Reserving
      <4>. QED  BY <4>1, <4>2, <4>3, <4>4 DEF Covered
    <3>5. ConsumedExact(r)'
      BY <1>0, <2>0, <2>1, <2>2, <3>1, <3>2 DEF FundMoves, NetMoves, Calm, Hit, Ledger,
         OtherLedgers, ConsumedExact, Opening, Fresh, Opening, Reserving, Settling,
         Refunding, Closing, Live
    <3>6. ExactLedgers(r)'
      BY <1>0, <2>0, <2>1, <2>2, <3>1, <3>2 DEF FundMoves, NetMoves, Calm, Hit, Ledger,
         OtherLedgers, ExactLedgers, ConsumedExact, Opening, Live, Refunding
    <3>. QED  BY <3>3, <3>4, <3>5, <3>6 DEF Ledger
  <2>3. CASE pc'[r] \in {"open", "failed", "end"}
    <3>1. OwedFunding(r)' = Due(r)' /\ OwedToken(r)' = Due(r)'
      BY <2>3 DEF OwedFunding, OwedToken, Fresh, Opening, Reserving, Settling,
         Refunding, Closing, Live
    <3>2. (\/ ~Metered(r) /\ Due(r)' = op[r].actual /\ ~Returnable(r)' /\ FundMoves(r, op[r].delta)
              /\ faults'[r] = faults[r]
           \/ (Calm(r) \/ Hit(r)) /\ Due(r)' = sess[r].pre)
          /\ UNCHANGED <<req[r], sess[r], fund[r], op[r]>>
      BY <1>0, <1>16, SettleFundingEffect, <2>0, <2>1, <2>3 DEF Calm, Hit, Due,
         Returnable, Closing, NoSess
    <3>3. OtherLedgers(r)'
      BY SMTT(30), <1>0, <2>0, <2>1, <2>3, <3>1, <3>2 DEF FundMoves, NetMoves, Calm, Hit, Ledger,
         OtherLedgers, Fresh, Opening
    <3>4. Covered(r)'
      <4>1. net'[r].wallet >= 0 /\ net'[r].token >= 0 /\ ("recordSave" \notin Faults => net'[r].sub >= 0)
        BY <1>0, <2>0, <2>9, <3>1, <3>2 DEF FundMoves, NetMoves, Calm, Hit
      <4>2. Returnable(r)' /\ fund'[r].src = "wallet" => net'[r].wallet >= OwedFunding(r)'
        BY <1>0, <2>0, <2>1, <2>3, <3>1, <3>2 DEF FundMoves, NetMoves, Calm, Hit,
           Ledger, OtherLedgers, Covered, ConsumedExact, Opening, Live, Refunding,
           Reserving
      <4>3. Returnable(r)' /\ fund'[r].src = "subscription" /\ "recordSave" \notin Faults =>
               net'[r].sub >= OwedFunding(r)'
        BY <1>0, <2>0, <2>1, <2>3, <3>1, <3>2 DEF FundMoves, NetMoves, Calm, Hit,
           Ledger, OtherLedgers, Covered, ConsumedExact, Opening, Live, Refunding,
           Reserving
      <4>4. Returnable(r)' /\ Metered(r)' => net'[r].token >= OwedToken(r)'
        BY <1>0, <2>0, <2>1, <2>3, <3>1, <3>2 DEF FundMoves, NetMoves, Calm, Hit,
           Ledger, OtherLedgers, Covered, ConsumedExact, Opening, Live, Refunding,
           Reserving
      <4>. QED  BY <4>1, <4>2, <4>3, <4>4 DEF Covered
    <3>5. ConsumedExact(r)'
      BY <1>0, <2>0, <2>1, <2>3, <3>1, <3>2 DEF FundMoves, NetMoves, Calm, Hit, Ledger,
         OtherLedgers, ConsumedExact, Opening, Fresh, Opening, Reserving, Settling,
         Refunding, Closing, Live
    <3>6. ExactLedgers(r)'
      <4>1. faults'[r] = 0 /\ fund'[r].src = "wallet" => net'[r].wallet = OwedFunding(r)'
        BY <1>0, <2>0, <2>1, <2>3, <3>1, <3>2 DEF FundMoves, NetMoves, Calm, Hit,
           Ledger, OtherLedgers, ExactLedgers, ConsumedExact, Opening, Live, Refunding,
           Reserving
      <4>2. faults'[r] = 0 /\ fund'[r].src = "subscription" => net'[r].sub = OwedFunding(r)'
        <5>1. CASE FundMoves(r, op[r].delta) /\ Due(r)' = op[r].actual /\ faults'[r] = faults[r]
          BY <1>0, <2>0, <2>9, <3>1, <3>2, <5>1 DEF FundMoves, NetMoves
        <5>2. CASE Calm(r) /\ Due(r)' = sess[r].pre
          BY <1>0, <2>0, <2>9, <3>1, <3>2, <5>2 DEF Calm
        <5>3. CASE Hit(r)
          BY <1>0, <5>3 DEF Hit
        <5>. QED  BY <3>2, <5>1, <5>2, <5>3
      <4>3. faults'[r] = 0 /\ Metered(r)' => net'[r].token = OwedToken(r)'
        BY <1>0, <2>0, <2>1, <2>3, <3>1, <3>2 DEF FundMoves, NetMoves, Calm, Hit,
           Ledger, OtherLedgers, ExactLedgers, ConsumedExact, Opening, Live, Refunding,
           Reserving
      <4>. QED  BY <4>1, <4>2, <4>3 DEF ExactLedgers
    <3>. QED  BY <3>3, <3>4, <3>5, <3>6 DEF Ledger
  <2>. QED  BY <1>0, <1>16, SettleFundingEffect, <2>1, <2>2, <2>3 DEF Shape,
       OpeningShape, OperationShape, Fresh, Opening, Reserving, Settling, Refunding,
       Closing, Live
<1>17. CASE SettleToken(r)
  <2>1. pc[r] = "setToken" /\ OwedFunding(r) = op[r].actual /\ OwedToken(r) = sess[r].pre
    BY <1>0, <1>17, SettleTokenEffect DEF OwedFunding, OwedToken, Fresh, Opening,
       Reserving, Settling, Refunding, Closing, Live
  <2>0. /\ fund[r].src \in {"wallet", "subscription"}
        /\ fund[r].src = "subscription" => sess[r].pre = fund[r].subPre + sess[r].extra
        /\ Metered(r) => sess[r].tokenConsumed = sess[r].pre
        /\ ~Settled(r) /\ Returnable(r)
        /\ ~Refunded(r) /\ op[r].fee = 0 /\ op[r].delta = op[r].actual - sess[r].pre /\ Metered(r)
    BY <1>0, <2>1 DEF
       Sources, Shape, OpeningShape, LiveShape, OperationShape, Returnable, Due, Fresh,
       Opening, Reserving, Settling, Refunding, Closing, Live
  <2>2. CASE pc'[r] \in {"open", "failed", "end"}
    <3>1. OwedFunding(r)' = Due(r)' /\ OwedToken(r)' = Due(r)'
      BY <2>2 DEF OwedFunding, OwedToken, Fresh, Opening, Reserving, Settling,
         Refunding, Closing, Live
    <3>2. ~Returnable(r)' /\ Due(r)' = op[r].actual
      BY <1>0, <1>17, SettleTokenEffect, <2>0, <2>1, <2>2 DEF Calm, Hit, Due,
         Returnable, Closing, NoSess
    <3>3. OtherLedgers(r)'
      BY <1>0, <1>17, SettleTokenEffect, <2>0, <2>1, <2>2, <3>1, <3>2 DEF NetMoves,
         Calm, Hit, Ledger, OtherLedgers, Fresh, Opening
    <3>4. Covered(r)'
      BY <1>0, <1>17, SettleTokenEffect, <2>0, <2>1, <2>2, <3>1, <3>2 DEF NetMoves,
         Calm, Hit, Ledger, OtherLedgers, Covered, ConsumedExact, Opening, Live,
         Refunding, Reserving
    <3>5. ConsumedExact(r)'
      BY <1>0, <1>17, SettleTokenEffect, <2>0, <2>1, <2>2, <3>1, <3>2 DEF NetMoves,
         Calm, Hit, Ledger, OtherLedgers, ConsumedExact, Opening, Fresh, Opening,
         Reserving, Settling, Refunding, Closing, Live
    <3>6. ExactLedgers(r)'
      BY <1>0, <1>17, SettleTokenEffect, <2>0, <2>1, <2>2, <3>1, <3>2 DEF NetMoves,
         Calm, Hit, Ledger, OtherLedgers, ExactLedgers, ConsumedExact, Opening, Live,
         Refunding
    <3>. QED  BY <3>3, <3>4, <3>5, <3>6 DEF Ledger
  <2>. QED  BY <1>0, <1>17, SettleTokenEffect, <2>1, <2>2 DEF Shape, OpeningShape,
       OperationShape, Fresh, Opening, Reserving, Settling, Refunding, Closing, Live
<1>18. CASE Refund(r)
  <2>1. pc[r] = "open" /\ OwedFunding(r) = Due(r) /\ OwedToken(r) = Due(r)
    BY <1>0, <1>18 DEF OwedFunding, OwedToken, Refund, Fresh, Opening, Reserving,
       Settling, Refunding, Closing, Live
  <2>2. CASE pc'[r] = "refFunding"
    <3>1. OwedFunding(r)' = sess'[r].pre /\ OwedToken(r)' = sess'[r].pre
      BY <2>2 DEF OwedFunding, OwedToken, Fresh, Opening, Reserving, Settling,
         Refunding, Closing, Live
    <3>. QED  BY <1>0, <1>18, <1>00, <2>1, <2>2, <3>1 DEF Refund, NeedsRefund, TypeOK,
         GoTo, Quiet, NoError, DbError, Done, Fault, Frame, session, subs, ledgers, NetMoves, Calm,
         Hit, Shape, FreshShape, OpeningShape, LiveShape, OperationShape, NoSess,
         NoFund, NoOp, Ledger, OtherLedgers, Covered, ConsumedExact, ExactLedgers, Due,
         Returnable, Fresh, Opening, Reserving, Settling, Refunding, Closing, Live
  <2>3. CASE pc'[r] = "failed"
    <3>1. OwedFunding(r)' = Due(r)' /\ OwedToken(r)' = Due(r)'
      BY <2>3 DEF OwedFunding, OwedToken, Fresh, Opening, Reserving, Settling,
         Refunding, Closing, Live
    <3>. QED  BY <1>0, <1>18, <1>00, <2>1, <2>3, <3>1 DEF Refund, NeedsRefund, TypeOK,
         GoTo, Quiet, NoError, DbError, Done, Fault, Frame, session, subs, ledgers, NetMoves, Calm,
         Hit, Shape, FreshShape, OpeningShape, LiveShape, OperationShape, NoSess,
         NoFund, NoOp, Ledger, OtherLedgers, Covered, ConsumedExact, ExactLedgers, Due,
         Returnable, Fresh, Opening, Reserving, Settling, Refunding, Closing, Live
  <2>. QED  BY <1>0, <1>18, <2>1, <2>2, <2>3 DEF Refund, NeedsRefund, TypeOK, GoTo,
       Quiet, NoError, DbError, Done, Fault, Frame, session, subs, ledgers, Shape, OpeningShape,
       OperationShape, Fresh, Opening, Reserving, Settling, Refunding, Closing, Live
<1>19. CASE SkipRefund(r)
  <2>1. pc[r] = "open" /\ OwedFunding(r) = Due(r) /\ OwedToken(r) = Due(r)
    BY <1>0, <1>19 DEF OwedFunding, OwedToken, SkipRefund, Fresh, Opening, Reserving,
       Settling, Refunding, Closing, Live
  <2>2. CASE pc'[r] = "failed"
    <3>1. OwedFunding(r)' = Due(r)' /\ OwedToken(r)' = Due(r)'
      BY <2>2 DEF OwedFunding, OwedToken, Fresh, Opening, Reserving, Settling,
         Refunding, Closing, Live
    <3>. QED  BY <1>0, <1>19, <1>00, <2>1, <2>2, <3>1 DEF SkipRefund, TypeOK, GoTo,
         Quiet, NoError, DbError, Done, Fault, Frame, session, subs, ledgers, NetMoves, Calm, Hit,
         Shape, FreshShape, OpeningShape, LiveShape, OperationShape, NoSess, NoFund,
         NoOp, Ledger, OtherLedgers, Covered, ConsumedExact, ExactLedgers, Due,
         Returnable, Fresh, Opening, Reserving, Settling, Refunding, Closing, Live
  <2>. QED  BY <1>0, <1>19, <2>1, <2>2 DEF SkipRefund, TypeOK, GoTo, Quiet, NoError,
       DbError, Done, Fault, Frame, session, subs, ledgers, Shape, OpeningShape, OperationShape,
       Fresh, Opening, Reserving, Settling, Refunding, Closing, Live
<1>20. CASE RefundWallet(r)
  <2>1. pc[r] = "refFunding" /\ OwedFunding(r) = sess[r].pre /\ OwedToken(r) = sess[r].pre
    BY <1>0, <1>20, RefundWalletEffect DEF OwedFunding, OwedToken, Fresh, Opening,
       Reserving, Settling, Refunding, Closing, Live
  <2>0. /\ fund[r].src \in {"wallet", "subscription"}
        /\ fund[r].src = "subscription" => sess[r].pre = fund[r].subPre + sess[r].extra
        /\ Metered(r) => sess[r].tokenConsumed = sess[r].pre
        /\ ~Settled(r) /\ Returnable(r) /\ Refunded(r) /\ op[r].fee = 0
    BY <1>0, <2>1 DEF
       Sources, Shape, OpeningShape, LiveShape, OperationShape, Returnable, Due, Fresh,
       Opening, Reserving, Settling, Refunding, Closing, Live
  <2>2. CASE pc'[r] = "refToken"
    <3>1. OwedFunding(r)' = 0 /\ OwedToken(r)' = sess'[r].pre
      BY <2>2 DEF OwedFunding, OwedToken, Fresh, Opening, Reserving, Settling,
         Refunding, Closing, Live
    <3>2. Returnable(r)'
      BY <1>0, <1>20, RefundWalletEffect, <2>0, <2>1, <2>2 DEF AfterRefund, AfterExtra,
         Calm, Hit, Due, Returnable, Closing, NoSess
    <3>3. OtherLedgers(r)'
      BY <1>0, <1>20, RefundWalletEffect, <2>0, <2>1, <2>2, <3>1, <3>2 DEF NetMoves,
         Calm, Hit, Ledger, OtherLedgers, Fresh, Opening
    <3>4. Covered(r)'
      BY SMTT(30), <1>0, <1>20, RefundWalletEffect, <2>0, <2>1, <2>2, <3>1, <3>2 DEF NetMoves,
         Calm, Hit, Ledger, OtherLedgers, Covered, ConsumedExact, Opening, Live,
         Refunding, Reserving
    <3>5. ConsumedExact(r)'
      BY <1>0, <1>20, RefundWalletEffect, <2>0, <2>1, <2>2, <3>1, <3>2 DEF NetMoves,
         Calm, Hit, Ledger, OtherLedgers, ConsumedExact, Opening, Fresh, Opening,
         Reserving, Settling, Refunding, Closing, Live
    <3>6. ExactLedgers(r)'
      BY SMTT(30), <1>0, <1>20, RefundWalletEffect, <2>0, <2>1, <2>2, <3>1, <3>2 DEF NetMoves,
         Calm, Hit, Ledger, OtherLedgers, ExactLedgers, ConsumedExact, Opening, Live,
         Refunding
    <3>. QED  BY <3>3, <3>4, <3>5, <3>6 DEF Ledger
  <2>3. CASE pc'[r] = "failed"
    <3>1. OwedFunding(r)' = Due(r)' /\ OwedToken(r)' = Due(r)'
      BY <2>3 DEF OwedFunding, OwedToken, Fresh, Opening, Reserving, Settling,
         Refunding, Closing, Live
    <3>2. Returnable(r)' = FALSE /\ Due(r)' = 0 /\ ~(Metered(r) /\ sess[r].tokenConsumed > 0)
      BY <1>0, <1>20, RefundWalletEffect, <2>0, <2>1, <2>3 DEF AfterRefund, AfterExtra,
         Calm, Hit, Due, Returnable, Closing, NoSess
    <3>3. OtherLedgers(r)'
      BY <1>0, <1>20, RefundWalletEffect, <2>0, <2>1, <2>3, <3>1, <3>2 DEF NetMoves,
         Calm, Hit, Ledger, OtherLedgers, Fresh, Opening
    <3>4. Covered(r)'
      BY <1>0, <1>20, RefundWalletEffect, <2>0, <2>1, <2>3, <3>1, <3>2 DEF NetMoves,
         Calm, Hit, Ledger, OtherLedgers, Covered, ConsumedExact, Opening, Live,
         Refunding, Reserving
    <3>5. ConsumedExact(r)'
      BY <1>0, <1>20, RefundWalletEffect, <2>0, <2>1, <2>3, <3>1, <3>2 DEF NetMoves,
         Calm, Hit, Ledger, OtherLedgers, ConsumedExact, Opening, Fresh, Opening,
         Reserving, Settling, Refunding, Closing, Live
    <3>6. ExactLedgers(r)'
      BY <1>0, <1>20, RefundWalletEffect, <2>0, <2>1, <2>3, <3>1, <3>2 DEF NetMoves,
         Calm, Hit, Ledger, OtherLedgers, ExactLedgers, ConsumedExact, Opening, Live,
         Refunding
    <3>. QED  BY <3>3, <3>4, <3>5, <3>6 DEF Ledger
  <2>. QED  BY <1>0, <1>20, RefundWalletEffect, <2>1, <2>2, <2>3 DEF AfterRefund,
       AfterExtra, Shape, OpeningShape, OperationShape, Fresh, Opening, Reserving,
       Settling, Refunding, Closing, Live
<1>21. CASE RefundSubscription(r)
  <2>1. pc[r] = "refFunding" /\ OwedFunding(r) = sess[r].pre /\ OwedToken(r) = sess[r].pre
    BY <1>0, <1>21, RefundSubscriptionEffect DEF OwedFunding, OwedToken, Fresh, Opening,
       Reserving, Settling, Refunding, Closing, Live
  <2>0. /\ fund[r].src \in {"wallet", "subscription"}
        /\ fund[r].src = "subscription" => sess[r].pre = fund[r].subPre + sess[r].extra
        /\ Metered(r) => sess[r].tokenConsumed = sess[r].pre
        /\ ~Settled(r) /\ Returnable(r) /\ Refunded(r) /\ op[r].fee = 0
    BY <1>0, <2>1 DEF
       Sources, Shape, OpeningShape, LiveShape, OperationShape, Returnable, Due, Fresh,
       Opening, Reserving, Settling, Refunding, Closing, Live
  <2>2. CASE pc'[r] = "refFunding"
    <3>1. OwedFunding(r)' = sess'[r].pre /\ OwedToken(r)' = sess'[r].pre
      BY <2>2 DEF OwedFunding, OwedToken, Fresh, Opening, Reserving, Settling,
         Refunding, Closing, Live
    <3>. QED  BY SMTT(30), <1>0, <1>21, RefundSubscriptionEffect, <1>00, <2>1, <2>2, <3>1 DEF
         AfterRefund, AfterExtra, NetMoves, Calm, Hit, Shape, FreshShape, OpeningShape,
         LiveShape, OperationShape, NoSess, NoFund, NoOp, Ledger, OtherLedgers, Covered,
         ConsumedExact, ExactLedgers, Due, Returnable, Fresh, Opening, Reserving,
         Settling, Refunding, Closing, Live
  <2>3. CASE pc'[r] = "refExtra"
    <3>1. OwedFunding(r)' = sess'[r].extra /\ OwedToken(r)' = sess'[r].pre
      BY <2>3 DEF OwedFunding, OwedToken, Fresh, Opening, Reserving, Settling,
         Refunding, Closing, Live
    <3>2. Returnable(r)'
      BY <1>0, <1>21, RefundSubscriptionEffect, <2>0, <2>1, <2>3 DEF AfterRefund,
         AfterExtra, Calm, Hit, Due, Returnable, Closing, NoSess
    <3>3. OtherLedgers(r)'
      BY <1>0, <1>21, RefundSubscriptionEffect, <2>0, <2>1, <2>3, <3>1, <3>2 DEF
         NetMoves, Calm, Hit, Ledger, OtherLedgers, Fresh, Opening
    <3>4. Covered(r)'
      BY SMTT(90), <1>0, <1>21, RefundSubscriptionEffect, <2>0, <2>1, <2>3, <3>1, <3>2 DEF
         NetMoves, Calm, Hit, Ledger, OtherLedgers, Covered, Refunding
    <3>5. ConsumedExact(r)'
      BY <1>0, <1>21, RefundSubscriptionEffect, <2>0, <2>1, <2>3, <3>1, <3>2 DEF
         NetMoves, Calm, Hit, Ledger, OtherLedgers, ConsumedExact, Opening, Fresh,
         Opening, Reserving, Settling, Refunding, Closing, Live
    <3>6. ExactLedgers(r)'
      <4>1. faults'[r] = 0 /\ fund'[r].src = "wallet" => net'[r].wallet = OwedFunding(r)'
        BY <1>0, <1>21, RefundSubscriptionEffect, <2>0, <2>1, <2>3, <3>1, <3>2 DEF
           NetMoves, Calm, Hit, Ledger, OtherLedgers, ExactLedgers, ConsumedExact,
           Opening, Live, Refunding, Reserving
      <4>2. faults'[r] = 0 /\ fund'[r].src = "subscription" => net'[r].sub = OwedFunding(r)'
        BY <1>0, <1>21, RefundSubscriptionEffect, <2>0, <2>1, <2>3, <3>1, <3>2 DEF
           NetMoves, Calm, Hit, Ledger, OtherLedgers, ExactLedgers, ConsumedExact,
           Opening, Live, Refunding, Reserving
      <4>3. faults'[r] = 0 /\ Metered(r)' => net'[r].token = OwedToken(r)'
        BY <1>0, <1>21, RefundSubscriptionEffect, <2>0, <2>1, <2>3, <3>1, <3>2 DEF
           NetMoves, Calm, Hit, Ledger, OtherLedgers, ExactLedgers, ConsumedExact,
           Opening, Live, Refunding, Reserving
      <4>. QED  BY <4>1, <4>2, <4>3 DEF ExactLedgers
    <3>. QED  BY <3>3, <3>4, <3>5, <3>6 DEF Ledger
  <2>4. CASE pc'[r] = "refToken"
    <3>1. OwedFunding(r)' = 0 /\ OwedToken(r)' = sess'[r].pre
      BY <2>4 DEF OwedFunding, OwedToken, Fresh, Opening, Reserving, Settling,
         Refunding, Closing, Live
    <3>2. Returnable(r)' /\ sess[r].extra = 0
      BY <1>0, <1>21, RefundSubscriptionEffect, <2>0, <2>1, <2>4 DEF AfterRefund,
         AfterExtra, Calm, Hit, Due, Returnable, Closing, NoSess
    <3>3. OtherLedgers(r)'
      BY <1>0, <1>21, RefundSubscriptionEffect, <2>0, <2>1, <2>4, <3>1, <3>2 DEF
         NetMoves, Calm, Hit, Ledger, OtherLedgers, Fresh, Opening
    <3>4. Covered(r)'
      BY SMTT(30), <1>0, <1>21, RefundSubscriptionEffect, <2>0, <2>1, <2>4, <3>1, <3>2 DEF
         NetMoves, Calm, Hit, Ledger, OtherLedgers, Covered, ConsumedExact, Opening,
         Live, Refunding, Reserving
    <3>5. ConsumedExact(r)'
      BY <1>0, <1>21, RefundSubscriptionEffect, <2>0, <2>1, <2>4, <3>1, <3>2 DEF
         NetMoves, Calm, Hit, Ledger, OtherLedgers, ConsumedExact, Opening, Fresh,
         Opening, Reserving, Settling, Refunding, Closing, Live
    <3>6. ExactLedgers(r)'
      <4>1. faults'[r] = 0 /\ fund'[r].src = "wallet" => net'[r].wallet = OwedFunding(r)'
        BY <1>0, <1>21, RefundSubscriptionEffect, <2>0, <2>1, <2>4, <3>1, <3>2 DEF
           NetMoves, Calm, Hit, Ledger, OtherLedgers, ExactLedgers, ConsumedExact,
           Opening, Live, Refunding, Reserving
      <4>2. faults'[r] = 0 /\ fund'[r].src = "subscription" => net'[r].sub = OwedFunding(r)'
        BY <1>0, <1>21, RefundSubscriptionEffect, <2>0, <2>1, <2>4, <3>1, <3>2 DEF
           NetMoves, Calm, Hit, Ledger, OtherLedgers, ExactLedgers, ConsumedExact,
           Opening, Live, Refunding, Reserving
      <4>3. faults'[r] = 0 /\ Metered(r)' => net'[r].token = OwedToken(r)'
        BY <1>0, <1>21, RefundSubscriptionEffect, <2>0, <2>1, <2>4, <3>1, <3>2 DEF
           NetMoves, Calm, Hit, Ledger, OtherLedgers, ExactLedgers, ConsumedExact,
           Opening, Live, Refunding, Reserving
      <4>. QED  BY <4>1, <4>2, <4>3 DEF ExactLedgers
    <3>. QED  BY <3>3, <3>4, <3>5, <3>6 DEF Ledger
  <2>5. CASE pc'[r] = "failed"
    <3>1. OwedFunding(r)' = Due(r)' /\ OwedToken(r)' = Due(r)'
      BY <2>5 DEF OwedFunding, OwedToken, Fresh, Opening, Reserving, Settling,
         Refunding, Closing, Live
    <3>2. Returnable(r)' = FALSE /\ Due(r)' = 0 /\ ~(Metered(r) /\ sess[r].tokenConsumed > 0)
          /\ sess[r].extra = 0
      BY <1>0, <1>21, RefundSubscriptionEffect, <2>0, <2>1, <2>5 DEF AfterRefund,
         AfterExtra, Calm, Hit, Due, Returnable, Closing, NoSess
    <3>3. OtherLedgers(r)'
      BY <1>0, <1>21, RefundSubscriptionEffect, <2>0, <2>1, <2>5, <3>1, <3>2 DEF
         NetMoves, Calm, Hit, Ledger, OtherLedgers, Fresh, Opening
    <3>4. Covered(r)'
      BY <1>0, <1>21, RefundSubscriptionEffect, <2>0, <2>1, <2>5, <3>1, <3>2 DEF
         NetMoves, Calm, Hit, Ledger, OtherLedgers, Covered, ConsumedExact, Opening,
         Live, Refunding, Reserving
    <3>5. ConsumedExact(r)'
      BY <1>0, <1>21, RefundSubscriptionEffect, <2>0, <2>1, <2>5, <3>1, <3>2 DEF
         NetMoves, Calm, Hit, Ledger, OtherLedgers, ConsumedExact, Opening, Fresh,
         Opening, Reserving, Settling, Refunding, Closing, Live
    <3>6. ExactLedgers(r)'
      <4>1. faults'[r] = 0 /\ fund'[r].src = "wallet" => net'[r].wallet = OwedFunding(r)'
        BY <1>0, <1>21, RefundSubscriptionEffect, <2>0, <2>1, <2>5, <3>1, <3>2 DEF
           NetMoves, Calm, Hit, Ledger, OtherLedgers, ExactLedgers, ConsumedExact,
           Opening, Live, Refunding, Reserving
      <4>2. faults'[r] = 0 /\ fund'[r].src = "subscription" => net'[r].sub = OwedFunding(r)'
        BY <1>0, <1>21, RefundSubscriptionEffect, <2>0, <2>1, <2>5, <3>1, <3>2 DEF
           NetMoves, Calm, Hit, Ledger, OtherLedgers, ExactLedgers, ConsumedExact,
           Opening, Live, Refunding, Reserving
      <4>3. faults'[r] = 0 /\ Metered(r)' => net'[r].token = OwedToken(r)'
        BY SMTT(30), <1>0, <1>21, RefundSubscriptionEffect, <2>0, <2>1, <2>5, <3>1, <3>2 DEF
           NetMoves, Calm, Hit, Ledger, OtherLedgers, ExactLedgers, ConsumedExact,
           Opening, Live, Refunding, Reserving
      <4>. QED  BY <4>1, <4>2, <4>3 DEF ExactLedgers
    <3>. QED  BY <3>3, <3>4, <3>5, <3>6 DEF Ledger
  <2>. QED  BY <1>0, <1>21, RefundSubscriptionEffect, <2>1, <2>2, <2>3, <2>4, <2>5 DEF
       AfterRefund, AfterExtra, Shape, OpeningShape, OperationShape, Fresh, Opening,
       Reserving, Settling, Refunding, Closing, Live
<1>22. CASE RefundExtra(r)
  <2>1. pc[r] = "refExtra" /\ OwedFunding(r) = sess[r].extra /\ OwedToken(r) = sess[r].pre
    BY <1>0, <1>22, RefundExtraEffect DEF OwedFunding, OwedToken, Fresh, Opening,
       Reserving, Settling, Refunding, Closing, Live
  <2>0. /\ fund[r].src \in {"wallet", "subscription"}
        /\ fund[r].src = "subscription" => sess[r].pre = fund[r].subPre + sess[r].extra
        /\ Metered(r) => sess[r].tokenConsumed = sess[r].pre
        /\ ~Settled(r) /\ Returnable(r) /\ Refunded(r) /\ op[r].fee = 0
        /\ fund[r].src = "subscription"
    BY <1>0, <2>1 DEF
       Sources, Shape, OpeningShape, LiveShape, OperationShape, Returnable, Due, Fresh,
       Opening, Reserving, Settling, Refunding, Closing, Live
  <2>2. CASE pc'[r] = "refToken"
    <3>1. OwedFunding(r)' = 0 /\ OwedToken(r)' = sess'[r].pre
      BY <2>2 DEF OwedFunding, OwedToken, Fresh, Opening, Reserving, Settling,
         Refunding, Closing, Live
    <3>2. Returnable(r)'
      BY <1>0, <1>22, RefundExtraEffect, <2>0, <2>1, <2>2 DEF AfterExtra, Calm, Hit,
         Due, Returnable, Closing, NoSess
    <3>3. OtherLedgers(r)'
      BY <1>0, <1>22, RefundExtraEffect, <2>0, <2>1, <2>2, <3>1, <3>2 DEF NetMoves,
         Calm, Hit, Ledger, OtherLedgers, Fresh, Opening
    <3>4. Covered(r)'
      BY SMTT(30), <1>0, <1>22, RefundExtraEffect, <2>0, <2>1, <2>2, <3>1, <3>2 DEF NetMoves,
         Calm, Hit, Ledger, OtherLedgers, Covered, ConsumedExact, Opening, Live,
         Refunding, Reserving
    <3>5. ConsumedExact(r)'
      BY <1>0, <1>22, RefundExtraEffect, <2>0, <2>1, <2>2, <3>1, <3>2 DEF NetMoves,
         Calm, Hit, Ledger, OtherLedgers, ConsumedExact, Opening, Fresh, Opening,
         Reserving, Settling, Refunding, Closing, Live
    <3>6. ExactLedgers(r)'
      BY <1>0, <1>22, RefundExtraEffect, <2>0, <2>1, <2>2, <3>1, <3>2 DEF NetMoves,
         Calm, Hit, Ledger, OtherLedgers, ExactLedgers, ConsumedExact, Opening, Live,
         Refunding
    <3>. QED  BY <3>3, <3>4, <3>5, <3>6 DEF Ledger
  <2>3. CASE pc'[r] = "failed"
    <3>1. OwedFunding(r)' = Due(r)' /\ OwedToken(r)' = Due(r)'
      BY <2>3 DEF OwedFunding, OwedToken, Fresh, Opening, Reserving, Settling,
         Refunding, Closing, Live
    <3>2. Returnable(r)' = FALSE /\ Due(r)' = 0 /\ ~(Metered(r) /\ sess[r].tokenConsumed > 0)
      BY <1>0, <1>22, RefundExtraEffect, <2>0, <2>1, <2>3 DEF AfterExtra, Calm, Hit,
         Due, Returnable, Closing, NoSess
    <3>3. OtherLedgers(r)'
      BY <1>0, <1>22, RefundExtraEffect, <2>0, <2>1, <2>3, <3>1, <3>2 DEF NetMoves,
         Calm, Hit, Ledger, OtherLedgers, Fresh, Opening
    <3>4. Covered(r)'
      BY <1>0, <1>22, RefundExtraEffect, <2>0, <2>1, <2>3, <3>1, <3>2 DEF NetMoves,
         Calm, Hit, Ledger, OtherLedgers, Covered, ConsumedExact, Opening, Live,
         Refunding, Reserving
    <3>5. ConsumedExact(r)'
      BY <1>0, <1>22, RefundExtraEffect, <2>0, <2>1, <2>3, <3>1, <3>2 DEF NetMoves,
         Calm, Hit, Ledger, OtherLedgers, ConsumedExact, Opening, Fresh, Opening,
         Reserving, Settling, Refunding, Closing, Live
    <3>6. ExactLedgers(r)'
      <4>1. faults'[r] = 0 /\ fund'[r].src = "wallet" => net'[r].wallet = OwedFunding(r)'
        BY <1>0, <1>22, RefundExtraEffect, <2>0, <2>1, <2>3, <3>1, <3>2 DEF NetMoves,
           Calm, Hit, Ledger, OtherLedgers, ExactLedgers, ConsumedExact, Opening, Live,
           Refunding, Reserving
      <4>2. faults'[r] = 0 /\ fund'[r].src = "subscription" => net'[r].sub = OwedFunding(r)'
        BY <1>0, <1>22, RefundExtraEffect, <2>0, <2>1, <2>3, <3>1, <3>2 DEF NetMoves,
           Calm, Hit, Ledger, OtherLedgers, ExactLedgers, ConsumedExact, Opening, Live,
           Refunding, Reserving
      <4>3. faults'[r] = 0 /\ Metered(r)' => net'[r].token = OwedToken(r)'
        BY SMTT(30), <1>0, <1>22, RefundExtraEffect, <2>0, <2>1, <2>3, <3>1, <3>2 DEF NetMoves,
           Calm, Hit, Ledger, OtherLedgers, ExactLedgers, ConsumedExact, Opening, Live,
           Refunding, Reserving
      <4>. QED  BY <4>1, <4>2, <4>3 DEF ExactLedgers
    <3>. QED  BY <3>3, <3>4, <3>5, <3>6 DEF Ledger
  <2>. QED  BY <1>0, <1>22, RefundExtraEffect, <2>1, <2>2, <2>3 DEF AfterExtra, Shape,
       OpeningShape, OperationShape, Fresh, Opening, Reserving, Settling, Refunding,
       Closing, Live
<1>23. CASE RefundToken(r)
  <2>1. pc[r] = "refToken" /\ OwedFunding(r) = 0 /\ OwedToken(r) = sess[r].pre
    BY <1>0, <1>23, RefundTokenEffect DEF OwedFunding, OwedToken, Fresh, Opening,
       Reserving, Settling, Refunding, Closing, Live
  <2>0. /\ fund[r].src \in {"wallet", "subscription"}
        /\ fund[r].src = "subscription" => sess[r].pre = fund[r].subPre + sess[r].extra
        /\ Metered(r) => sess[r].tokenConsumed = sess[r].pre
        /\ ~Settled(r) /\ Returnable(r) /\ Refunded(r) /\ op[r].fee = 0 /\ Metered(r)
    BY <1>0, <2>1 DEF
       Sources, Shape, OpeningShape, LiveShape, OperationShape, Returnable, Due, Fresh,
       Opening, Reserving, Settling, Refunding, Closing, Live
  <2>2. CASE pc'[r] = "failed"
    <3>1. OwedFunding(r)' = Due(r)' /\ OwedToken(r)' = Due(r)'
      BY <2>2 DEF OwedFunding, OwedToken, Fresh, Opening, Reserving, Settling,
         Refunding, Closing, Live
    <3>2. Returnable(r)' = FALSE /\ Due(r)' = 0
      BY <1>0, <1>23, RefundTokenEffect, <2>0, <2>1, <2>2 DEF Calm, Hit, Due,
         Returnable, Closing, NoSess
    <3>3. OtherLedgers(r)'
      BY <1>0, <1>23, RefundTokenEffect, <2>0, <2>1, <2>2, <3>1, <3>2 DEF NetMoves,
         Calm, Hit, Ledger, OtherLedgers, Fresh, Opening
    <3>4. Covered(r)'
      BY <1>0, <1>23, RefundTokenEffect, <2>0, <2>1, <2>2, <3>1, <3>2 DEF NetMoves,
         Calm, Hit, Ledger, OtherLedgers, Covered, ConsumedExact, Opening, Live,
         Refunding, Reserving
    <3>5. ConsumedExact(r)'
      BY <1>0, <1>23, RefundTokenEffect, <2>0, <2>1, <2>2, <3>1, <3>2 DEF NetMoves,
         Calm, Hit, Ledger, OtherLedgers, ConsumedExact, Opening, Fresh, Opening,
         Reserving, Settling, Refunding, Closing, Live
    <3>6. ExactLedgers(r)'
      BY <1>0, <1>23, RefundTokenEffect, <2>0, <2>1, <2>2, <3>1, <3>2 DEF NetMoves,
         Calm, Hit, Ledger, OtherLedgers, ExactLedgers, ConsumedExact, Opening, Live,
         Refunding
    <3>. QED  BY <3>3, <3>4, <3>5, <3>6 DEF Ledger
  <2>. QED  BY <1>0, <1>23, RefundTokenEffect, <2>1, <2>2 DEF Shape, OpeningShape,
       OperationShape, Fresh, Opening, Reserving, Settling, Refunding, Closing, Live
<1>24. CASE ChargeViolationFee(r)
  <2>1. pc[r] = "failed" /\ OwedFunding(r) = Due(r) /\ OwedToken(r) = Due(r)
    BY <1>0, <1>24, ChargeViolationFeeEffect DEF OwedFunding, OwedToken, Fresh, Opening,
       Reserving, Settling, Refunding, Closing, Live
  <2>2. CASE pc'[r] \in {"end", "feeFunding"}
    <3>1. OwedFunding(r)' = Due(r)' /\ OwedToken(r)' = Due(r)'
      BY <2>2 DEF OwedFunding, OwedToken, Fresh, Opening, Reserving, Settling,
         Refunding, Closing, Live
    <3>2. ~Returnable(r) /\ ~Returnable(r)' /\ Due(r)' = Due(r)
      BY <1>0, <1>24, ChargeViolationFeeEffect, <2>1, <2>2 DEF Returnable, Closing, Due
    <3>. QED  BY <1>0, <1>24, ChargeViolationFeeEffect, <2>1, <2>2, <3>1, <3>2 DEF Calm,
         Ledger, OtherLedgers, Covered, ConsumedExact, ExactLedgers, Fresh, Opening
  <2>. QED  BY <1>0, <1>24, ChargeViolationFeeEffect, <2>1, <2>2 DEF Shape,
       OpeningShape, OperationShape, Fresh, Opening, Reserving, Settling, Refunding,
       Closing, Live
<1>25. CASE PostConsumeFunding(r)
  <2>1. pc[r] = "feeFunding" /\ OwedFunding(r) = Due(r) /\ OwedToken(r) = Due(r)
    BY <1>0, <1>25, PostConsumeFundingEffect DEF OwedFunding, OwedToken, Fresh, Opening,
       Reserving, Settling, Refunding, Closing, Live
  <2>0. /\ fund[r].src \in {"wallet", "subscription"} /\ ~Returnable(r) /\ op[r].delta > 0 /\ op[r].fee = 0
    BY <1>0, <2>1 DEF
       Sources, Shape, OpeningShape, LiveShape, OperationShape, Returnable, Due, Fresh,
       Opening, Reserving, Settling, Refunding, Closing, Live
  <2>2. CASE pc'[r] = "feeToken"
    <3>1. OwedFunding(r)' = Due(r)' /\ OwedToken(r)' = Due(r)' - op'[r].fee
      BY <2>2 DEF OwedFunding, OwedToken, Fresh, Opening, Reserving, Settling,
         Refunding, Closing, Live
    <3>2. ~Returnable(r)' /\ Metered(r) /\ Due(r)' = Due(r) + op'[r].fee
      BY <1>0, <1>25, PostConsumeFundingEffect, <2>0, <2>1, <2>2 DEF Calm, Hit, Due,
         Returnable, Closing, NoSess
    <3>3. OtherLedgers(r)'
      BY <1>0, <1>25, PostConsumeFundingEffect, <2>0, <2>1, <2>2, <3>1, <3>2 DEF
         FundMoves, NetMoves, Calm, Hit, Ledger, OtherLedgers, Fresh, Opening
    <3>4. Covered(r)'
      BY SMTT(30), <1>0, <1>25, PostConsumeFundingEffect, <2>0, <2>1, <2>2, <3>1, <3>2 DEF
         FundMoves, NetMoves, Calm, Hit, Ledger, OtherLedgers, Covered, ConsumedExact,
         Opening, Live, Refunding, Reserving
    <3>5. ConsumedExact(r)'
      BY <1>0, <1>25, PostConsumeFundingEffect, <2>0, <2>1, <2>2, <3>1, <3>2 DEF
         FundMoves, NetMoves, Calm, Hit, Ledger, OtherLedgers, ConsumedExact, Opening,
         Fresh, Opening, Reserving, Settling, Refunding, Closing, Live
    <3>6. ExactLedgers(r)'
      BY SMTT(90), <1>0, <1>25, PostConsumeFundingEffect, <2>0, <2>1, <2>2, <3>1, <3>2 DEF
         FundMoves, NetMoves, Calm, Hit, Ledger, OtherLedgers, ExactLedgers
    <3>. QED  BY <3>3, <3>4, <3>5, <3>6 DEF Ledger
  <2>3. CASE pc'[r] = "end"
    <3>1. OwedFunding(r)' = Due(r)' /\ OwedToken(r)' = Due(r)'
      BY <2>3 DEF OwedFunding, OwedToken, Fresh, Opening, Reserving, Settling,
         Refunding, Closing, Live
    <3>2. ~Returnable(r)'
          /\ \/ ~Metered(r) /\ Due(r)' = Due(r) + op[r].delta /\ FundMoves(r, op[r].delta)
             \/ (Calm(r) \/ Hit(r)) /\ Due(r)' = Due(r)
          /\ UNCHANGED <<req[r], fund[r]>>
      BY <1>0, <1>25, PostConsumeFundingEffect, <2>0, <2>1, <2>3 DEF Calm, Hit, Due,
         Returnable, Closing, NoSess
    <3>3. OtherLedgers(r)'
      BY <1>0, <1>25, PostConsumeFundingEffect, <2>0, <2>1, <2>3, <3>1, <3>2 DEF
         FundMoves, NetMoves, Calm, Hit, Ledger, OtherLedgers, Fresh, Opening
    <3>4. Covered(r)'
      <4>1. net'[r].wallet >= 0 /\ net'[r].token >= 0 /\ ("recordSave" \notin Faults => net'[r].sub >= 0)
        BY SMTT(30), <1>0, <2>0, <2>1, <2>3, <3>1, <3>2 DEF FundMoves, NetMoves, Calm, Hit,
           Ledger, OtherLedgers, Covered, ConsumedExact, Opening, Live, Refunding,
           Reserving
      <4>2. Returnable(r)' /\ fund'[r].src = "wallet" => net'[r].wallet >= OwedFunding(r)'
        BY <1>0, <2>0, <2>1, <2>3, <3>1, <3>2 DEF FundMoves, NetMoves, Calm, Hit,
           Ledger, OtherLedgers, Covered, ConsumedExact, Opening, Live, Refunding,
           Reserving
      <4>3. Returnable(r)' /\ fund'[r].src = "subscription" /\ "recordSave" \notin Faults =>
               net'[r].sub >= OwedFunding(r)'
        BY <1>0, <2>0, <2>1, <2>3, <3>1, <3>2 DEF FundMoves, NetMoves, Calm, Hit,
           Ledger, OtherLedgers, Covered, ConsumedExact, Opening, Live, Refunding,
           Reserving
      <4>4. Returnable(r)' /\ Metered(r)' => net'[r].token >= OwedToken(r)'
        BY <1>0, <2>0, <2>1, <2>3, <3>1, <3>2 DEF FundMoves, NetMoves, Calm, Hit,
           Ledger, OtherLedgers, Covered, ConsumedExact, Opening, Live, Refunding,
           Reserving
      <4>. QED  BY <4>1, <4>2, <4>3, <4>4 DEF Covered
    <3>5. ConsumedExact(r)'
      BY <1>0, <1>25, PostConsumeFundingEffect, <2>0, <2>1, <2>3, <3>1, <3>2 DEF
         FundMoves, NetMoves, Calm, Hit, Ledger, OtherLedgers, ConsumedExact, Opening,
         Fresh, Opening, Reserving, Settling, Refunding, Closing, Live
    <3>6. ExactLedgers(r)'
      BY <1>0, <1>25, PostConsumeFundingEffect, <2>0, <2>1, <2>3, <3>1, <3>2 DEF
         FundMoves, NetMoves, Calm, Hit, Ledger, OtherLedgers, ExactLedgers,
         ConsumedExact, Opening, Live, Refunding
    <3>. QED  BY <3>3, <3>4, <3>5, <3>6 DEF Ledger
  <2>. QED  BY <1>0, <1>25, PostConsumeFundingEffect, <2>1, <2>2, <2>3 DEF Shape,
       OpeningShape, OperationShape, Fresh, Opening, Reserving, Settling, Refunding,
       Closing, Live
<1>26. CASE PostConsumeToken(r)
  <2>1. pc[r] = "feeToken" /\ OwedFunding(r) = Due(r) /\ OwedToken(r) = Due(r) - op[r].fee
    BY <1>0, <1>26, PostConsumeTokenEffect DEF OwedFunding, OwedToken, Fresh, Opening,
       Reserving, Settling, Refunding, Closing, Live
  <2>0. /\ fund[r].src \in {"wallet", "subscription"} /\ ~Returnable(r) /\ op[r].delta > 0 /\ op[r].fee = op[r].delta /\ Metered(r)
    BY <1>0, <2>1 DEF
       Sources, Shape, OpeningShape, LiveShape, OperationShape, Returnable, Due, Fresh,
       Opening, Reserving, Settling, Refunding, Closing, Live
  <2>2. CASE pc'[r] = "end"
    <3>1. OwedFunding(r)' = Due(r)' /\ OwedToken(r)' = Due(r)'
      BY <2>2 DEF OwedFunding, OwedToken, Fresh, Opening, Reserving, Settling,
         Refunding, Closing, Live
    <3>2. ~Returnable(r)' /\ Due(r)' = Due(r)
      BY <1>0, <1>26, PostConsumeTokenEffect, <2>0, <2>1, <2>2 DEF Calm, Hit, Due,
         Returnable, Closing, NoSess
    <3>3. OtherLedgers(r)'
      BY <1>0, <1>26, PostConsumeTokenEffect, <2>0, <2>1, <2>2, <3>1, <3>2 DEF
         NetMoves, Calm, Hit, Ledger, OtherLedgers, Fresh, Opening
    <3>4. Covered(r)'
      BY <1>0, <1>26, PostConsumeTokenEffect, <2>0, <2>1, <2>2, <3>1, <3>2 DEF
         NetMoves, Calm, Hit, Ledger, OtherLedgers, Covered, ConsumedExact, Opening,
         Live, Refunding, Reserving
    <3>5. ConsumedExact(r)'
      BY <1>0, <1>26, PostConsumeTokenEffect, <2>0, <2>1, <2>2, <3>1, <3>2 DEF
         NetMoves, Calm, Hit, Ledger, OtherLedgers, ConsumedExact, Opening, Fresh,
         Opening, Reserving, Settling, Refunding, Closing, Live
    <3>6. ExactLedgers(r)'
      BY <1>0, <1>26, PostConsumeTokenEffect, <2>0, <2>1, <2>2, <3>1, <3>2 DEF
         NetMoves, Calm, Hit, Ledger, OtherLedgers, ExactLedgers, ConsumedExact,
         Opening, Live, Refunding
    <3>. QED  BY <3>3, <3>4, <3>5, <3>6 DEF Ledger
  <2>. QED  BY <1>0, <1>26, PostConsumeTokenEffect, <2>1, <2>2 DEF Shape, OpeningShape,
       OperationShape, Fresh, Opening, Reserving, Settling, Refunding, Closing, Live
<1>. QED
  BY <1>1, <1>2, <1>3, <1>4, <1>5, <1>6, <1>7, <1>8, <1>9, <1>10, <1>11, <1>12,
     <1>13, <1>14, <1>15, <1>16, <1>17, <1>18, <1>19, <1>20, <1>21, <1>22, <1>23, <1>24,
     <1>25, <1>26, <1>27, <1>28 DEF RequestStep

-----------------------------------------------------------------------------
(* Type correctness *)

\* What the amounts a step writes are.
LEMMA AmountsStep ==
    ASSUME BillingInv, NEW r \in Requests
    PROVE  /\ pc[r] \in Opening \cup {"rsvFunding", "feeFunding"} \cup Reserving => op[r].delta \in Nat
           /\ pc[r] = "rsvRoll" => Consumed(r, -op[r].delta) \in Nat
           /\ pc[r] = "refFunding" => op[r].tries + 1 \in 0..3
<1>0. TypeOK /\ Fields(r) /\ Shape(r) /\ Ledger(r)
  BY FieldTypes DEF BillingInv
<1>1. pc[r] \in Opening \cup {"rsvFunding", "feeFunding"} \cup Reserving => op[r].delta \in Nat
  BY <1>0 DEF Fields, Shape, OpeningShape, OperationShape, Opening, Reserving
<1>2. ASSUME pc[r] = "rsvRoll" PROVE Consumed(r, -op[r].delta) \in Nat
  <2>1. CASE fund[r].src = "wallet"
    <3>1. Returnable(r) /\ OwedFunding(r) = sess[r].pre + op[r].delta
      BY <1>0, <1>2 DEF Shape, LiveShape, Returnable, OwedFunding, Live, Reserving, Closing
    <3>2. net[r].wallet = fund[r].consumed /\ net[r].wallet >= sess[r].pre + op[r].delta
      BY <1>0, <1>2, <2>1, <3>1 DEF Ledger, ConsumedExact, Covered, Live, Reserving
    <3>. QED  BY <1>0, <2>1, <3>2 DEF Consumed, Fields
  <2>2. CASE fund[r].src # "wallet"
    BY <1>0, <2>2 DEF Consumed, Fields
  <2>. QED  BY <2>1, <2>2
<1>3. pc[r] = "refFunding" => op[r].tries + 1 \in 0..3
  BY <1>0 DEF Fields, Shape, LiveShape, Live, Refunding, MaxRefundAttempts
<1>. QED  BY <1>1, <1>2, <1>3

\* The ledgers of the subscriptions, and those of the requests.
SubTypes ==
    /\ subUsed \in [SubIds -> Nat] /\ subStatus \in [SubIds -> Statuses]
    /\ subNext \in [SubIds -> Nat] /\ overwritten \subseteq SubIds /\ renewed \subseteq SubIds

LedgerTypes ==
    /\ wallet \in Int /\ token \in Int /\ SubTypes
    /\ record \in [Requests -> {"none", "consumed", "refunded"}]
    /\ net \in [Requests -> NetType]
    /\ row \in [Requests -> RowType \cup {NoRow}]

SessionTypes ==
    /\ sess \in [Requests -> SessType] /\ flags \in [Requests -> SUBSET Flags]
    /\ fund \in [Requests -> FundType] /\ op \in [Requests -> OpType]

\* A saved row keeps its types.
LEMMA SaveTypes ==
    ASSUME TypeOK, NEW w \in RowType, NEW used \in Nat, NEW next \in Nat, Save(w, used, next),
           UNCHANGED renewed \/ Renews(w)
    PROVE  SubTypes'
<1>1. w.id \in SubIds /\ w.status \in Statuses
  BY DEF RowType
<1>2. subUsed' \in [SubIds -> Nat] /\ subNext' \in [SubIds -> Nat]
  BY DEF Save, TypeOK
<1>3. subStatus' \in [SubIds -> Statuses]
  BY <1>1 DEF Save, TypeOK
<1>4. overwritten' \subseteq SubIds /\ renewed' \subseteq SubIds
  BY <1>1 DEF Save, Renews, TypeOK
<1>. QED  BY <1>2, <1>3, <1>4 DEF SubTypes

LEMMA DoneTypes ==
    ASSUME TypeOK, NEW r \in Requests, UNCHANGED row \/ Done(r)
    PROVE  row' \in [Requests -> RowType \cup {NoRow}]
  BY DEF Done, TypeOK

\* A row is left a natural number by PostConsumeUserSubscriptionDelta, and the part
\* the clamp keeps is one.
LEMMA UsedType ==
    ASSUME NEW w \in RowType, NEW n \in Int
    PROVE  UsedAfter(w, n) \in Nat /\ Clamped(w, n) \in Nat
<1>1. w.used \in Nat
  BY DEF RowType
<1>. QED  BY <1>1 DEF UsedAfter, Clamped

LEMMA RowTypes ==
    ASSUME TypeOK, NEW r \in Requests
    PROVE  row[r] # NoRow => row[r] \in RowType /\ row[r].next \in Nat /\ row[r].used \in Nat
  BY DEF TypeOK, RowType

LEMMA MoveTypes ==
    ASSUME TypeOK, NEW r \in Requests, NEW n \in Int, MoveSub(r, n)
    PROVE  /\ wallet' \in Int /\ token' \in Int /\ SubTypes' /\ net' \in [Requests -> NetType]
           /\ row' \in [Requests -> RowType \cup {NoRow}]
<1>0. net[r] \in NetType /\ net[r].sub \in Int /\ net[r].clamped \in Nat
  BY DEF TypeOK, NetType
<1>1. row[r] \in RowType /\ row[r].next \in Nat
  BY RowTypes DEF MoveSub
<1>2. UsedAfter(row[r], n) \in Nat /\ Clamped(row[r], n) \in Nat
  BY <1>1, UsedType
<1>3. SubTypes'
  BY <1>1, <1>2, SaveTypes DEF MoveSub
<1>4. net' \in [Requests -> NetType]
  <2>1. net' = [net EXCEPT ![r].sub = net[r].sub + n,
                           ![r].clamped = net[r].clamped + Clamped(row[r], n)]
    BY DEF MoveSub
  <2>2. net[r].sub + n \in Int /\ net[r].clamped + Clamped(row[r], n) \in Nat
    BY <1>0, <1>2
  <2>. QED  BY <1>0, <2>1, <2>2 DEF TypeOK, NetType
<1>5. row' \in [Requests -> RowType \cup {NoRow}]
  BY DoneTypes DEF MoveSub
<1>. QED  BY <1>3, <1>4, <1>5 DEF MoveSub, TypeOK

\* The statements on the ledgers keep their types.
LEMMA TakeTypes ==
    ASSUME TypeOK, NEW r \in Requests, NEW n \in Int,
           TakeWallet(r, n) \/ TakeToken(r, n) \/ TakeSub(r, n) \/ Take(r, n)
    PROVE  LedgerTypes'
<1>0. net[r] \in NetType /\ net[r].wallet \in Int /\ net[r].token \in Int /\ net[r].sub \in Int
  BY DEF TypeOK, NetType
<1>1. CASE TakeWallet(r, n)
  <2>1. SubTypes' /\ row' \in [Requests -> RowType \cup {NoRow}]
    BY <1>1 DEF TakeWallet, subs, SubTypes, TypeOK
  <2>. QED  BY <1>0, <1>1, <2>1 DEF TakeWallet, LedgerTypes, TypeOK, NetType
<1>2. CASE TakeToken(r, n)
  <2>1. SubTypes' /\ row' \in [Requests -> RowType \cup {NoRow}]
    BY <1>2 DEF TakeToken, subs, SubTypes, TypeOK
  <2>. QED  BY <1>0, <1>2, <2>1 DEF TakeToken, LedgerTypes, TypeOK, NetType
<1>3. CASE TakeSub(r, n)
  BY <1>3, MoveTypes DEF TakeSub, LedgerTypes, TypeOK
<1>. QED  BY <1>1, <1>2, <1>3 DEF Take

LEMMA ErrorTypes ==
    ASSUME TypeOK, NEW r \in Requests, NEW f, Fault(r, f)
    PROVE  faults' \in [Requests -> 0..MaxFaults]
  BY FaultAssumption DEF Fault, TypeOK

LEMMA QuietTypes ==
    ASSUME TypeOK, NEW r \in Requests, UNCHANGED ledgers, UNCHANGED row \/ Done(r)
    PROVE  LedgerTypes'
<1>1. row' \in [Requests -> RowType \cup {NoRow}]
  BY DoneTypes
<1>. QED  BY <1>1 DEF subs, ledgers, LedgerTypes, SubTypes, TypeOK

LEMMA ReservedType ==
    ASSUME NEW f \in SessType, NEW n \in Nat
    PROVE  Reserved(f, n) \in SessType
<1>. DEFINE g == [f EXCEPT !.pre = @ + n]
            h == [g EXCEPT !.tokenConsumed = @ + n]
<1>1. g \in SessType
  BY DEF SessType
<1>2. h \in SessType
  <2>. HIDE DEF g
  <2>. QED  BY <1>1 DEF SessType
<1>3. [h EXCEPT !.extra = @ + n] \in SessType
  <2>. HIDE DEF h
  <2>. QED  BY <1>2 DEF SessType
<1>. QED  BY <1>3 DEF Reserved

\* Writes of one field of a session.
LEMMA SessWrites ==
    ASSUME TypeOK, NEW r \in Requests, NEW n \in Nat
    PROVE  /\ [sess EXCEPT ![r].pre = n] \in [Requests -> SessType]
           /\ [sess EXCEPT ![r] = Reserved(@, n)] \in [Requests -> SessType]
           /\ [fund EXCEPT ![r].consumed = n] \in [Requests -> FundType]
           /\ n \in 0..3 => [op EXCEPT ![r].tries = n] \in [Requests -> OpType]
<1>0. sess[r] \in SessType /\ fund[r] \in FundType /\ op[r] \in OpType
  BY DEF TypeOK
<1>1. [sess EXCEPT ![r].pre = n] \in [Requests -> SessType]
  BY <1>0 DEF TypeOK, SessType
<1>2. [sess EXCEPT ![r] = Reserved(@, n)] \in [Requests -> SessType]
  BY <1>0, ReservedType DEF TypeOK
<1>3. [fund EXCEPT ![r].consumed = n] \in [Requests -> FundType]
  BY <1>0 DEF TypeOK, FundType
<1>4. n \in 0..3 => [op EXCEPT ![r].tries = n] \in [Requests -> OpType]
  BY <1>0 DEF TypeOK, OpType
<1>. QED  BY <1>1, <1>2, <1>3, <1>4

LEMMA DeltaWrites ==
    ASSUME TypeOK, NEW r \in Requests, NEW d \in Int
    PROVE  [op EXCEPT ![r].delta = d] \in [Requests -> OpType]
<1>0. op[r] \in OpType
  BY DEF TypeOK
<1>. QED  BY <1>0 DEF TypeOK, OpType

LEMMA SubWrites ==
    ASSUME TypeOK, NEW r \in Requests, NEW n \in Nat, NEW k \in Nat
    PROVE  [fund EXCEPT ![r].subId = k, ![r].subPre = n] \in [Requests -> FundType]
<1>0. fund[r] \in FundType
  BY DEF TypeOK
<1>. QED  BY <1>0 DEF TypeOK, FundType

LEMMA FundingFailsTypes ==
    ASSUME TypeOK, NEW r \in Requests, NEW b \in BOOLEAN, FundingFails(r, b)
    PROVE  SessionTypes'
<1>0. op[r] \in OpType
  BY DEF TypeOK
<1>1. CASE UNCHANGED <<sess, flags, fund>> /\ op' = [op EXCEPT ![r].next = Fallback(r, b)]
  <2>1. Fallback(r, b) \in Places
    BY DEF Fallback, Places
  <2>. QED  BY <1>0, <1>1, <2>1 DEF TypeOK, SessionTypes, OpType
<1>2. CASE Abandon(r, Fallback(r, b))
  <2>1. NoSess \in SessType /\ {} \in SUBSET Flags /\ NoFund \in FundType /\ NoOp \in OpType
    BY DEF NoSess, NoFund, NoOp, SessType, FundType, OpType, Sources, Places
  <2>. QED  BY <1>2, <2>1 DEF Abandon, TypeOK, SessionTypes
<1>. QED  BY <1>1, <1>2 DEF FundingFails

FrameTypes ==
    /\ period \in [SubIds -> 0..MaxPeriods] /\ locked \in RowType \cup {NoRow}
    /\ req \in [Requests -> ReqType]

LEMMA RowIsTyped ==
    ASSUME TypeOK, NEW k \in SubIds
    PROVE  Row(k) \in RowType /\ Row(k).id = k
<1>1. subUsed[k] \in Nat /\ subStatus[k] \in Statuses /\ subNext[k] \in Nat /\ period[k] \in Nat
  BY UsageAssumption DEF TypeOK
<1>. QED  BY <1>1 DEF Row, RowType

\* Every step keeps the types.
LEMMA TypeStep ==
    ASSUME BillingInv, NEW r \in Requests, RequestStep(r)
    PROVE  TypeOK'
<1>0. TypeOK /\ Fields(r) /\ Shape(r)
  BY FieldTypes DEF BillingInv
<1>01. /\ req[r] \in ReqType /\ sess[r] \in SessType /\ fund[r] \in FundType /\ op[r] \in OpType
       /\ net[r] \in NetType
  BY <1>0 DEF TypeOK
<1>02. SubServed(r)
  BY DEF BillingInv
<1>. USE DEF TypeOK, Fields
<1>1. CASE Start(r)
  <2>1. LedgerTypes' /\ faults' \in [Requests -> 0..MaxFaults]
    BY <1>0, <1>01, <1>1, QuietTypes, ErrorTypes DEF Start, Quiet, NoError, DbError, Done
  <2>2. pc' \in [Requests -> PCs]
    BY <1>0, <1>01, <1>1 DEF Start, GoTo, PCs, Places,
       FirstTry
  <2>3. SessionTypes'
    BY <1>0, <1>1 DEF Start, session, SessionTypes
  <2>4. FrameTypes'
    BY <1>0, <1>01, <1>1, AmountAssumption, ChoiceAssumption DEF Start, ReqType,
       AllPrefs, AllKinds, FrameTypes
  <2>. QED  BY <2>1, <2>2, <2>3, <2>4 DEF LedgerTypes, SubTypes, SessionTypes, FrameTypes
<1>2. CASE HasActiveUserSubscription(r)
  <2>1. LedgerTypes' /\ faults' \in [Requests -> 0..MaxFaults]
    BY <1>0, <1>01, <1>2, QuietTypes, ErrorTypes DEF HasActiveUserSubscription, Quiet,
       NoError, DbError, Done
  <2>2. pc' \in [Requests -> PCs]
    BY <1>0, <1>01, <1>2 DEF
       HasActiveUserSubscription, GoTo, PCs, Places
  <2>3. SessionTypes'
    BY <1>0, <1>2 DEF HasActiveUserSubscription, session, SessionTypes
  <2>4. FrameTypes'
    BY <1>0, <1>01, <1>2 DEF HasActiveUserSubscription, Frame, FrameTypes
  <2>. QED  BY <2>1, <2>2, <2>3, <2>4 DEF LedgerTypes, SubTypes, SessionTypes, FrameTypes
<1>3. CASE TryWallet(r)
  <2>1. LedgerTypes' /\ faults' \in [Requests -> 0..MaxFaults]
    BY <1>0, <1>01, <1>3, QuietTypes, ErrorTypes DEF TryWallet, Quiet, NoError, DbError, Done
  <2>2. pc' \in [Requests -> PCs]
    BY <1>0, <1>01, <1>3 DEF TryWallet, GoTo, PCs,
       Places, BeginPreConsume
  <2>3. SessionTypes'
    <3>1. sess' \in [Requests -> SessType]
      BY <1>0, <1>01, <1>3, AmountsStep DEF
         TryWallet, session, Opening, Reserving, SessType, NoSess, BeginPreConsume
    <3>2. flags' \in [Requests -> SUBSET Flags]
      BY <1>0, <1>01, <1>3, AmountsStep DEF
         TryWallet, session, Opening, Reserving, Flags, BeginPreConsume
    <3>3. fund' \in [Requests -> FundType]
      BY SMTT(30), <1>0, <1>01, <1>3, AmountsStep DEF
         TryWallet, session, Opening, Reserving, FundType, Sources, NoFund,
         BeginPreConsume
    <3>4. op' \in [Requests -> OpType]
      <4>1. op' = op \/ op' = [op EXCEPT ![r].delta = IF ShouldTrust(r) THEN 0 ELSE req[r].est]
        BY <1>3 DEF TryWallet, BeginPreConsume, session
      <4>2. (IF ShouldTrust(r) THEN 0 ELSE req[r].est) \in Int
        BY <1>0
      <4>3. op \in [Requests -> OpType]
        BY <1>0
      <4>. HIDE DEF TypeOK
      <4>. QED  BY <1>0, <4>1, <4>2, <4>3, DeltaWrites
    <3>. QED  BY <3>1, <3>2, <3>3, <3>4 DEF SessionTypes
  <2>4. FrameTypes'
    BY <1>0, <1>01, <1>3 DEF TryWallet, Frame, FrameTypes
  <2>. QED  BY <2>1, <2>2, <2>3, <2>4 DEF LedgerTypes, SubTypes, SessionTypes, FrameTypes
<1>4. CASE TrySubscription(r)
  <2>1. LedgerTypes' /\ faults' \in [Requests -> 0..MaxFaults]
    BY <1>0, <1>01, <1>4, QuietTypes, ErrorTypes DEF TrySubscription, Quiet, NoError,
       DbError, Done
  <2>2. pc' \in [Requests -> PCs]
    BY <1>0, <1>01, <1>4 DEF TrySubscription, GoTo,
       PCs, Places, BeginPreConsume
  <2>3. SessionTypes'
    <3>1. sess' \in [Requests -> SessType]
      BY <1>0, <1>01, <1>4, AmountsStep DEF
         TrySubscription, session, Opening, Reserving, SessType, NoSess, BeginPreConsume
    <3>2. flags' \in [Requests -> SUBSET Flags]
      BY <1>0, <1>01, <1>4, AmountsStep DEF
         TrySubscription, session, Opening, Reserving, Flags, BeginPreConsume
    <3>3. fund' \in [Requests -> FundType]
      BY <1>0, <1>01, <1>4, AmountsStep DEF
         TrySubscription, session, Opening, Reserving, FundType, Sources, NoFund,
         BeginPreConsume
    <3>4. op' \in [Requests -> OpType]
      <4>. DEFINE q == IF req[r].est = 0 THEN 1 ELSE req[r].est
      <4>1. q \in Int /\ op' = [op EXCEPT ![r].delta = q]
        BY <1>0, <1>4 DEF TrySubscription, BeginPreConsume
      <4>. HIDE DEF q
      <4>. QED  BY <1>0, <4>1, DeltaWrites
    <3>. QED  BY <3>1, <3>2, <3>3, <3>4 DEF SessionTypes
  <2>4. FrameTypes'
    BY <1>0, <1>01, <1>4 DEF TrySubscription, Frame, FrameTypes
  <2>. QED  BY <2>1, <2>2, <2>3, <2>4 DEF LedgerTypes, SubTypes, SessionTypes, FrameTypes
<1>5. CASE CheckToken(r)
  <2>1. LedgerTypes' /\ faults' \in [Requests -> 0..MaxFaults]
    BY <1>0, <1>01, <1>5, QuietTypes, ErrorTypes DEF CheckToken, Quiet, NoError, DbError, Done
  <2>2. pc' \in [Requests -> PCs]
    BY <1>0, <1>01, <1>5 DEF CheckToken, GoTo, PCs,
       Places
  <2>3. SessionTypes'
    <3>1. sess' \in [Requests -> SessType]
      BY <1>0, <1>01, <1>5, AmountsStep DEF
         CheckToken, session, Opening, Reserving, SessType, NoSess
    <3>2. flags' \in [Requests -> SUBSET Flags]
      BY <1>0, <1>01, <1>5, AmountsStep DEF
         CheckToken, session, Opening, Reserving, Flags
    <3>3. fund' \in [Requests -> FundType]
      BY <1>0, <1>01, <1>5, AmountsStep DEF
         CheckToken, session, Opening, Reserving, FundType, Sources, NoFund
    <3>4. op' \in [Requests -> OpType]
      BY <1>0, <1>01, <1>5, AmountsStep DEF
         CheckToken, session, Opening, Reserving, OpType, Places, NoOp
    <3>. QED  BY <3>1, <3>2, <3>3, <3>4 DEF SessionTypes
  <2>4. FrameTypes'
    BY <1>0, <1>01, <1>5 DEF CheckToken, Frame, FrameTypes
  <2>. QED  BY <2>1, <2>2, <2>3, <2>4 DEF LedgerTypes, SubTypes, SessionTypes, FrameTypes
<1>6. CASE PreConsumeTokenQuota(r)
  <2>1. LedgerTypes' /\ faults' \in [Requests -> 0..MaxFaults]
    BY <1>0, <1>01, <1>6, TakeTypes, ErrorTypes, QuietTypes DEF PreConsumeTokenQuota,
       Quiet, NoError, DbError, Done
  <2>2. pc' \in [Requests -> PCs]
    BY <1>0, <1>01, <1>6 DEF PreConsumeTokenQuota,
       GoTo, PCs, Places
  <2>3. SessionTypes'
    <3>1. sess' \in [Requests -> SessType]
      BY SMTT(30), <1>0, <1>01, <1>6, AmountsStep DEF
         PreConsumeTokenQuota, session, Opening, Reserving, SessType, NoSess
    <3>2. flags' \in [Requests -> SUBSET Flags]
      BY <1>0, <1>01, <1>6, AmountsStep DEF
         PreConsumeTokenQuota, session, Opening, Reserving, Flags
    <3>3. fund' \in [Requests -> FundType]
      BY <1>0, <1>01, <1>6, AmountsStep DEF
         PreConsumeTokenQuota, session, Opening, Reserving, FundType, Sources, NoFund
    <3>4. op' \in [Requests -> OpType]
      BY <1>0, <1>01, <1>6, AmountsStep DEF
         PreConsumeTokenQuota, session, Opening, Reserving, OpType, Places, NoOp
    <3>. QED  BY <3>1, <3>2, <3>3, <3>4 DEF SessionTypes
  <2>4. FrameTypes'
    BY <1>0, <1>01, <1>6 DEF PreConsumeTokenQuota, Frame, FrameTypes
  <2>. QED  BY <2>1, <2>2, <2>3, <2>4 DEF LedgerTypes, SubTypes, SessionTypes, FrameTypes
<1>7. CASE PreConsumeWallet(r)
  <2>1. LedgerTypes' /\ faults' \in [Requests -> 0..MaxFaults]
    BY <1>0, <1>01, <1>7, TakeTypes, ErrorTypes, QuietTypes DEF PreConsumeWallet, Quiet,
       NoError, DbError, Done
  <2>2. pc' \in [Requests -> PCs]
    BY <1>0, <1>01, <1>7 DEF PreConsumeWallet, GoTo,
       PCs, Places, FundingFails, Abandon, Fallback
  <2>3. SessionTypes'
    <3>1. op[r].delta \in Nat
      BY <1>7, AmountsStep DEF PreConsumeWallet, Opening
    <3>2. CASE /\ fund' = [fund EXCEPT ![r].consumed = op[r].delta]
               /\ sess' = [sess EXCEPT ![r].pre = op[r].delta] /\ UNCHANGED <<flags, op>>
      BY <1>0, <3>1, <3>2, SessWrites DEF SessionTypes
    <3>3. CASE FundingFails(r, FALSE)
      BY <1>0, <3>3, FundingFailsTypes
    <3>. QED  BY <1>7, <3>2, <3>3 DEF PreConsumeWallet
  <2>4. FrameTypes'
    BY <1>0, <1>01, <1>7 DEF PreConsumeWallet, Frame, FrameTypes
  <2>. QED  BY <2>1, <2>2, <2>3, <2>4 DEF LedgerTypes, SubTypes, SessionTypes, FrameTypes
<1>8. CASE PreConsumeSubscription(r)
  <2>0. op[r].delta \in Nat /\ row[r] \in RowType /\ row[r].next \in Nat
    BY <1>0, <1>8, AmountsStep, RowTypes DEF PreConsumeSubscription, Opening
  <2>1. LedgerTypes' /\ faults' \in [Requests -> 0..MaxFaults]
    <3>1. CASE /\ Save(row[r], UsedThisPeriod(row[r]) + op[r].delta, NextReset(row[r]))
               /\ Renews(row[r]) /\ record' = [record EXCEPT ![r] = "consumed"]
               /\ net' = [net EXCEPT ![r].sub = @ + op[r].delta]
               /\ Done(r) /\ NoError /\ UNCHANGED <<wallet, token>>
      <4>1. UsedThisPeriod(row[r]) + op[r].delta \in Nat /\ NextReset(row[r]) \in Nat
        BY <2>0 DEF UsedThisPeriod, NextReset, RowType
      <4>2. SubTypes'
        <5>. HIDE DEF TypeOK
        <5>. QED  BY <1>0, <2>0, <3>1, <4>1, SaveTypes
      <4>3. net' \in [Requests -> NetType]
        BY <1>0, <1>01, <3>1 DEF NetType
      <4>4. row' \in [Requests -> RowType \cup {NoRow}]
        BY <1>0, <3>1, DoneTypes
      <4>. QED  BY <1>0, <3>1, <4>2, <4>3, <4>4 DEF LedgerTypes, NoError
    <3>2. CASE DbError(r)
      BY <1>0, <3>2, QuietTypes, ErrorTypes DEF DbError
    <3>. QED  BY <1>8, <3>1, <3>2 DEF PreConsumeSubscription
  <2>2. pc' \in [Requests -> PCs]
    BY <1>0, <1>01, <1>8 DEF PreConsumeSubscription,
       GoTo, PCs, Places, FundingFails, Abandon, Fallback
  <2>3. SessionTypes'
    <3>1. CASE /\ fund' = [fund EXCEPT ![r].subId = row[r].id, ![r].subPre = op[r].delta]
               /\ sess' = [sess EXCEPT ![r].pre = op[r].delta] /\ UNCHANGED <<flags, op>>
      <4>2. row[r].id \in Nat
        BY <2>0, CountAssumption DEF RowType, SubIds
      <4>. QED  BY <1>0, <2>0, <3>1, <4>2, SessWrites, SubWrites DEF SessionTypes
    <3>2. CASE \E b \in BOOLEAN : FundingFails(r, b)
      BY <1>0, <3>2, FundingFailsTypes
    <3>. QED  BY <1>8, <3>1, <3>2 DEF PreConsumeSubscription
  <2>4. FrameTypes'
    BY <1>0, <1>01, <1>8 DEF PreConsumeSubscription, Frame, FrameTypes
  <2>. QED  BY <2>1, <2>2, <2>3, <2>4 DEF LedgerTypes, SubTypes, SessionTypes, FrameTypes
<1>27. CASE FindSubscription(r)
  <2>1. LedgerTypes' /\ faults' \in [Requests -> 0..MaxFaults]
    <3>1. CASE \E k \in SubIds : row' = [row EXCEPT ![r] = Row(k)] /\ UNCHANGED ledgers /\ NoError
      <4>1. row' \in [Requests -> RowType \cup {NoRow}]
        BY <1>0, <3>1, RowIsTyped
      <4>. QED  BY <1>0, <3>1, <4>1 DEF LedgerTypes, SubTypes, NoError, subs, ledgers
    <3>2. CASE Quiet \/ DbError(r)
      BY <1>0, <3>2, QuietTypes, ErrorTypes DEF Quiet, NoError, DbError
    <3>. QED  BY <1>27, <3>1, <3>2 DEF FindSubscription, Candidates
  <2>2. pc' \in [Requests -> PCs]
    BY <1>0, <1>01, <1>27 DEF FindSubscription, GoTo, PCs, Places, FundingFails, Abandon, Fallback
  <2>3. SessionTypes'
    <3>1. CASE UNCHANGED session
      BY <1>0, <3>1 DEF session, SessionTypes
    <3>2. CASE \E b \in BOOLEAN : FundingFails(r, b)
      BY <1>0, <3>2, FundingFailsTypes
    <3>. QED  BY <1>27, <3>1, <3>2 DEF FindSubscription
  <2>4. FrameTypes'
    BY <1>0, <1>01, <1>27 DEF FindSubscription, Frame, FrameTypes
  <2>. QED  BY <2>1, <2>2, <2>3, <2>4 DEF LedgerTypes, SubTypes, SessionTypes, FrameTypes
<1>28. CASE ReadSubscription(r)
  <2>1. LedgerTypes' /\ faults' \in [Requests -> 0..MaxFaults]
    <3>1. fund[r].subId \in SubIds
      BY <1>02, <1>28 DEF ReadSubscription, SubServed, Live, Reserving, Settling, Refunding, Closing
    <3>2. row' \in [Requests -> RowType \cup {NoRow}]
      BY <1>0, <1>28, <3>1, RowIsTyped DEF ReadSubscription
    <3>. QED  BY <1>0, <1>28, <3>2 DEF ReadSubscription, LedgerTypes, SubTypes, NoError, subs, ledgers
  <2>2. pc' \in [Requests -> PCs] /\ SessionTypes'
    BY <1>0, <1>28 DEF ReadSubscription, session, SessionTypes
  <2>4. FrameTypes'
    BY <1>0, <1>01, <1>28 DEF ReadSubscription, Frame, FrameTypes
  <2>. QED  BY <2>1, <2>2, <2>4 DEF LedgerTypes, SubTypes, SessionTypes, FrameTypes
<1>9. CASE RollBackToken(r)
  <2>1. LedgerTypes' /\ faults' \in [Requests -> 0..MaxFaults]
    BY <1>0, <1>01, <1>9, TakeTypes, ErrorTypes, QuietTypes DEF RollBackToken, Quiet,
       NoError, DbError, Done
  <2>2. pc' \in [Requests -> PCs]
    BY <1>0, <1>01, <1>9 DEF RollBackToken, GoTo, PCs,
       Places, Abandon
  <2>3. SessionTypes'
    <3>1. sess' \in [Requests -> SessType]
      BY <1>0, <1>01, <1>9, AmountsStep DEF
         RollBackToken, session, Opening, Reserving, SessType, NoSess, Abandon
    <3>2. flags' \in [Requests -> SUBSET Flags]
      BY <1>0, <1>01, <1>9, AmountsStep DEF
         RollBackToken, session, Opening, Reserving, Flags, Abandon
    <3>3. fund' \in [Requests -> FundType]
      BY <1>0, <1>01, <1>9, AmountsStep DEF
         RollBackToken, session, Opening, Reserving, FundType, Sources, NoFund, Abandon
    <3>4. op' \in [Requests -> OpType]
      BY <1>0, <1>01, <1>9, AmountsStep DEF
         RollBackToken, session, Opening, Reserving, OpType, Places, NoOp, Abandon
    <3>. QED  BY <3>1, <3>2, <3>3, <3>4 DEF SessionTypes
  <2>4. FrameTypes'
    BY <1>0, <1>01, <1>9 DEF RollBackToken, Frame, FrameTypes
  <2>. QED  BY <2>1, <2>2, <2>3, <2>4 DEF LedgerTypes, SubTypes, SessionTypes, FrameTypes
<1>10. CASE Reserve(r)
  <2>1. LedgerTypes' /\ faults' \in [Requests -> 0..MaxFaults]
    BY <1>0, <1>01, <1>10, QuietTypes, ErrorTypes DEF Reserve, Quiet, NoError, DbError, Done
  <2>2. pc' \in [Requests -> PCs]
    BY <1>0, <1>01, <1>10 DEF Reserve, GoTo, PCs,
       Places
  <2>3. SessionTypes'
    <3>1. sess' \in [Requests -> SessType]
      BY <1>0, <1>01, <1>10, AmountsStep, AmountAssumption DEF
         Reserve, session, Opening, Reserving, SessType, NoSess, ReserveTargets
    <3>2. flags' \in [Requests -> SUBSET Flags]
      BY <1>0, <1>01, <1>10, AmountsStep, AmountAssumption DEF
         Reserve, session, Opening, Reserving, Flags, ReserveTargets
    <3>3. fund' \in [Requests -> FundType]
      BY <1>0, <1>01, <1>10, AmountsStep, AmountAssumption DEF
         Reserve, session, Opening, Reserving, FundType, Sources, NoFund, ReserveTargets
    <3>4. op' \in [Requests -> OpType]
      <4>1. PICK target \in Targets : op' = [op EXCEPT ![r].delta = target - sess[r].pre]
        BY <1>10 DEF Reserve, ReserveTargets
      <4>2. target - sess[r].pre \in Int
        BY <1>0, AmountAssumption
      <4>3. op \in [Requests -> OpType]
        BY <1>0
      <4>. HIDE DEF TypeOK
      <4>. QED  BY <1>0, <4>1, <4>2, <4>3, DeltaWrites
    <3>. QED  BY <3>1, <3>2, <3>3, <3>4 DEF SessionTypes
  <2>4. FrameTypes'
    BY <1>0, <1>01, <1>10 DEF Reserve, Frame, FrameTypes
  <2>. QED  BY <2>1, <2>2, <2>3, <2>4 DEF LedgerTypes, SubTypes, SessionTypes, FrameTypes
<1>11. CASE ReserveFunding(r)
  <2>1. LedgerTypes' /\ faults' \in [Requests -> 0..MaxFaults]
    BY <1>0, <1>01, <1>11, TakeTypes, ErrorTypes, QuietTypes DEF ReserveFunding, Refused, Quiet,
       NoError, DbError, Done
  <2>2. pc' \in [Requests -> PCs]
    BY <1>0, <1>01, <1>11 DEF ReserveFunding, Refused, GoTo,
       PCs, Places
  <2>3. SessionTypes'
    <3>1. sess' \in [Requests -> SessType]
      <4>1. op[r].delta \in Nat
        BY <1>11, AmountsStep DEF ReserveFunding, Refused
      <4>2. [sess EXCEPT ![r] = Reserved(@, op[r].delta)] \in [Requests -> SessType]
        <5>. HIDE DEF TypeOK
        <5>. QED  BY <1>0, <4>1, SessWrites, Zenon
      <4>. QED  BY <1>0, <1>11, <4>2 DEF ReserveFunding, Refused
    <3>2. flags' \in [Requests -> SUBSET Flags]
      BY <1>0, <1>01, <1>11, AmountsStep DEF
         ReserveFunding, Refused, session, Opening, Reserving, Flags, Reserved, Consumed
    <3>3. fund' \in [Requests -> FundType]
      <4>1. Consumed(r, op[r].delta) \in Nat
        BY <1>0, <1>11 DEF ReserveFunding, Consumed, Shape, OperationShape
      <4>2. fund' = fund \/ fund' = [fund EXCEPT ![r].consumed = Consumed(r, op[r].delta)]
        BY <1>11 DEF ReserveFunding
      <4>3. fund \in [Requests -> FundType]
        BY <1>0
      <4>. HIDE DEF TypeOK
      <4>4. [fund EXCEPT ![r].consumed = Consumed(r, op[r].delta)] \in [Requests -> FundType]
        BY <1>0, <4>1, SessWrites, Zenon
      <4>. QED  BY <4>2, <4>3, <4>4, Zenon
    <3>4. op' \in [Requests -> OpType]
      BY <1>0, <1>01, <1>11, AmountsStep DEF
         ReserveFunding, Refused, session, Opening, Reserving, OpType, Places, NoOp, Reserved,
         Consumed
    <3>. QED  BY <3>1, <3>2, <3>3, <3>4 DEF SessionTypes
  <2>4. FrameTypes'
    BY <1>0, <1>01, <1>11 DEF ReserveFunding, Refused, Frame, FrameTypes
  <2>. QED  BY <2>1, <2>2, <2>3, <2>4 DEF LedgerTypes, SubTypes, SessionTypes, FrameTypes
<1>12. CASE ReserveCheckToken(r)
  <2>1. LedgerTypes' /\ faults' \in [Requests -> 0..MaxFaults]
    BY <1>0, <1>01, <1>12, QuietTypes, ErrorTypes DEF ReserveCheckToken, Quiet, NoError,
       DbError, Done
  <2>2. pc' \in [Requests -> PCs]
    BY <1>0, <1>01, <1>12 DEF ReserveCheckToken, GoTo,
       PCs, Places
  <2>3. SessionTypes'
    BY <1>0, <1>12 DEF ReserveCheckToken, session, SessionTypes
  <2>4. FrameTypes'
    BY <1>0, <1>01, <1>12 DEF ReserveCheckToken, Frame, FrameTypes
  <2>. QED  BY <2>1, <2>2, <2>3, <2>4 DEF LedgerTypes, SubTypes, SessionTypes, FrameTypes
<1>13. CASE ReserveToken(r)
  <2>1. LedgerTypes' /\ faults' \in [Requests -> 0..MaxFaults]
    BY <1>0, <1>01, <1>13, TakeTypes, ErrorTypes, QuietTypes DEF ReserveToken, Quiet,
       NoError, DbError, Done
  <2>2. pc' \in [Requests -> PCs]
    BY <1>0, <1>01, <1>13 DEF ReserveToken, GoTo, PCs,
       Places
  <2>3. SessionTypes'
    <3>1. sess' \in [Requests -> SessType]
      <4>1. op[r].delta \in Nat
        BY <1>13, AmountsStep DEF ReserveToken, Reserving
      <4>2. [sess EXCEPT ![r] = Reserved(@, op[r].delta)] \in [Requests -> SessType]
        <5>. HIDE DEF TypeOK
        <5>. QED  BY <1>0, <4>1, SessWrites, Zenon
      <4>. QED  BY <1>0, <1>13, <4>2 DEF ReserveToken
    <3>2. flags' \in [Requests -> SUBSET Flags]
      BY <1>0, <1>01, <1>13, AmountsStep DEF
         ReserveToken, session, Opening, Reserving, Flags, Reserved
    <3>3. fund' \in [Requests -> FundType]
      BY <1>0, <1>01, <1>13, AmountsStep DEF
         ReserveToken, session, Opening, Reserving, FundType, Sources, NoFund, Reserved
    <3>4. op' \in [Requests -> OpType]
      BY <1>0, <1>01, <1>13, AmountsStep DEF
         ReserveToken, session, Opening, Reserving, OpType, Places, NoOp, Reserved
    <3>. QED  BY <3>1, <3>2, <3>3, <3>4 DEF SessionTypes
  <2>4. FrameTypes'
    BY <1>0, <1>01, <1>13 DEF ReserveToken, Frame, FrameTypes
  <2>. QED  BY <2>1, <2>2, <2>3, <2>4 DEF LedgerTypes, SubTypes, SessionTypes, FrameTypes
<1>14. CASE RollbackFundingReserve(r)
  <2>1. LedgerTypes' /\ faults' \in [Requests -> 0..MaxFaults]
    BY <1>0, <1>01, <1>14, TakeTypes, ErrorTypes, QuietTypes DEF RollbackFundingReserve,
       Quiet, NoError, DbError, Done
  <2>2. pc' \in [Requests -> PCs]
    BY <1>0, <1>01, <1>14 DEF RollbackFundingReserve,
       GoTo, PCs, Places
  <2>3. SessionTypes'
    <3>1. sess' \in [Requests -> SessType]
      BY <1>0, <1>01, <1>14, AmountsStep DEF
         RollbackFundingReserve, session, Opening, Reserving, SessType, NoSess
    <3>2. flags' \in [Requests -> SUBSET Flags]
      BY <1>0, <1>01, <1>14, AmountsStep DEF
         RollbackFundingReserve, session, Opening, Reserving, Flags
    <3>3. fund' \in [Requests -> FundType]
      BY SMTT(30), <1>0, <1>01, <1>14, AmountsStep DEF
         RollbackFundingReserve, session, Opening, Reserving, FundType, Sources, NoFund
    <3>4. op' \in [Requests -> OpType]
      BY <1>0, <1>01, <1>14, AmountsStep DEF
         RollbackFundingReserve, session, Opening, Reserving, OpType, Places, NoOp
    <3>. QED  BY <3>1, <3>2, <3>3, <3>4 DEF SessionTypes
  <2>4. FrameTypes'
    BY <1>0, <1>01, <1>14 DEF RollbackFundingReserve, Frame, FrameTypes
  <2>. QED  BY <2>1, <2>2, <2>3, <2>4 DEF LedgerTypes, SubTypes, SessionTypes, FrameTypes
<1>15. CASE Settle(r)
  <2>1. LedgerTypes' /\ faults' \in [Requests -> 0..MaxFaults]
    BY <1>0, <1>01, <1>15, QuietTypes, ErrorTypes DEF Settle, Quiet, NoError, DbError, Done
  <2>2. pc' \in [Requests -> PCs]
    BY <1>0, <1>01, <1>15 DEF Settle, GoTo, PCs,
       Places
  <2>3. SessionTypes'
    <3>1. sess' \in [Requests -> SessType]
      BY <1>0, <1>01, <1>15, AmountsStep, AmountAssumption DEF
         Settle, session, Opening, Reserving, SessType, NoSess
    <3>2. flags' \in [Requests -> SUBSET Flags]
      BY <1>0, <1>01, <1>15, AmountsStep, AmountAssumption DEF
         Settle, session, Opening, Reserving, Flags
    <3>3. fund' \in [Requests -> FundType]
      BY <1>0, <1>01, <1>15, AmountsStep, AmountAssumption DEF
         Settle, session, Opening, Reserving, FundType, Sources, NoFund
    <3>4. op' \in [Requests -> OpType]
      <4>1. ASSUME NEW actual \in Actuals, NEW next \in {"open", "failed", "end"}
            PROVE  /\ [op EXCEPT ![r].actual = actual] \in [Requests -> OpType]
                   /\ [op EXCEPT ![r].delta = actual - sess[r].pre, ![r].actual = actual,
                                 ![r].next = next] \in [Requests -> OpType]
        <5>1. actual \in Nat /\ next \in Places /\ actual - sess[r].pre \in Int
          BY <1>0, AmountAssumption DEF Places
        <5>2. [op EXCEPT ![r].actual = actual] \in [Requests -> OpType]
          BY <1>01, <1>0, <5>1 DEF OpType
        <5>3. [op EXCEPT ![r].delta = actual - sess[r].pre, ![r].actual = actual,
                         ![r].next = next] \in [Requests -> OpType]
          BY <1>01, <1>0, <5>1 DEF OpType
        <5>. QED  BY <5>2, <5>3
      <4>2. PICK actual \in Actuals, next \in {"open", "failed", "end"} :
                \/ op' = op
                \/ op' = [op EXCEPT ![r].actual = actual]
                \/ op' = [op EXCEPT ![r].delta = actual - sess[r].pre, ![r].actual = actual,
                                    ![r].next = next]
        BY <1>15 DEF Settle
      <4>3. op \in [Requests -> OpType]
        BY <1>0
      <4>4. CASE op' = op
        BY <4>3, <4>4
      <4>5. CASE op' = [op EXCEPT ![r].actual = actual]
        BY <4>1, <4>5
      <4>6. CASE op' = [op EXCEPT ![r].delta = actual - sess[r].pre, ![r].actual = actual,
                                  ![r].next = next]
        BY <4>1, <4>6
      <4>. QED  BY <4>2, <4>4, <4>5, <4>6
    <3>. QED  BY <3>1, <3>2, <3>3, <3>4 DEF SessionTypes
  <2>4. FrameTypes'
    BY <1>0, <1>01, <1>15 DEF Settle, Frame, FrameTypes
  <2>. QED  BY <2>1, <2>2, <2>3, <2>4 DEF LedgerTypes, SubTypes, SessionTypes, FrameTypes
<1>16. CASE SettleFunding(r)
  <2>1. LedgerTypes' /\ faults' \in [Requests -> 0..MaxFaults]
    BY <1>0, <1>01, <1>16, TakeTypes, ErrorTypes, QuietTypes DEF SettleFunding, Refused, Quiet,
       NoError, DbError, Done
  <2>2. pc' \in [Requests -> PCs]
    BY <1>0, <1>01, <1>16 DEF SettleFunding, Refused, GoTo,
       PCs, Places
  <2>3. SessionTypes'
    <3>1. sess' \in [Requests -> SessType]
      BY <1>0, <1>01, <1>16, AmountsStep DEF
         SettleFunding, Refused, session, Opening, Reserving, SessType, NoSess
    <3>2. flags' \in [Requests -> SUBSET Flags]
      BY <1>0, <1>01, <1>16, AmountsStep DEF
         SettleFunding, Refused, session, Opening, Reserving, Flags
    <3>3. fund' \in [Requests -> FundType]
      BY <1>0, <1>01, <1>16, AmountsStep DEF
         SettleFunding, Refused, session, Opening, Reserving, FundType, Sources, NoFund
    <3>4. op' \in [Requests -> OpType]
      BY <1>0, <1>01, <1>16, AmountsStep DEF
         SettleFunding, Refused, session, Opening, Reserving, OpType, Places, NoOp
    <3>. QED  BY <3>1, <3>2, <3>3, <3>4 DEF SessionTypes
  <2>4. FrameTypes'
    BY <1>0, <1>01, <1>16 DEF SettleFunding, Refused, Frame, FrameTypes
  <2>. QED  BY <2>1, <2>2, <2>3, <2>4 DEF LedgerTypes, SubTypes, SessionTypes, FrameTypes
<1>17. CASE SettleToken(r)
  <2>1. LedgerTypes' /\ faults' \in [Requests -> 0..MaxFaults]
    BY <1>0, <1>01, <1>17, TakeTypes, ErrorTypes, QuietTypes DEF SettleToken, Quiet,
       NoError, DbError, Done
  <2>2. pc' \in [Requests -> PCs]
    BY <1>0, <1>01, <1>17 DEF SettleToken, GoTo, PCs,
       Places
  <2>3. SessionTypes'
    <3>1. sess' \in [Requests -> SessType]
      BY <1>0, <1>01, <1>17, AmountsStep DEF
         SettleToken, session, Opening, Reserving, SessType, NoSess
    <3>2. flags' \in [Requests -> SUBSET Flags]
      BY <1>0, <1>01, <1>17, AmountsStep DEF
         SettleToken, session, Opening, Reserving, Flags
    <3>3. fund' \in [Requests -> FundType]
      BY <1>0, <1>01, <1>17, AmountsStep DEF
         SettleToken, session, Opening, Reserving, FundType, Sources, NoFund
    <3>4. op' \in [Requests -> OpType]
      BY <1>0, <1>01, <1>17, AmountsStep DEF
         SettleToken, session, Opening, Reserving, OpType, Places, NoOp
    <3>. QED  BY <3>1, <3>2, <3>3, <3>4 DEF SessionTypes
  <2>4. FrameTypes'
    BY <1>0, <1>01, <1>17 DEF SettleToken, Frame, FrameTypes
  <2>. QED  BY <2>1, <2>2, <2>3, <2>4 DEF LedgerTypes, SubTypes, SessionTypes, FrameTypes
<1>18. CASE Refund(r)
  <2>1. LedgerTypes' /\ faults' \in [Requests -> 0..MaxFaults]
    BY <1>0, <1>01, <1>18, QuietTypes, ErrorTypes DEF Refund, Quiet, NoError, DbError, Done
  <2>2. pc' \in [Requests -> PCs]
    BY <1>0, <1>01, <1>18 DEF Refund, GoTo, PCs,
       Places
  <2>3. SessionTypes'
    <3>1. sess' \in [Requests -> SessType]
      BY <1>0, <1>01, <1>18, AmountsStep DEF
         Refund, session, Opening, Reserving, SessType, NoSess
    <3>2. flags' \in [Requests -> SUBSET Flags]
      BY <1>0, <1>01, <1>18, AmountsStep DEF
         Refund, session, Opening, Reserving, Flags
    <3>3. fund' \in [Requests -> FundType]
      BY <1>0, <1>01, <1>18, AmountsStep DEF
         Refund, session, Opening, Reserving, FundType, Sources, NoFund
    <3>4. op' \in [Requests -> OpType]
      BY <1>0, <1>01, <1>18, AmountsStep DEF
         Refund, session, Opening, Reserving, OpType, Places, NoOp
    <3>. QED  BY <3>1, <3>2, <3>3, <3>4 DEF SessionTypes
  <2>4. FrameTypes'
    BY <1>0, <1>01, <1>18 DEF Refund, Frame, FrameTypes
  <2>. QED  BY <2>1, <2>2, <2>3, <2>4 DEF LedgerTypes, SubTypes, SessionTypes, FrameTypes
<1>19. CASE SkipRefund(r)
  <2>1. LedgerTypes' /\ faults' \in [Requests -> 0..MaxFaults]
    BY <1>0, <1>01, <1>19, QuietTypes, ErrorTypes DEF SkipRefund, Quiet, NoError, DbError, Done
  <2>2. pc' \in [Requests -> PCs]
    BY <1>0, <1>01, <1>19 DEF SkipRefund, GoTo, PCs,
       Places
  <2>3. SessionTypes'
    BY <1>0, <1>19 DEF SkipRefund, session, SessionTypes
  <2>4. FrameTypes'
    BY <1>0, <1>01, <1>19 DEF SkipRefund, Frame, FrameTypes
  <2>. QED  BY <2>1, <2>2, <2>3, <2>4 DEF LedgerTypes, SubTypes, SessionTypes, FrameTypes
<1>20. CASE RefundWallet(r)
  <2>1. LedgerTypes' /\ faults' \in [Requests -> 0..MaxFaults]
    BY <1>0, <1>01, <1>20, TakeTypes, ErrorTypes, QuietTypes DEF RefundWallet, Quiet,
       NoError, DbError, Done
  <2>2. pc' \in [Requests -> PCs]
    BY <1>0, <1>01, <1>20 DEF RefundWallet, GoTo, PCs,
       Places, AfterRefund, AfterExtra
  <2>3. SessionTypes'
    BY <1>0, <1>20 DEF RefundWallet, session, SessionTypes
  <2>4. FrameTypes'
    BY <1>0, <1>01, <1>20 DEF RefundWallet, Frame, FrameTypes
  <2>. QED  BY <2>1, <2>2, <2>3, <2>4 DEF LedgerTypes, SubTypes, SessionTypes, FrameTypes
<1>21. CASE RefundSubscription(r)
  <2>1. LedgerTypes' /\ faults' \in [Requests -> 0..MaxFaults]
    <3>1. CASE MoveSub(r, -fund[r].subPre) /\ record' \in [Requests -> {"none", "consumed", "refunded"}]
      <4>1. -fund[r].subPre \in Int
        BY <1>0
      <4>3. LedgerTypes'
        <5>. HIDE DEF TypeOK
        <5>. QED  BY <1>0, <3>1, <4>1, MoveTypes DEF LedgerTypes
      <4>4. faults' \in [Requests -> 0..MaxFaults]
        BY <1>0, <1>21, ErrorTypes DEF RefundSubscription, NoError, DbError
      <4>. QED  BY <4>3, <4>4
    <3>2. CASE DbError(r)
      BY <1>0, <3>2, QuietTypes, ErrorTypes DEF DbError, Done
    <3>. QED  BY <1>0, <1>21, <3>1, <3>2 DEF RefundSubscription
  <2>2. pc' \in [Requests -> PCs]
    BY <1>0, <1>01, <1>21 DEF RefundSubscription,
       GoTo, PCs, Places, RetryRefund, AfterRefund, AfterExtra
  <2>3. SessionTypes'
    <3>1. sess' \in [Requests -> SessType]
      BY <1>0, <1>01, <1>21, AmountsStep DEF
         RefundSubscription, session, Opening, Reserving, SessType, NoSess, RetryRefund
    <3>2. flags' \in [Requests -> SUBSET Flags]
      BY <1>0, <1>01, <1>21, AmountsStep DEF
         RefundSubscription, session, Opening, Reserving, Flags, RetryRefund
    <3>3. fund' \in [Requests -> FundType]
      BY <1>0, <1>01, <1>21, AmountsStep DEF
         RefundSubscription, session, Opening, Reserving, FundType, Sources, NoFund,
         RetryRefund
    <3>4. op' \in [Requests -> OpType]
      <4>1. op[r].tries + 1 \in Nat /\ op[r].tries + 1 \in 0..3
        BY <1>0, <1>21, AmountsStep DEF RefundSubscription
      <4>2. [op EXCEPT ![r].tries = @ + 1] \in [Requests -> OpType]
        BY <1>0, <1>01, <4>1 DEF OpType
      <4>. QED  BY <1>0, <1>21, <4>2 DEF RefundSubscription, RetryRefund
    <3>. QED  BY <3>1, <3>2, <3>3, <3>4 DEF SessionTypes
  <2>4. FrameTypes'
    BY <1>0, <1>01, <1>21 DEF RefundSubscription, Frame, FrameTypes
  <2>. QED  BY <2>1, <2>2, <2>3, <2>4 DEF LedgerTypes, SubTypes, SessionTypes, FrameTypes
<1>22. CASE RefundExtra(r)
  <2>1. LedgerTypes' /\ faults' \in [Requests -> 0..MaxFaults]
    BY <1>0, <1>01, <1>22, TakeTypes, ErrorTypes, QuietTypes DEF RefundExtra, Quiet,
       NoError, DbError, Done
  <2>2. pc' \in [Requests -> PCs]
    BY <1>0, <1>01, <1>22 DEF RefundExtra, GoTo, PCs,
       Places, AfterExtra
  <2>3. SessionTypes'
    BY <1>0, <1>22 DEF RefundExtra, session, SessionTypes
  <2>4. FrameTypes'
    BY <1>0, <1>01, <1>22 DEF RefundExtra, Frame, FrameTypes
  <2>. QED  BY <2>1, <2>2, <2>3, <2>4 DEF LedgerTypes, SubTypes, SessionTypes, FrameTypes
<1>23. CASE RefundToken(r)
  <2>1. LedgerTypes' /\ faults' \in [Requests -> 0..MaxFaults]
    BY <1>0, <1>01, <1>23, TakeTypes, ErrorTypes, QuietTypes DEF RefundToken, Quiet,
       NoError, DbError, Done
  <2>2. pc' \in [Requests -> PCs]
    BY <1>0, <1>01, <1>23 DEF RefundToken, GoTo, PCs,
       Places
  <2>3. SessionTypes'
    BY <1>0, <1>23 DEF RefundToken, session, SessionTypes
  <2>4. FrameTypes'
    BY <1>0, <1>01, <1>23 DEF RefundToken, Frame, FrameTypes
  <2>. QED  BY <2>1, <2>2, <2>3, <2>4 DEF LedgerTypes, SubTypes, SessionTypes, FrameTypes
<1>24. CASE ChargeViolationFee(r)
  <2>1. LedgerTypes' /\ faults' \in [Requests -> 0..MaxFaults]
    BY <1>0, <1>01, <1>24, QuietTypes, ErrorTypes DEF ChargeViolationFee, Quiet,
       NoError, DbError, Done
  <2>2. pc' \in [Requests -> PCs]
    BY <1>0, <1>01, <1>24 DEF ChargeViolationFee,
       GoTo, PCs, Places
  <2>3. SessionTypes'
    <3>1. sess' \in [Requests -> SessType]
      BY <1>0, <1>01, <1>24, AmountsStep, AmountAssumption DEF
         ChargeViolationFee, session, Opening, Reserving, SessType, NoSess
    <3>2. flags' \in [Requests -> SUBSET Flags]
      BY <1>0, <1>01, <1>24, AmountsStep, AmountAssumption DEF
         ChargeViolationFee, session, Opening, Reserving, Flags
    <3>3. fund' \in [Requests -> FundType]
      BY <1>0, <1>01, <1>24, AmountsStep, AmountAssumption DEF
         ChargeViolationFee, session, Opening, Reserving, FundType, Sources, NoFund
    <3>4. op' \in [Requests -> OpType]
      <4>1. \A fee \in Fees : fee \in Int
        BY AmountAssumption
      <4>2. op \in [Requests -> OpType]
        BY <1>0
      <4>. HIDE DEF TypeOK
      <4>. QED  BY <1>0, <1>24, <4>1, <4>2, DeltaWrites DEF ChargeViolationFee
    <3>. QED  BY <3>1, <3>2, <3>3, <3>4 DEF SessionTypes
  <2>4. FrameTypes'
    BY <1>0, <1>01, <1>24 DEF ChargeViolationFee, Frame, FrameTypes
  <2>. QED  BY <2>1, <2>2, <2>3, <2>4 DEF LedgerTypes, SubTypes, SessionTypes, FrameTypes
<1>25. CASE PostConsumeFunding(r)
  <2>1. LedgerTypes' /\ faults' \in [Requests -> 0..MaxFaults]
    BY <1>0, <1>01, <1>25, TakeTypes, ErrorTypes, QuietTypes DEF PostConsumeFunding, Refused,
       Quiet, NoError, DbError, Done
  <2>2. pc' \in [Requests -> PCs]
    BY <1>0, <1>01, <1>25 DEF PostConsumeFunding, Refused,
       GoTo, PCs, Places
  <2>3. SessionTypes'
    <3>1. sess' \in [Requests -> SessType]
      BY <1>0, <1>01, <1>25, AmountsStep DEF
         PostConsumeFunding, Refused, session, Opening, Reserving, SessType, NoSess
    <3>2. flags' \in [Requests -> SUBSET Flags]
      BY <1>0, <1>01, <1>25, AmountsStep DEF
         PostConsumeFunding, Refused, session, Opening, Reserving, Flags
    <3>3. fund' \in [Requests -> FundType]
      BY <1>0, <1>01, <1>25, AmountsStep DEF
         PostConsumeFunding, Refused, session, Opening, Reserving, FundType, Sources, NoFund
    <3>4. op' \in [Requests -> OpType]
      BY <1>0, <1>01, <1>25, AmountsStep DEF
         PostConsumeFunding, Refused, session, Opening, Reserving, OpType, Places, NoOp
    <3>. QED  BY <3>1, <3>2, <3>3, <3>4 DEF SessionTypes
  <2>4. FrameTypes'
    BY <1>0, <1>01, <1>25 DEF PostConsumeFunding, Refused, Frame, FrameTypes
  <2>. QED  BY <2>1, <2>2, <2>3, <2>4 DEF LedgerTypes, SubTypes, SessionTypes, FrameTypes
<1>26. CASE PostConsumeToken(r)
  <2>1. LedgerTypes' /\ faults' \in [Requests -> 0..MaxFaults]
    BY <1>0, <1>01, <1>26, TakeTypes, ErrorTypes, QuietTypes DEF PostConsumeToken,
       Quiet, NoError, DbError, Done
  <2>2. pc' \in [Requests -> PCs]
    BY <1>0, <1>01, <1>26 DEF PostConsumeToken, GoTo,
       PCs, Places
  <2>3. SessionTypes'
    BY <1>0, <1>26 DEF PostConsumeToken, session, SessionTypes
  <2>4. FrameTypes'
    BY <1>0, <1>01, <1>26 DEF PostConsumeToken, Frame, FrameTypes
  <2>. QED  BY <2>1, <2>2, <2>3, <2>4 DEF LedgerTypes, SubTypes, SessionTypes, FrameTypes
<1>. QED
  BY <1>1, <1>2, <1>3, <1>4, <1>5, <1>6, <1>7, <1>8, <1>9, <1>10, <1>11, <1>12,
     <1>13, <1>14, <1>15, <1>16, <1>17, <1>18, <1>19, <1>20, <1>21, <1>22, <1>23, <1>24,
     <1>25, <1>26, <1>27, <1>28 DEF RequestStep

-----------------------------------------------------------------------------
(* What a step does to the subscriptions *)

\* An open session stays open to the end of its request.
LEMMA LiveStays ==
    ASSUME TypeOK, NEW r \in Requests, Shape(r), pc[r] \in Live,
           \/ Reserve(r) \/ ReserveCheckToken(r) \/ ReserveToken(r) \/ Settle(r)
           \/ SettleToken(r) \/ Refund(r) \/ SkipRefund(r) \/ RefundWallet(r) \/ RefundToken(r)
           \/ ChargeViolationFee(r) \/ PostConsumeToken(r) \/ ReadSubscription(r)
           \/ ReserveFunding(r) \/ RollbackFundingReserve(r) \/ SettleFunding(r)
           \/ RefundSubscription(r) \/ RefundExtra(r) \/ PostConsumeFunding(r)
    PROVE  pc'[r] \in Live
<1>0. pc \in [Requests -> PCs]
  BY DEF TypeOK
<1>1. pc[r] \in Settling => op[r].next \in {"open", "failed", "end"}
  BY DEF Shape, OperationShape
<1>. USE <1>0 DEF GoTo, Live, Reserving, Settling, Refunding, Closing
<1>2. CASE Reserve(r) \/ ReserveCheckToken(r) \/ ReserveToken(r) \/ ReserveFunding(r)
           \/ RollbackFundingReserve(r) \/ ReadSubscription(r)
  BY <1>2 DEF Reserve, ReserveCheckToken, ReserveToken, ReserveFunding, RollbackFundingReserve,
     ReadSubscription
<1>3. CASE Settle(r) \/ SettleFunding(r) \/ SettleToken(r)
  BY <1>1, <1>3 DEF Settle, SettleFunding, SettleToken
<1>4. CASE Refund(r) \/ SkipRefund(r) \/ RefundToken(r) \/ ChargeViolationFee(r)
           \/ PostConsumeFunding(r) \/ PostConsumeToken(r)
  BY <1>4 DEF Refund, SkipRefund, RefundToken, ChargeViolationFee, PostConsumeFunding,
     PostConsumeToken
<1>5. CASE RefundWallet(r) \/ RefundSubscription(r) \/ RefundExtra(r)
  BY <1>5 DEF RefundWallet, RefundSubscription, RefundExtra, RetryRefund, AfterRefund, AfterExtra
<1>. QED  BY <1>2, <1>3, <1>4, <1>5

\* Nothing.
LeftAlone(r) ==
    /\ UNCHANGED subs
    /\ net'[r].sub = net[r].sub /\ net'[r].clamped = net[r].clamped
    /\ fund'[r].subId = fund[r].subId
    /\ pc'[r] \in Live /\ fund'[r].src = "subscription" <=>
          pc[r] \in Live /\ fund[r].src = "subscription"

\* The row r has read of its subscription is saved, moved by n.
Moved(r, n) ==
    /\ pc[r] \in Live /\ fund[r].src = "subscription" /\ row[r] # NoRow
    /\ n <= 0 \/ ~Exceeds(row[r], n)
    /\ Save(row[r], UsedAfter(row[r], n), row[r].next) /\ UNCHANGED renewed
    /\ net'[r].sub = net[r].sub + n
    /\ net'[r].clamped = net[r].clamped + Clamped(row[r], n)
    /\ fund'[r].subId = fund[r].subId
    /\ pc'[r] \in Live /\ fund'[r].src = "subscription"

\* The subscription whose row r has read begins to serve it.
Begun(r) ==
    /\ pc[r] = "preFunding" /\ fund[r].src = "subscription" /\ row[r] # NoRow
    /\ Save(row[r], UsedThisPeriod(row[r]) + op[r].delta, NextReset(row[r])) /\ Renews(row[r])
    /\ net'[r].sub = net[r].sub + op[r].delta /\ net'[r].clamped = net[r].clamped
    /\ fund'[r].subId = row[r].id
    /\ pc'[r] \in Live /\ fund'[r].src = "subscription"

SubEffect(r) == LeftAlone(r) \/ (\E n \in Int : Moved(r, n)) \/ Begun(r)

LEMMA TakeSubs ==
    ASSUME TypeOK, NEW r \in Requests, NEW n \in Int
    PROVE  /\ TakeWallet(r, n) \/ TakeToken(r, n) =>
                  /\ UNCHANGED subs /\ net'[r].sub = net[r].sub
                  /\ net'[r].clamped = net[r].clamped
           /\ MoveSub(r, n) =>
                  /\ row[r] # NoRow
                  /\ Save(row[r], UsedAfter(row[r], n), row[r].next) /\ UNCHANGED renewed
                  /\ net'[r].sub = net[r].sub + n
                  /\ net'[r].clamped = net[r].clamped + Clamped(row[r], n)
<1>1. net[r] \in NetType /\ net \in [Requests -> NetType]
  BY DEF TypeOK
<1>2. ASSUME TakeWallet(r, n) \/ TakeToken(r, n)
      PROVE  UNCHANGED subs /\ net'[r].sub = net[r].sub /\ net'[r].clamped = net[r].clamped
  BY <1>1, <1>2 DEF TakeWallet, TakeToken, NetType
<1>3. ASSUME MoveSub(r, n)
      PROVE  /\ net'[r].sub = net[r].sub + n
             /\ net'[r].clamped = net[r].clamped + Clamped(row[r], n)
  BY <1>1, <1>3 DEF MoveSub, NetType
<1>. QED  BY <1>2, <1>3 DEF MoveSub

\* A statement of the funding source, while fund[r].src and subId stay.
LEMMA FundingSubs ==
    ASSUME TypeOK, NEW r \in Requests, NEW n \in Int, Take(r, n),
           pc[r] \in Live, pc'[r] \in Live, n <= 0 \/ ~Refuses(r, n),
           fund'[r].subId = fund[r].subId, fund'[r].src = fund[r].src
    PROVE  SubEffect(r)
<1>1. CASE TakeWallet(r, n)
  BY <1>1, TakeSubs DEF SubEffect, LeftAlone
<1>2. CASE fund[r].src = "subscription" /\ TakeSub(r, n)
  <2>1. MoveSub(r, n)
    BY <1>2 DEF TakeSub
  <2>2. n <= 0 \/ ~Exceeds(row[r], n)
    BY <1>2, <2>1 DEF Refuses, MoveSub
  <2>3. Moved(r, n)
    BY <1>2, <2>1, <2>2, TakeSubs DEF Moved
  <2>. QED  BY <2>3 DEF SubEffect
<1>. QED  BY <1>1, <1>2 DEF Take

LEMMA OpeningSubs ==
    ASSUME BillingInv, NEW r \in Requests,
           \/ Start(r) \/ HasActiveUserSubscription(r) \/ TryWallet(r) \/ TrySubscription(r)
           \/ CheckToken(r) \/ PreConsumeTokenQuota(r) \/ PreConsumeWallet(r)
           \/ FindSubscription(r) \/ PreConsumeSubscription(r) \/ RollBackToken(r)
    PROVE  SubEffect(r)
<1>0. TypeOK /\ Fields(r) /\ Shape(r) /\ Ledger(r) /\ SubServed(r)
  BY FieldTypes DEF BillingInv
<1>1. /\ pc[r] \in Fresh \cup Opening /\ pc[r] \notin Live /\ fund[r].subId = 0
      /\ pc \in [Requests -> PCs] /\ fund \in [Requests -> FundType] /\ fund[r] \in FundType
  <2>1. pc[r] \in Fresh \cup Opening
    BY DEF Start, HasActiveUserSubscription, TryWallet, TrySubscription, CheckToken,
       PreConsumeTokenQuota, PreConsumeWallet, FindSubscription, PreConsumeSubscription,
       RollBackToken, Fresh, Opening
  <2>2. pc[r] \notin Live
    BY <2>1 DEF Fresh, Opening, Live, Reserving, Settling, Refunding, Closing
  <2>. QED  BY <1>0, <2>1, <2>2 DEF SubServed, TypeOK
<1>2. op[r].delta \in Int /\ -sess[r].tokenConsumed \in Int
  BY <1>0 DEF Fields
<1>3. ASSUME UNCHANGED subs, net'[r].sub = net[r].sub, net'[r].clamped = net[r].clamped,
             pc'[r] \notin Live \/ fund'[r].src # "subscription", fund'[r].subId = 0
      PROVE  SubEffect(r)
  BY <1>1, <1>3 DEF SubEffect, LeftAlone
<1>4. CASE \/ Start(r) \/ HasActiveUserSubscription(r) \/ TryWallet(r) \/ TrySubscription(r)
           \/ CheckToken(r)
  <2>1. UNCHANGED subs /\ UNCHANGED net
    BY <1>4 DEF Start, HasActiveUserSubscription, TryWallet, TrySubscription, CheckToken,
       Quiet, DbError, ledgers
  <2>2. pc'[r] \notin Live
    BY <1>1, <1>4 DEF Start, HasActiveUserSubscription, TryWallet, TrySubscription, CheckToken,
       BeginPreConsume, GoTo, FirstTry, Live, Reserving, Settling, Refunding, Closing
  <2>3. fund' = fund \/ \E src : fund' = [fund EXCEPT ![r].src = src]
    BY <1>4 DEF Start, HasActiveUserSubscription, TryWallet, TrySubscription, CheckToken,
       BeginPreConsume, session
  <2>4. fund'[r].subId = 0
    BY <1>1, <2>3 DEF FundType
  <2>. QED  BY <1>3, <2>1, <2>2, <2>4
<1>5. CASE PreConsumeTokenQuota(r)
  <2>1. UNCHANGED subs /\ net'[r].sub = net[r].sub /\ net'[r].clamped = net[r].clamped
    BY <1>0, <1>2, <1>5, TakeSubs DEF PreConsumeTokenQuota, DbError, ledgers
  <2>2. pc'[r] \notin Live
    BY <1>1, <1>5 DEF PreConsumeTokenQuota, GoTo, Live, Reserving, Settling, Refunding, Closing
  <2>3. fund'[r].subId = 0
    BY <1>1, <1>5 DEF PreConsumeTokenQuota, session
  <2>. QED  BY <1>3, <2>1, <2>2, <2>3
<1>6. ASSUME NEW insufficient, FundingFails(r, insufficient), UNCHANGED ledgers
      PROVE  SubEffect(r)
  <2>1. pc'[r] \notin Live
    BY <1>1, <1>6 DEF FundingFails, Abandon, Fallback, GoTo, Live, Reserving, Settling,
       Refunding, Closing
  <2>2. fund'[r].subId = 0
    BY <1>1, <1>6 DEF FundingFails, Abandon, NoFund
  <2>. QED  BY <1>3, <1>6, <2>1, <2>2 DEF ledgers
<1>7. CASE PreConsumeWallet(r)
  <2>1. CASE /\ TakeWallet(r, op[r].delta)
             /\ fund' = [fund EXCEPT ![r].consumed = op[r].delta]
    <3>1. UNCHANGED subs /\ net'[r].sub = net[r].sub /\ net'[r].clamped = net[r].clamped
      BY <1>0, <1>2, <2>1, TakeSubs
    <3>2. fund'[r].src = "wallet" /\ fund'[r].subId = 0
      BY <1>1, <1>7, <2>1 DEF PreConsumeWallet, FundType
    <3>. QED  BY <1>3, <3>1, <3>2
  <2>. QED  BY <1>6, <1>7, <2>1 DEF PreConsumeWallet, DbError
<1>8. CASE PreConsumeSubscription(r)
  <2>1. CASE /\ Save(row[r], UsedThisPeriod(row[r]) + op[r].delta, NextReset(row[r]))
             /\ Renews(row[r])
             /\ fund' = [fund EXCEPT ![r].subId = row[r].id, ![r].subPre = op[r].delta]
             /\ net' = [net EXCEPT ![r].sub = @ + op[r].delta]
             /\ GoTo(r, "open")
    <3>1. fund'[r].subId = row[r].id /\ fund'[r].src = fund[r].src
      BY <1>1, <2>1 DEF FundType
    <3>2. net'[r].sub = net[r].sub + op[r].delta /\ net'[r].clamped = net[r].clamped
      BY <1>0, <2>1 DEF TypeOK, NetType
    <3>3. pc'[r] \in Live
      BY <1>1, <2>1 DEF GoTo, Live
    <3>. QED  BY <1>8, <2>1, <3>1, <3>2, <3>3 DEF PreConsumeSubscription, SubEffect, Begun
  <2>2. CASE DbError(r) /\ FundingFails(r, FALSE)
    BY <1>6, <2>2 DEF DbError
  <2>. QED  BY <1>8, <2>1, <2>2 DEF PreConsumeSubscription
<1>9. CASE RollBackToken(r)
  <2>1. UNCHANGED subs /\ net'[r].sub = net[r].sub /\ net'[r].clamped = net[r].clamped
    BY <1>0, <1>2, <1>9, TakeSubs DEF RollBackToken, DbError, ledgers
  <2>2. pc'[r] \notin Live
    BY <1>0, <1>1, <1>9 DEF RollBackToken, Abandon, GoTo, Shape, OpeningShape, Opening, Live,
       Reserving, Settling, Refunding, Closing
  <2>3. fund'[r].subId = 0
    BY <1>1, <1>9 DEF RollBackToken, Abandon, NoFund
  <2>. QED  BY <1>3, <2>1, <2>2, <2>3
<1>10. CASE FindSubscription(r)
  <2>1. CASE UNCHANGED ledgers /\ UNCHANGED pc /\ UNCHANGED session
    BY <1>1, <1>3, <2>1 DEF ledgers, session
  <2>2. CASE \E insufficient \in BOOLEAN : FundingFails(r, insufficient) /\ UNCHANGED ledgers
    BY <1>6, <2>2
  <2>. QED  BY <1>10, <2>1, <2>2 DEF FindSubscription, DbError, Quiet
<1>. QED  BY <1>4, <1>5, <1>7, <1>8, <1>9, <1>10

\* Steps of an open session that leave its funding source's ledger alone.
LEMMA OpenSubs ==
    ASSUME BillingInv, NEW r \in Requests,
           \/ Reserve(r) \/ ReserveCheckToken(r) \/ ReserveToken(r) \/ Settle(r)
           \/ SettleToken(r) \/ Refund(r) \/ SkipRefund(r) \/ RefundWallet(r) \/ RefundToken(r)
           \/ ChargeViolationFee(r) \/ PostConsumeToken(r) \/ ReadSubscription(r)
    PROVE  SubEffect(r)
<1>0. TypeOK /\ Fields(r) /\ Shape(r)
  BY FieldTypes DEF BillingInv
<1>1. pc[r] \in Live
  BY DEF Reserve, ReserveCheckToken, ReserveToken, Settle, SettleToken, Refund, SkipRefund,
     RefundWallet, RefundToken, ChargeViolationFee, PostConsumeToken, ReadSubscription, Live,
     Reserving, Settling, Refunding, Closing
<1>2. pc'[r] \in Live
  BY <1>0, <1>1, LiveStays
<1>3. fund' = fund
  BY DEF Reserve, ReserveCheckToken, ReserveToken, Settle, SettleToken, Refund, SkipRefund,
     RefundWallet, RefundToken, ChargeViolationFee, PostConsumeToken, ReadSubscription, session
<1>4. op[r].delta \in Int /\ -sess[r].tokenConsumed \in Int /\ -fund[r].consumed \in Int
  BY <1>0 DEF Fields
<1>5. UNCHANGED ledgers \/ \E n \in Int : TakeWallet(r, n) \/ TakeToken(r, n)
  BY <1>4 DEF Reserve, ReserveCheckToken, ReserveToken, Settle, SettleToken, Refund, SkipRefund,
     RefundWallet, RefundToken, ChargeViolationFee, PostConsumeToken, ReadSubscription, Quiet,
     DbError
<1>6. UNCHANGED subs /\ net'[r].sub = net[r].sub /\ net'[r].clamped = net[r].clamped
  BY <1>0, <1>5, TakeSubs DEF ledgers
<1>. QED  BY <1>1, <1>2, <1>3, <1>6 DEF SubEffect, LeftAlone

\* Steps of an open session that move it.
LEMMA MoveSubs ==
    ASSUME BillingInv, NEW r \in Requests,
           \/ ReserveFunding(r) \/ RollbackFundingReserve(r) \/ SettleFunding(r)
           \/ RefundSubscription(r) \/ RefundExtra(r) \/ PostConsumeFunding(r)
    PROVE  SubEffect(r)
<1>0. TypeOK /\ Fields(r) /\ Shape(r) /\ fund \in [Requests -> FundType] /\ fund[r] \in FundType
  BY FieldTypes DEF BillingInv, TypeOK
<1>1. pc[r] \in Live
  BY DEF ReserveFunding, RollbackFundingReserve, SettleFunding, RefundSubscription, RefundExtra,
     PostConsumeFunding, Live, Reserving, Settling, Refunding, Closing
<1>9. pc'[r] \in Live
  BY <1>0, <1>1, LiveStays
<1>2. /\ op[r].delta \in Int /\ -op[r].delta \in Int
      /\ -fund[r].subPre \in Int /\ -fund[r].subPre <= 0
      /\ -sess[r].extra \in Int /\ -sess[r].extra <= 0
  BY <1>0 DEF Fields
<1>3. fund'[r].subId = fund[r].subId /\ fund'[r].src = fund[r].src
  <2>1. fund' = fund \/ \E n : fund' = [fund EXCEPT ![r].consumed = n]
    BY DEF ReserveFunding, RollbackFundingReserve, SettleFunding, RefundSubscription,
       RefundExtra, PostConsumeFunding, session
  <2>. QED  BY <1>0, <2>1 DEF FundType
<1>4. CASE UNCHANGED ledgers
  BY <1>1, <1>9, <1>3, <1>4 DEF SubEffect, LeftAlone, ledgers
<1>5. CASE ReserveFunding(r) \/ SettleFunding(r) \/ PostConsumeFunding(r)
  <2>1. UNCHANGED ledgers \/ (Take(r, op[r].delta) /\ ~Refuses(r, op[r].delta))
    BY <1>5 DEF ReserveFunding, SettleFunding, PostConsumeFunding, Refused, DbError
  <2>. QED  BY <1>0, <1>1, <1>9, <1>2, <1>3, <1>4, <2>1, FundingSubs
<1>6. CASE RollbackFundingReserve(r)
  <2>1. UNCHANGED ledgers \/ Take(r, -op[r].delta)
    BY <1>6 DEF RollbackFundingReserve, DbError
  <2>2. -op[r].delta <= 0
    BY <1>0, <1>6 DEF RollbackFundingReserve, Shape, OperationShape, Reserving, Fields
  <2>. QED  BY <1>0, <1>1, <1>9, <1>2, <1>3, <1>4, <2>1, <2>2, FundingSubs
<1>10. ASSUME NEW n \in Int, n <= 0, MoveSub(r, n), fund[r].src = "subscription"
       PROVE  SubEffect(r)
  BY <1>0, <1>1, <1>9, <1>3, <1>10, TakeSubs DEF SubEffect, Moved
<1>7. CASE RefundSubscription(r)
  <2>1. UNCHANGED ledgers \/ MoveSub(r, -fund[r].subPre)
    BY <1>7 DEF RefundSubscription, DbError
  <2>2. fund[r].src = "subscription"
    BY <1>7 DEF RefundSubscription
  <2>. QED  BY <1>2, <1>4, <1>10, <2>1, <2>2
<1>8. CASE RefundExtra(r)
  <2>1. UNCHANGED ledgers \/ MoveSub(r, -sess[r].extra)
    BY <1>8 DEF RefundExtra, DbError, TakeSub
  <2>2. fund[r].src = "subscription"
    BY <1>0, <1>8 DEF RefundExtra, Shape, OperationShape
  <2>. QED  BY <1>2, <1>4, <1>10, <2>1, <2>2
<1>. QED  BY <1>5, <1>6, <1>7, <1>8

LEMMA StepOnSubs ==
    ASSUME BillingInv, NEW r \in Requests, RequestStep(r) PROVE SubEffect(r)
  BY OpeningSubs, OpenSubs, MoveSubs DEF RequestStep

LEMMA SubServedStep ==
    ASSUME BillingInv, NEW r \in Requests, SubEffect(r) PROVE SubServed(r)'
<1>1. SubServed(r) /\ TypeOK
  BY DEF BillingInv
<1>2. CASE LeftAlone(r)
  BY <1>1, <1>2 DEF SubServed, LeftAlone
<1>3. 0 \notin SubIds
  BY CountAssumption DEF SubIds
<1>4. ASSUME NEW n \in Int, Moved(r, n) PROVE SubServed(r)'
  BY <1>1, <1>3, <1>4 DEF SubServed, Moved
<1>5. CASE Begun(r)
  <2>1. row[r].id \in SubIds
    BY <1>1, <1>5, RowTypes DEF Begun, RowType
  <2>. QED  BY <1>3, <1>5, <2>1 DEF SubServed, Begun
<1>. QED  BY <1>2, <1>4, <1>5 DEF SubEffect

-----------------------------------------------------------------------------
(* The theorems *)

LEMMA BillingInit == Init => BillingInv
<1>. SUFFICES ASSUME Init PROVE BillingInv
  OBVIOUS
<1>1. TypeOK
  <2>1. /\ NoRequest \in ReqType /\ NoSess \in SessType /\ NoFund \in FundType /\ NoOp \in OpType
        /\ NoNet \in NetType
    BY DEF NoRequest, NoSess, NoFund, NoOp, NoNet, ReqType, SessType, FundType, OpType, NetType,
       AllPrefs, AllKinds, Sources, Places
  <2>. QED  BY <2>1, CountAssumption, BalanceAssumption, FaultAssumption, UsageAssumption
            DEF Init, TypeOK, PCs, Statuses
<1>2. ASSUME NEW r \in Requests PROVE Shape(r) /\ Ledger(r) /\ SubServed(r)
  <2>1. /\ pc[r] = "idle" /\ sess[r] = NoSess /\ fund[r] = NoFund /\ flags[r] = {} /\ op[r] = NoOp
        /\ net[r].wallet = 0 /\ net[r].token = 0 /\ net[r].sub = 0 /\ net[r].clamped = 0
    BY DEF Init, NoNet
  <2>2. Shape(r)
    BY <2>1 DEF Shape, FreshShape, OpeningShape, LiveShape, OperationShape, Opening, Live,
       Reserving, Settling, Refunding, Closing
  <2>3. OwedFunding(r) = 0 /\ OwedToken(r) = 0
    BY <2>1 DEF OwedFunding, OwedToken, Reserving, Refunding, Closing
  <2>4. Ledger(r)
    BY <2>1, <2>3 DEF Ledger, OtherLedgers, Covered, ConsumedExact, ExactLedgers, NoFund
  <2>5. SubServed(r)
    BY <2>1 DEF SubServed, NoFund
  <2>. QED  BY <2>2, <2>4, <2>5
<1>. QED  BY <1>1, <1>2 DEF BillingInv

\* A step that no request sees: the expiry or the cancellation of a subscription, the
\* end of a period, and the two halves of a periodic reset.
Outside ==
    \/ \E k \in SubIds :
        \/ SubscriptionExpires(k) \/ AdminInvalidateUserSubscription(k)
        \/ PeriodPasses(k) \/ ResetDueSubscriptions(k)
    \/ ResetSubscription

LEMMA OutsideTypes == ASSUME TypeOK, Outside PROVE TypeOK'
<1>1. Aside
  BY DEF Outside, SubscriptionExpires, AdminInvalidateUserSubscription, PeriodPasses,
     ResetDueSubscriptions, ResetSubscription
<1>2. ASSUME SubTypes', period' \in [SubIds -> 0..MaxPeriods], locked' \in RowType \cup {NoRow}
      PROVE  TypeOK'
  BY <1>1, <1>2 DEF Aside, session, TypeOK, SubTypes
<1>3. ASSUME NEW k \in SubIds, SubscriptionExpires(k) PROVE TypeOK'
  BY <1>2, <1>3 DEF SubscriptionExpires, TypeOK, SubTypes, Statuses
<1>4. ASSUME NEW k \in SubIds, AdminInvalidateUserSubscription(k) PROVE TypeOK'
  BY <1>2, <1>4 DEF AdminInvalidateUserSubscription, TypeOK, SubTypes, Statuses
<1>5. ASSUME NEW k \in SubIds, PeriodPasses(k) PROVE TypeOK'
  <2>1. period' \in [SubIds -> 0..MaxPeriods]
    BY <1>5, UsageAssumption DEF PeriodPasses, TypeOK
  <2>. QED  BY <1>2, <1>5, <2>1 DEF PeriodPasses, TypeOK, SubTypes, subs
<1>6. ASSUME NEW k \in SubIds, ResetDueSubscriptions(k) PROVE TypeOK'
  <2>1. locked' \in RowType
    BY <1>6, RowIsTyped DEF ResetDueSubscriptions
  <2>. QED  BY <1>2, <1>6, <2>1 DEF ResetDueSubscriptions, TypeOK, SubTypes, subs
<1>7. ASSUME ResetSubscription PROVE TypeOK'
  <2>1. CASE UNCHANGED subs
    BY <1>2, <1>7, <2>1 DEF ResetSubscription, TypeOK, SubTypes, subs
  <2>2. CASE Save(locked, UsedThisPeriod(locked), NextReset(locked)) /\ Renews(locked)
    <3>1. locked \in RowType
      BY <1>7 DEF ResetSubscription, TypeOK
    <3>2. UsedThisPeriod(locked) \in Nat /\ NextReset(locked) \in Nat
      BY <3>1 DEF RowType, UsedThisPeriod, NextReset
    <3>3. SubTypes'
      BY <2>2, <3>1, <3>2, SaveTypes
    <3>. QED  BY <1>2, <1>7, <3>3 DEF ResetSubscription, TypeOK
  <2>. QED  BY <1>7, <2>1, <2>2 DEF ResetSubscription
<1>. QED  BY <1>3, <1>4, <1>5, <1>6, <1>7 DEF Outside

LEMMA OutsideSame == ASSUME Outside PROVE \A q \in Requests : Same(q)
<1>1. Aside
  BY DEF Outside, SubscriptionExpires, AdminInvalidateUserSubscription, PeriodPasses,
     ResetDueSubscriptions, ResetSubscription
<1>. QED  BY <1>1 DEF Aside, session, Same, SameSession

LEMMA SameServed ==
    ASSUME NEW q, Same(q), Shape(q), Ledger(q), SubServed(q)
    PROVE  Shape(q)' /\ Ledger(q)' /\ SubServed(q)'
<1>1. SubServed(q)'
  BY DEF Same, SameSession, SubServed
<1>. QED  BY <1>1, SameKept DEF Same

LEMMA BillingStep == BillingInv /\ [Next]_vars => BillingInv'
<1>. SUFFICES ASSUME BillingInv, [Next]_vars PROVE BillingInv'
  OBVIOUS
<1>1. ASSUME NEW r \in Requests, RequestStep(r) PROVE BillingInv'
  <2>1. TypeOK' /\ Shape(r)' /\ Ledger(r)'
    BY <1>1, TypeStep, ShapeStep, LedgerStep
  <2>2. SubServed(r)'
    BY <1>1, StepOnSubs, SubServedStep
  <2>3. ASSUME NEW q \in Requests \ {r} PROVE Shape(q)' /\ Ledger(q)' /\ SubServed(q)'
    BY <1>1, OthersStep, SameServed DEF BillingInv
  <2>. QED  BY <2>1, <2>2, <2>3 DEF BillingInv
<1>2. CASE Outside
  BY <1>2, OutsideTypes, OutsideSame, SameServed DEF BillingInv
<1>3. CASE UNCHANGED vars
  <2>1. TypeOK'
    BY <1>3 DEF BillingInv, TypeOK, vars
  <2>2. \A q \in Requests : Same(q)
    BY <1>3 DEF vars, Same, SameSession
  <2>. QED  BY <2>1, <2>2, SameServed DEF BillingInv
<1>. QED  BY <1>1, <1>2, <1>3 DEF Next, Outside

\* The inductive invariant holds: in every reachable state each session has the shape
\* its place in the code calls for, and its ledgers cover what it may still give back.
THEOREM BillingInvariant == Spec => []BillingInv
  BY BillingInit, BillingStep, PTL DEF Spec

\* Every variable keeps its type: in particular no roll back, retry or refund makes
\* an amount of a session or amount_used of a subscription negative.
THEOREM BillingTypeCorrect == Spec => []TypeOK
<1>1. BillingInv => TypeOK
  BY DEF BillingInv
<1>. QED  BY <1>1, BillingInvariant, PTL

\* Whatever statements fail, wherever a request stops and however stale the rows it
\* saves, it has never been given back more than it took, provided the last write of
\* RefundSubscriptionPreConsume does not fail (the run refund_retry is about that case).
THEOREM BillingNeverOverRefunded ==
    ASSUME "recordSave" \notin Faults
    PROVE  Spec => []NeverOverRefunded
<1>1. BillingInv => NeverOverRefunded
  <2>. SUFFICES ASSUME BillingInv, NEW r \in Requests
                PROVE  net[r].wallet >= 0 /\ net[r].token >= 0 /\ SubTaken(r) >= 0
    BY DEF NeverOverRefunded
  <2>1. Fields(r) /\ Covered(r)
    BY FieldTypes DEF BillingInv, Ledger
  <2>. QED  BY <2>1 DEF Fields, Covered, SubTaken
<1>. QED  BY <1>1, BillingInvariant, PTL

\* A settled session is final: no retry, second Settle or deferred Refund moves its
\* money again; only the violation fee may still be charged.
THEOREM BillingSettledIsFinal == Spec => SettledIsFinal
<1>1. ASSUME BillingInv, [Next]_vars, NEW r \in Requests, Settled(r)
      PROVE  /\ Settled(r)' /\ "refunded" \notin flags'[r]
             /\ net'[r] # net[r] => pc[r] \in {"feeFunding", "feeToken"}
  <2>0. TypeOK /\ Fields(r) /\ Shape(r)
    BY <1>1, FieldTypes DEF BillingInv
  <2>1. pc[r] \in {"open", "failed", "feeFunding", "feeToken", "end"} /\ ~Refunded(r)
    BY <1>1, <2>0 DEF Fields, PCs, Shape, FreshShape, OpeningShape, LiveShape,
       OperationShape,
       Settled, Refunded, Fresh, Opening, Live, Reserving, Settling, Refunding, Closing
  <2>2. CASE Same(r)
    BY <1>1, <2>1, <2>2 DEF Same, SameSession, Settled, Refunded
  <2>3. CASE RequestStep(r)
    <3>1. \/ Reserve(r) \/ Settle(r) \/ Refund(r) \/ SkipRefund(r) \/ ReadSubscription(r)
          \/ ChargeViolationFee(r) \/ PostConsumeFunding(r) \/ PostConsumeToken(r)
      BY <2>1, <2>3 DEF RequestStep, Start, HasActiveUserSubscription, TryWallet,
         TrySubscription, CheckToken, PreConsumeTokenQuota, PreConsumeWallet, FindSubscription,
         PreConsumeSubscription, RollBackToken, ReserveFunding, ReserveCheckToken,
         ReserveToken, RollbackFundingReserve, SettleFunding, SettleToken, RefundWallet,
         RefundSubscription, RefundExtra, RefundToken
    <3>2. ~Reserve(r)
      BY <1>1 DEF Reserve, Settled, Flags
    <3>3. flags'[r] = flags[r]
      BY <1>1, <2>0, <3>1, <3>2 DEF Settle, Refund, NeedsRefund, SkipRefund,
         ChargeViolationFee, ReadSubscription,
         PostConsumeFunding, PostConsumeToken, Settled, session
    <3>4. net'[r] # net[r] => pc[r] \in {"feeFunding", "feeToken"}
      BY <3>1, <3>2 DEF Settle, Refund, SkipRefund, ChargeViolationFee, PostConsumeFunding,
         PostConsumeToken, ReadSubscription, Quiet, ledgers
    <3>. QED  BY <1>1, <2>1, <3>3, <3>4 DEF Settled, Refunded
  <2>4. CASE \E q \in Requests \ {r} : RequestStep(q)
    BY <1>1, <2>2, <2>4, OthersStep
  <2>5. CASE Outside
    BY <2>2, <2>5, OutsideSame
  <2>6. CASE UNCHANGED vars
    BY <2>2, <2>6 DEF vars, Same, SameSession
  <2>. QED  BY <1>1, <2>3, <2>4, <2>5, <2>6 DEF Next, Outside
<1>2. BillingInv /\ [Next]_vars =>
          [\A r \in Requests : Settled(r) =>
              /\ Settled(r)' /\ "refunded" \notin flags'[r]
              /\ net'[r] # net[r] => pc[r] \in {"feeFunding", "feeToken"}]_vars
  BY <1>1
<1>. QED  BY <1>2, BillingInvariant, PTL DEF Spec, SettledIsFinal

-----------------------------------------------------------------------------
(***************************************************************************)
(* The ledger of a subscription.  A transaction saves the row it has read. *)
(* As long as no stale save and no reset has touched a subscription, what  *)
(* a saved row says is what the subscription holds; then amount_used is    *)
(* the sum of what the requests have drawn, so it is at least what one     *)
(* request has drawn, by Covered that is at least what it gives back, and  *)
(* the clamp at 0 does not bite.                                           *)
(***************************************************************************)

\* What r has drawn from subscription k.
Share(r, k) == IF fund[r].subId = k THEN net[r].sub ELSE 0

ShareOf(k) == [r \in Requests |-> Share(r, k)]

Drawn(k) == Sum(ShareOf(k), Requests)

WithinTotal(k) == SubTotal > 0 => subUsed[k] <= SubTotal

UsageExact(k) == Undisturbed(k) => subUsed[k] = SubUsedInit + Drawn(k)

\* The clamp has kept nothing of what r gave back.
ClampExact(r) == Undisturbed(fund[r].subId) => net[r].clamped = 0

\* Where a transaction on a subscription's row is under way.
RowPlaces ==
    {"preFunding", "rsvFunding", "rsvRoll", "setFunding", "refFunding", "refExtra", "feeFunding"}

\* The row r has read is its subscription's, within the total, and one that
\* PreConsumeUserSubscription has chosen has room for the request.
RowInv(r) ==
    row[r] # NoRow =>
        /\ pc[r] \in RowPlaces /\ fund[r].src = "subscription"
        /\ pc[r] # "preFunding" => row[r].id = fund[r].subId
        /\ SubTotal > 0 =>
              /\ row[r].used <= SubTotal
              /\ pc[r] = "preFunding" => UsedThisPeriod(row[r]) + op[r].delta <= SubTotal

\* The row the reset task has read is due.
LockedInv == locked # NoRow => ResetDue(locked)

SubInv ==
    /\ BillingInv /\ LockedInv
    /\ \A r \in Requests : RowInv(r) /\ ClampExact(r)
    /\ \A k \in SubIds : WithinTotal(k) /\ UsageExact(k)

LEMMA ShareType ==
    ASSUME TypeOK, NEW r \in Requests, NEW k PROVE Share(r, k) \in Int
  BY FieldTypes DEF Fields, Share

LEMMA ShareTypeNext ==
    ASSUME TypeOK', NEW r \in Requests, NEW k PROVE Share(r, k)' \in Int
<1>1. net'[r] \in NetType
  BY DEF TypeOK
<1>2. net'[r].sub \in Int
  BY <1>1 DEF NetType
<1>. QED  BY <1>2 DEF Share

LEMMA DrawnMoves ==
    ASSUME TypeOK, TypeOK', NEW r \in Requests, \A q \in Requests \ {r} : Same(q), NEW k
    PROVE  Drawn(k)' = Drawn(k) - Share(r, k) + Share(r, k)'
<1>1. \A q \in Requests : ShareOf(k)[q] = Share(q, k) /\ ShareOf(k)'[q] = Share(q, k)'
  BY DEF ShareOf
<1>2. \A q \in Requests : ShareOf(k)[q] \in Int /\ ShareOf(k)'[q] \in Int
  BY <1>1, ShareType, ShareTypeNext
<1>3. \A q \in Requests \ {r} : ShareOf(k)'[q] = ShareOf(k)[q]
  BY <1>1 DEF Share, Same, SameSession
<1>4. Sum(ShareOf(k)', Requests) = Sum(ShareOf(k), Requests) - ShareOf(k)[r] + ShareOf(k)'[r]
  BY <1>2, <1>3, SumChange, RequestAssumption
<1>. QED  BY <1>1, <1>4 DEF Drawn

\* A request has drawn no more than everybody together.
LEMMA DrawnCovers ==
    ASSUME BillingInv, "recordSave" \notin Faults, NEW r \in Requests, NEW k
    PROVE  Drawn(k) \in Nat /\ Share(r, k) <= Drawn(k)
<1>1. \A q \in Requests : ShareOf(k)[q] = Share(q, k) /\ ShareOf(k)[q] \in Nat
  <2>1. ASSUME NEW q \in Requests PROVE Share(q, k) \in Nat
    <3>1. Fields(q) /\ Covered(q)
      BY FieldTypes DEF BillingInv, Ledger
    <3>. QED  BY <3>1 DEF Fields, Covered, Share
  <2>. QED  BY <2>1 DEF ShareOf
<1>. QED  BY <1>1, SumOfNaturals, RequestAssumption DEF Drawn

DueOf == [r \in Requests |-> Due(r)]

LEMMA DueSumIs ==
    ASSUME NEW k
    PROVE  MapThenSumSet(Due, Served(k)) = Sum(DueOf, Served(k))
<1>. DEFINE S == Served(k)
            Q(it) == it = [s \in SUBSET S |->
                          IF s = {} THEN 0 ELSE Due(Taken(s)) + it[s \ {Taken(s)}]]
            chosen == CHOOSE it : Q(it)
<1>0. IsFiniteSet(S) /\ S \subseteq Requests
  BY RequestAssumption, FS_Subset DEF Served
<1>1. MapThenSumSet(Due, S) = chosen[S]
  BY DEF MapThenSumSet, MapThenFoldSet, Taken
<1>. HIDE DEF S
<1>2. \A s \in SUBSET S : s # {} => DueOf[Taken(s)] = Due(Taken(s))
  BY <1>0, TakenIn DEF DueOf
<1>3. ASSUME NEW it PROVE Q(it) <=> Adds(it, DueOf, SUBSET S)
  BY <1>2 DEF Adds
<1>4. \E it : Q(it)
  BY <1>0, <1>3, AddsExists
<1>5. Q(chosen)
  BY <1>4
<1>6. Adds(chosen, DueOf, SUBSET S)
  BY <1>3, <1>5
<1>. HIDE DEF chosen
<1>7. MapThenSumSet(Due, S) = Sum(DueOf, S)
  BY <1>0, <1>1, <1>6, SumIs
<1>. QED  BY <1>7 DEF S

\* At rest a request that a subscription serves has drawn what it owes.
LEMMA RestIsDue ==
    ASSUME BillingInv, NEW k \in SubIds, NEW r \in Served(k), AtRest(r)
    PROVE  net[r].sub = Due(r)
<1>1. r \in Requests /\ fund[r].subId = k /\ k # 0
  BY CountAssumption DEF Served, SubIds
<1>2. SubServed(r) /\ ExactLedgers(r)
  BY <1>1 DEF BillingInv, Ledger
<1>3. pc[r] \in Live /\ fund[r].src = "subscription"
  BY <1>1, <1>2 DEF SubServed
<1>4. OwedFunding(r) = Due(r)
  BY <1>3 DEF AtRest, OwedFunding, Live, Reserving, Settling, Refunding, Closing
<1>. QED  BY <1>2, <1>3, <1>4 DEF ExactLedgers, AtRest

LEMMA SubInvIsEnough == SubInv => SubscriptionLedgerExact
<1>. SUFFICES ASSUME SubInv, NEW k \in SubIds
              PROVE  /\ SubTotal > 0 => subUsed[k] <= SubTotal
                     /\ (Undisturbed(k) /\ \A r \in Served(k) : AtRest(r)) =>
                           subUsed[k] = SubUsedInit + MapThenSumSet(Due, Served(k))
  BY DEF SubscriptionLedgerExact
<1>1. TypeOK /\ BillingInv /\ WithinTotal(k) /\ UsageExact(k)
  BY DEF SubInv, BillingInv
<1>2. ASSUME Undisturbed(k), \A r \in Served(k) : AtRest(r)
      PROVE  Drawn(k) = MapThenSumSet(Due, Served(k))
  <2>1. \A r \in Requests : ShareOf(k)[r] = Share(r, k) /\ ShareOf(k)[r] \in Int
    BY <1>1, ShareType DEF ShareOf
  <2>2. Served(k) \in SUBSET Requests /\ IsFiniteSet(Served(k)) /\ IsFiniteSet(Requests)
    BY RequestAssumption, FS_Subset DEF Served
  <2>3. \A r \in Requests \ Served(k) : ShareOf(k)[r] = 0
    BY <2>1 DEF Served, Share
  <2>4. Sum(ShareOf(k), Requests) = Sum(ShareOf(k), Served(k))
    BY <2>1, <2>2, <2>3, SumOfNonzero
  <2>5. \A r \in Served(k) : ShareOf(k)[r] = DueOf[r]
    BY <1>1, <1>2, <2>1, <2>2, RestIsDue DEF Served, Share, DueOf
  <2>6. Sum(ShareOf(k), Served(k)) = Sum(DueOf, Served(k))
    BY <2>2, <2>5, SumAgrees
  <2>. QED  BY <2>4, <2>6, DueSumIs DEF Drawn
<1>. QED  BY <1>1, <1>2 DEF WithinTotal, UsageExact

\* What a save does to the subscriptions.
LEMMA SaveEffect ==
    ASSUME TypeOK, NEW w \in RowType, NEW used, NEW next, Save(w, used, next), NEW k \in SubIds
    PROVE  /\ k # w.id => subUsed'[k] = subUsed[k] /\ (k \in overwritten <=> k \in overwritten')
           /\ k = w.id => /\ subUsed'[k] = used
                          /\ k \notin overwritten' => k \notin overwritten /\ subUsed[k] = w.used
<1>1. w.id \in SubIds /\ subUsed \in [SubIds -> Nat]
  BY DEF RowType, TypeOK
<1>. QED  BY <1>1 DEF Save

LEMMA SubStaysDisturbed ==
    ASSUME TypeOK, NEW r \in Requests, SubEffect(r), NEW k, Undisturbed(k)' PROVE Undisturbed(k)
<1>1. CASE LeftAlone(r)
  BY <1>1 DEF LeftAlone, subs, Undisturbed
<1>2. CASE \E n \in Int : Moved(r, n)
  BY <1>2 DEF Moved, Save, Undisturbed
<1>3. CASE Begun(r)
  BY <1>3 DEF Begun, Save, Renews, Undisturbed
<1>. QED  BY <1>1, <1>2, <1>3 DEF SubEffect

LEMMA MovedExact ==
    ASSUME SubInv, BillingInv', "recordSave" \notin Faults, NEW r \in Requests,
           NEW n \in Int, Moved(r, n), \A q \in Requests \ {r} : Same(q), NEW k \in SubIds
    PROVE  WithinTotal(k)' /\ UsageExact(k)' /\ (k = fund[r].subId => ClampExact(r)')
<1>0. /\ TypeOK /\ TypeOK' /\ BillingInv /\ SubServed(r) /\ RowInv(r) /\ ClampExact(r)
      /\ WithinTotal(k) /\ UsageExact(k) /\ SubTotal \in Nat /\ SubUsedInit \in Nat
  BY CountAssumption, UsageAssumption DEF SubInv, BillingInv
<1>1. /\ net[r].sub \in Int /\ net'[r].sub \in Int /\ net'[r].sub >= 0
      /\ net[r].clamped \in Nat /\ subUsed[k] \in Nat
  <2>1. net[r] \in NetType /\ net'[r] \in NetType /\ Covered(r)'
    BY <1>0 DEF TypeOK, BillingInv, Ledger
  <2>2. net[r].sub \in Int /\ net'[r].sub \in Int /\ net[r].clamped \in Nat
    BY <2>1 DEF NetType
  <2>. QED  BY <1>0, <2>1, <2>2 DEF Covered, TypeOK
<1>2. Drawn(k)' = Drawn(k) - Share(r, k) + Share(r, k)'
  BY <1>0, DrawnMoves
<1>3. Drawn(k) \in Nat /\ Share(r, k) <= Drawn(k) /\ Share(r, k) \in Int
  BY <1>0, DrawnCovers, ShareType
<1>4. row[r] \in RowType /\ row[r].used \in Nat /\ row[r].id = fund[r].subId
  <2>1. pc[r] # "preFunding"
    BY DEF Moved, Live, Reserving, Settling, Refunding, Closing
  <2>. QED  BY <1>0, <2>1, RowTypes DEF Moved, RowInv
<1>5. CASE k # fund[r].subId
  <2>1. subUsed'[k] = subUsed[k] /\ (k \in overwritten <=> k \in overwritten') /\ renewed' = renewed
    BY <1>0, <1>4, <1>5, SaveEffect DEF Moved
  <2>2. Share(r, k) = 0 /\ Share(r, k)' = 0
    BY <1>5 DEF Moved, Share
  <2>3. Drawn(k)' = Drawn(k)
    BY <1>2, <1>3, <2>2
  <2>. QED  BY <1>0, <1>5, <2>1, <2>3 DEF WithinTotal, UsageExact, Undisturbed
<1>6. CASE k = fund[r].subId
  <2>1. /\ subUsed'[k] = UsedAfter(row[r], n)
        /\ k \notin overwritten' => k \notin overwritten /\ subUsed[k] = row[r].used
        /\ renewed' = renewed
    BY <1>0, <1>4, <1>6, SaveEffect DEF Moved
  <2>2. Share(r, k) = net[r].sub /\ Share(r, k)' = net[r].sub + n /\ fund'[r].subId = k
    BY <1>6 DEF Moved, Share
  <2>3. WithinTotal(k)'
    <3>1. SubTotal > 0 => row[r].used <= SubTotal
      BY <1>0 DEF RowInv, Moved
    <3>2. n <= 0 \/ ~Exceeds(row[r], n)
      BY DEF Moved
    <3>. QED  BY <1>0, <1>4, <2>1, <3>1, <3>2 DEF WithinTotal, UsedAfter, Exceeds
  <2>4. ASSUME Undisturbed(k)'
        PROVE  /\ subUsed'[k] = SubUsedInit + Drawn(k)'
               /\ net'[r].clamped = 0
    <3>1. Undisturbed(k) /\ subUsed[k] = row[r].used
      BY <2>1, <2>4 DEF Undisturbed
    <3>2. subUsed[k] = SubUsedInit + Drawn(k) /\ net[r].clamped = 0
      BY <1>0, <1>6, <3>1 DEF UsageExact, ClampExact
    <3>3. net'[r].sub = net[r].sub + n
      BY DEF Moved
    <3>4. row[r].used + n >= 0
      BY <1>0, <1>1, <1>3, <1>4, <2>2, <3>1, <3>2, <3>3
    <3>5. UsedAfter(row[r], n) = row[r].used + n /\ Clamped(row[r], n) = 0
      BY <1>4, <3>4 DEF UsedAfter, Clamped
    <3>8. Drawn(k)' = Drawn(k) + n
      BY <1>1, <1>2, <1>3, <2>2
    <3>6. subUsed'[k] = SubUsedInit + Drawn(k)'
      <4>1. subUsed'[k] = subUsed[k] + n
        BY <2>1, <3>1, <3>5
      <4>2. SubUsedInit \in Nat /\ Drawn(k) \in Nat /\ subUsed[k] = SubUsedInit + Drawn(k)
        BY <1>0, <1>3, <3>2
      <4>3. SubUsedInit + Drawn(k) + n = SubUsedInit + (Drawn(k) + n)
        BY <4>2
      <4>. QED  BY <3>8, <4>1, <4>2, <4>3
    <3>7. net'[r].clamped = 0
      BY <3>2, <3>5 DEF Moved
    <3>. QED  BY <3>6, <3>7
  <2>. QED  BY <2>2, <2>3, <2>4 DEF UsageExact, ClampExact
<1>. QED  BY <1>5, <1>6

LEMMA BegunExact ==
    ASSUME SubInv, BillingInv', "recordSave" \notin Faults, NEW r \in Requests,
           Begun(r), \A q \in Requests \ {r} : Same(q), NEW k \in SubIds
    PROVE  WithinTotal(k)' /\ UsageExact(k)' /\ ClampExact(r)'
<1>0. /\ TypeOK /\ TypeOK' /\ BillingInv /\ SubServed(r) /\ RowInv(r)
      /\ WithinTotal(k) /\ UsageExact(k) /\ SubTotal \in Nat /\ SubUsedInit \in Nat
  BY CountAssumption, UsageAssumption DEF SubInv, BillingInv
<1>1. /\ fund[r].subId = 0 /\ net[r].clamped = 0 /\ net[r].sub = 0
      /\ op[r].delta \in Int /\ subUsed[k] \in Nat /\ k # 0
  <2>1. pc[r] \notin Live /\ pc[r] \in Opening
    BY DEF Begun, Opening, Live, Reserving, Settling, Refunding, Closing
  <2>2. OtherLedgers(r) /\ Fields(r)
    BY <1>0, FieldTypes DEF BillingInv, Ledger
  <2>3. k # 0
    BY CountAssumption DEF SubIds
  <2>. QED  BY <1>0, <2>1, <2>2, <2>3 DEF SubServed, OtherLedgers, Fields, TypeOK
<1>2. Drawn(k)' = Drawn(k) - Share(r, k) + Share(r, k)'
  BY <1>0, DrawnMoves
<1>3. Drawn(k) \in Nat
  BY <1>0, DrawnCovers
<1>4. row[r] \in RowType /\ row[r].used \in Nat
  BY <1>0, RowTypes DEF Begun
<1>5. ClampExact(r)'
  BY <1>1 DEF ClampExact, Begun
<1>6. CASE k # row[r].id
  <2>1. subUsed'[k] = subUsed[k] /\ (k \in overwritten <=> k \in overwritten')
    BY <1>0, <1>4, <1>6, SaveEffect DEF Begun
  <2>2. Share(r, k) = 0 /\ Share(r, k)' = 0
    BY <1>1, <1>6 DEF Begun, Share
  <2>3. Drawn(k)' = Drawn(k)
    BY <1>2, <1>3, <2>2
  <2>4. k \in renewed => k \in renewed'
    BY DEF Begun, Renews
  <2>. QED  BY <1>0, <1>5, <2>1, <2>3, <2>4 DEF WithinTotal, UsageExact, Undisturbed
<1>7. CASE k = row[r].id
  <2>1. /\ subUsed'[k] = UsedThisPeriod(row[r]) + op[r].delta
        /\ k \notin overwritten' => k \notin overwritten /\ subUsed[k] = row[r].used
    BY <1>0, <1>4, <1>7, SaveEffect DEF Begun
  <2>2. Share(r, k) = 0 /\ Share(r, k)' = op[r].delta
    BY <1>1, <1>7 DEF Begun, Share
  <2>3. WithinTotal(k)'
    BY <1>0, <2>1 DEF WithinTotal, RowInv, Begun
  <2>4. ASSUME Undisturbed(k)' PROVE subUsed'[k] = SubUsedInit + Drawn(k)'
    <3>1. Undisturbed(k) /\ subUsed[k] = row[r].used /\ ~ResetDue(row[r])
      BY <1>7, <2>1, <2>4 DEF Undisturbed, Begun, Renews
    <3>2. subUsed[k] = SubUsedInit + Drawn(k)
      BY <1>0, <3>1 DEF UsageExact
    <3>3. subUsed'[k] = subUsed[k] + op[r].delta
      BY <2>1, <3>1 DEF UsedThisPeriod
    <3>. QED  BY <1>0, <1>1, <1>2, <1>3, <2>2, <3>2, <3>3
  <2>. QED  BY <1>5, <2>3, <2>4 DEF UsageExact
<1>. QED  BY <1>6, <1>7

LEMMA SubExactStep ==
    ASSUME SubInv, BillingInv', "recordSave" \notin Faults, NEW r \in Requests, SubEffect(r),
           \A q \in Requests \ {r} : Same(q), NEW k \in SubIds
    PROVE  WithinTotal(k)' /\ UsageExact(k)'
<1>1. CASE LeftAlone(r)
  <2>0. TypeOK /\ TypeOK' /\ BillingInv /\ WithinTotal(k) /\ UsageExact(k)
    BY DEF SubInv, BillingInv
  <2>1. Drawn(k)' = Drawn(k) - Share(r, k) + Share(r, k)'
    BY <2>0, DrawnMoves
  <2>2. Share(r, k)' = Share(r, k)
    BY <1>1 DEF LeftAlone, Share
  <2>3. Drawn(k) \in Int /\ Share(r, k) \in Int
    BY <2>0, DrawnCovers, ShareType
  <2>4. Drawn(k)' = Drawn(k)
    BY <2>1, <2>2, <2>3
  <2>. QED  BY <1>1, <2>0, <2>4 DEF LeftAlone, subs, WithinTotal, UsageExact, Undisturbed
<1>2. CASE \E n \in Int : Moved(r, n)
  BY <1>2, MovedExact
<1>3. CASE Begun(r)
  BY <1>3, BegunExact
<1>. QED  BY <1>1, <1>2, <1>3 DEF SubEffect

LEMMA ClampStep ==
    ASSUME SubInv, BillingInv', "recordSave" \notin Faults, NEW r \in Requests, SubEffect(r),
           \A q \in Requests \ {r} : Same(q)
    PROVE  \A q \in Requests : ClampExact(q)'
<1>0. TypeOK /\ SubServed(r) /\ ClampExact(r)
  BY DEF SubInv, BillingInv
<1>1. ASSUME NEW q \in Requests \ {r} PROVE ClampExact(q)'
  <2>1. Undisturbed(fund[q].subId)' => Undisturbed(fund[q].subId)
    BY <1>0, SubStaysDisturbed DEF Undisturbed, Same, SameSession
  <2>. QED  BY <2>1 DEF SubInv, ClampExact, Same, SameSession, Undisturbed
<1>2. ClampExact(r)'
  <2>1. CASE LeftAlone(r)
    BY <1>0, <2>1 DEF LeftAlone, subs, ClampExact, Undisturbed
  <2>2. ASSUME NEW n \in Int, Moved(r, n) PROVE ClampExact(r)'
    BY <1>0, <2>2, MovedExact DEF Moved, SubServed
  <2>3. CASE Begun(r)
    <3>1. row[r].id \in SubIds
      BY <1>0, <2>3, RowTypes DEF Begun, RowType
    <3>. QED  BY <2>3, <3>1, BegunExact
  <2>. QED  BY <2>1, <2>2, <2>3 DEF SubEffect
<1>. QED  BY <1>1, <1>2

\* A transaction on a row ends with the statement that follows the read.
LEMMA RowEnds ==
    ASSUME TypeOK, NEW r \in Requests, RowInv(r),
           Done(r) \/ (UNCHANGED row /\ (pc[r] \notin RowPlaces \/ fund[r].src # "subscription"))
    PROVE  row'[r] = NoRow
  BY DEF Done, TypeOK, RowInv

LEMMA TakeEnds ==
    ASSUME NEW r \in Requests, NEW n, Take(r, n)
    PROVE  Done(r) \/ (UNCHANGED row /\ fund[r].src # "subscription")
  BY DEF Take, TakeWallet, TakeSub, MoveSub

LEMMA RowStep ==
    ASSUME SubInv, NEW r \in Requests, RequestStep(r) PROVE RowInv(r)'
<1>0. /\ TypeOK /\ RowInv(r) /\ Fields(r) /\ SubServed(r) /\ SubTotal \in Nat
      /\ \A k \in SubIds : WithinTotal(k)
  BY FieldTypes, CountAssumption DEF SubInv, BillingInv
<1>1. ASSUME row'[r] = NoRow PROVE RowInv(r)'
  BY <1>1 DEF RowInv
<1>2. CASE \/ Start(r) \/ HasActiveUserSubscription(r) \/ TryWallet(r) \/ TrySubscription(r)
           \/ CheckToken(r) \/ PreConsumeTokenQuota(r) \/ RollBackToken(r)
  <2>1. pc[r] \notin RowPlaces
    BY <1>2 DEF Start, HasActiveUserSubscription, TryWallet, TrySubscription, CheckToken,
       PreConsumeTokenQuota, RollBackToken, RowPlaces
  <2>2. Done(r) \/ UNCHANGED row
    BY <1>2 DEF Start, HasActiveUserSubscription, TryWallet, TrySubscription, CheckToken,
       PreConsumeTokenQuota, RollBackToken, TakeToken, Quiet, DbError
  <2>. QED  BY <1>0, <1>1, <2>1, <2>2, RowEnds
<1>3. CASE \/ Reserve(r) \/ ReserveCheckToken(r) \/ ReserveToken(r) \/ Settle(r) \/ SettleToken(r)
           \/ Refund(r) \/ SkipRefund(r) \/ RefundToken(r) \/ ChargeViolationFee(r)
           \/ PostConsumeToken(r)
  <2>1. pc[r] \notin RowPlaces
    BY <1>3 DEF Reserve, ReserveCheckToken, ReserveToken, Settle, SettleToken, Refund,
       SkipRefund, RefundToken, ChargeViolationFee, PostConsumeToken, RowPlaces
  <2>2. Done(r) \/ UNCHANGED row
    BY <1>3 DEF Reserve, ReserveCheckToken, ReserveToken, Settle, SettleToken, Refund,
       SkipRefund, RefundToken, ChargeViolationFee, PostConsumeToken, TakeToken, Quiet, DbError
  <2>. QED  BY <1>0, <1>1, <2>1, <2>2, RowEnds
<1>4. CASE PreConsumeWallet(r) \/ RefundWallet(r)
  <2>1. fund[r].src # "subscription"
    BY <1>4 DEF PreConsumeWallet, RefundWallet
  <2>2. Done(r) \/ UNCHANGED row
    BY <1>4 DEF PreConsumeWallet, RefundWallet, TakeWallet, DbError
  <2>. QED  BY <1>0, <1>1, <2>1, <2>2, RowEnds
<1>5. CASE PreConsumeSubscription(r) \/ RefundSubscription(r) \/ RefundExtra(r)
  <2>1. Done(r)
    BY <1>5 DEF PreConsumeSubscription, RefundSubscription, RefundExtra, TakeSub, MoveSub, DbError
  <2>. QED  BY <1>0, <1>1, <2>1, RowEnds
<1>6. CASE \/ ReserveFunding(r) \/ RollbackFundingReserve(r) \/ SettleFunding(r)
           \/ PostConsumeFunding(r)
  <2>1. Done(r) \/ (UNCHANGED row /\ fund[r].src # "subscription")
    BY <1>6, TakeEnds DEF ReserveFunding, RollbackFundingReserve, SettleFunding,
       PostConsumeFunding, Refused, DbError
  <2>. QED  BY <1>0, <1>1, <2>1, RowEnds
<1>7. CASE FindSubscription(r)
  <2>1. CASE Quiet \/ DbError(r)
    <3>1. Done(r) \/ row' = row
      BY <2>1 DEF Quiet, DbError
    <3>2. row'[r] = NoRow
      BY <1>0, <1>7, <3>1 DEF FindSubscription, Done, TypeOK
    <3>. QED  BY <1>1, <3>2
  <2>2. ASSUME NEW k \in Candidates(op[r].delta), row' = [row EXCEPT ![r] = Row(k)],
               UNCHANGED pc, UNCHANGED session
        PROVE  RowInv(r)'
    <3>1. row'[r] = Row(k) /\ k \in SubIds /\ WithinTotal(k)
      BY <1>0, <2>2 DEF TypeOK, Candidates
    <3>2. Row(k) \in RowType /\ Row(k).used = subUsed[k] /\ UsedThisPeriod(Row(k)) \in Nat
      BY <1>0, <3>1, RowIsTyped DEF Row, UsedThisPeriod, RowType
    <3>3. SubTotal > 0 => UsedThisPeriod(Row(k)) + op[r].delta <= SubTotal
      BY <1>0, <2>2, <3>2 DEF Candidates, Fields
    <3>4. pc'[r] = "preFunding" /\ fund'[r] = fund[r] /\ fund[r].src = "subscription"
          /\ op'[r] = op[r]
      BY <1>7, <2>2 DEF FindSubscription, session
    <3>5. pc'[r] \in RowPlaces
      BY <3>4 DEF RowPlaces
    <3>6. UsedThisPeriod(row[r])' = UsedThisPeriod(row'[r])
      BY DEF UsedThisPeriod, ResetDue
    <3>. QED  BY <3>1, <3>2, <3>3, <3>4, <3>5, <3>6 DEF RowInv, WithinTotal
  <2>. QED  BY <1>7, <2>1, <2>2 DEF FindSubscription
<1>8. CASE ReadSubscription(r)
  <2>1. pc[r] \in Live /\ pc[r] # "preFunding" /\ pc[r] \in RowPlaces
    BY <1>8 DEF ReadSubscription, Live, Reserving, Settling, Refunding, Closing, RowPlaces
  <2>2. fund[r].subId \in SubIds /\ fund[r].src = "subscription"
    BY <1>0, <1>8, <2>1 DEF ReadSubscription, SubServed
  <2>3. row'[r] = Row(fund[r].subId) /\ pc' = pc /\ fund' = fund
    BY <1>0, <1>8 DEF ReadSubscription, TypeOK, session
  <2>4. Row(fund[r].subId).id = fund[r].subId /\ Row(fund[r].subId).used = subUsed[fund[r].subId]
    BY DEF Row
  <2>5. WithinTotal(fund[r].subId)
    BY <1>0, <2>2
  <2>. QED  BY <2>1, <2>2, <2>3, <2>4, <2>5 DEF RowInv, WithinTotal
<1>. QED  BY <1>2, <1>3, <1>4, <1>5, <1>6, <1>7, <1>8 DEF RequestStep

LEMMA SameRow == ASSUME NEW q, RowInv(q), Same(q) PROVE RowInv(q)'
<1>1. UsedThisPeriod(row[q])' = UsedThisPeriod(row[q])
  BY DEF Same, UsedThisPeriod, ResetDue
<1>. QED  BY <1>1 DEF Same, SameSession, RowInv

\* The sum of what was drawn stays when no request moves.
LEMMA DrawnStays == ASSUME NEW k, \A q \in Requests : Same(q) PROVE Drawn(k)' = Drawn(k)
<1>1. ShareOf(k)' = ShareOf(k)
  BY DEF ShareOf, Share, Same, SameSession
<1>. QED  BY <1>1 DEF Drawn

LEMMA OutsideExact ==
    ASSUME SubInv, BillingInv', Outside PROVE SubInv'
<1>0. TypeOK /\ SubTotal \in Nat
  BY CountAssumption DEF SubInv, BillingInv
<1>1. \A q \in Requests : Same(q)
  BY OutsideSame
<1>2. \A q \in Requests : RowInv(q)'
  BY <1>1, SameRow DEF SubInv
<1>3. ASSUME UNCHANGED <<subUsed, overwritten, renewed>>, LockedInv' PROVE SubInv'
  <2>1. \A q \in Requests : ClampExact(q)'
    BY <1>1, <1>3 DEF SubInv, ClampExact, Undisturbed, Same, SameSession
  <2>2. ASSUME NEW k \in SubIds PROVE WithinTotal(k)' /\ UsageExact(k)'
    BY <1>1, <1>3, DrawnStays DEF SubInv, WithinTotal, UsageExact, Undisturbed
  <2>. QED  BY <1>2, <1>3, <2>1, <2>2 DEF SubInv
<1>4. ASSUME NEW k \in SubIds,
             SubscriptionExpires(k) \/ AdminInvalidateUserSubscription(k) \/ PeriodPasses(k)
      PROVE  SubInv'
  <2>1. UNCHANGED <<subUsed, overwritten, renewed, locked>>
    BY <1>4 DEF SubscriptionExpires, AdminInvalidateUserSubscription, PeriodPasses, subs
  <2>. QED  BY <1>3, <2>1 DEF SubInv, LockedInv, ResetDue
<1>5. ASSUME NEW k \in SubIds, ResetDueSubscriptions(k) PROVE SubInv'
  <2>1. UNCHANGED <<subUsed, overwritten, renewed>>
    BY <1>5 DEF ResetDueSubscriptions, subs
  <2>2. LockedInv'
    BY <1>5 DEF ResetDueSubscriptions, LockedInv, ResetDue
  <2>. QED  BY <1>3, <2>1, <2>2
<1>6. CASE ResetSubscription
  <2>0. LockedInv'
    BY <1>6 DEF ResetSubscription, LockedInv
  <2>1. CASE UNCHANGED subs
    BY <1>3, <2>0, <2>1 DEF subs
  <2>2. CASE Save(locked, UsedThisPeriod(locked), NextReset(locked)) /\ Renews(locked)
    <3>1. locked \in RowType /\ ResetDue(locked)
      BY <1>0, <1>6 DEF ResetSubscription, TypeOK, SubInv, LockedInv
    <3>2. UsedThisPeriod(locked) = 0 /\ renewed' = renewed \cup {locked.id}
      BY <2>2, <3>1 DEF UsedThisPeriod, Renews
    <3>3. overwritten \subseteq overwritten'
      BY <2>2 DEF Save
    <3>4. \A q \in Requests : ClampExact(q)'
      BY <1>1, <3>2, <3>3 DEF SubInv, ClampExact, Undisturbed, Same, SameSession
    <3>5. ASSUME NEW k \in SubIds PROVE WithinTotal(k)' /\ UsageExact(k)'
      <4>1. CASE k = locked.id
        BY <1>0, <2>2, <3>1, <3>2, <4>1, SaveEffect DEF WithinTotal, UsageExact, Undisturbed
      <4>2. CASE k # locked.id
        <5>1. subUsed'[k] = subUsed[k] /\ (k \in overwritten <=> k \in overwritten')
          BY <1>0, <2>2, <3>1, <4>2, SaveEffect
        <5>. QED  BY <1>1, <3>2, <4>2, <5>1, DrawnStays
                  DEF SubInv, WithinTotal, UsageExact, Undisturbed
      <4>. QED  BY <4>1, <4>2
    <3>. QED  BY <1>2, <2>0, <3>4, <3>5 DEF SubInv
  <2>. QED  BY <1>6, <2>1, <2>2 DEF ResetSubscription
<1>. QED  BY <1>4, <1>5, <1>6 DEF Outside

LEMMA SubInit == Init => SubInv
<1>. SUFFICES ASSUME Init PROVE SubInv
  OBVIOUS
<1>1. BillingInv
  BY BillingInit
<1>2. LockedInv /\ \A r \in Requests : RowInv(r) /\ ClampExact(r)
  BY DEF Init, LockedInv, RowInv, ClampExact, NoNet
<1>3. ASSUME NEW k \in SubIds PROVE WithinTotal(k) /\ UsageExact(k)
  <2>1. \A r \in Requests : ShareOf(k)[r] = 0
    BY DEF Init, ShareOf, Share, NoNet
  <2>2. {} \in SUBSET Requests /\ \A r \in Requests : ShareOf(k)[r] \in Int
    BY <2>1
  <2>3. Sum(ShareOf(k), Requests) = Sum(ShareOf(k), {})
    BY <2>1, <2>2, SumOfNonzero, RequestAssumption
  <2>4. Drawn(k) = 0 /\ subUsed[k] = SubUsedInit
    BY <2>3, SumEmpty DEF Drawn, Init
  <2>. QED  BY <2>4, CountAssumption, UsageAssumption DEF WithinTotal, UsageExact
<1>. QED  BY <1>1, <1>2, <1>3 DEF SubInv

LEMMA SubStep ==
    ASSUME "recordSave" \notin Faults PROVE SubInv /\ [Next]_vars => SubInv'
<1>. SUFFICES ASSUME SubInv, [Next]_vars PROVE SubInv'
  OBVIOUS
<1>0. BillingInv /\ BillingInv'
  BY BillingStep DEF SubInv
<1>1. ASSUME NEW r \in Requests, RequestStep(r) PROVE SubInv'
  <2>1. SubEffect(r)
    BY <1>0, <1>1, StepOnSubs
  <2>2. \A q \in Requests \ {r} : Same(q)
    BY <1>0, <1>1, OthersStep
  <2>3. \A q \in Requests : RowInv(q)'
    <3>1. RowInv(r)'
      BY <1>1, RowStep
    <3>2. \A q \in Requests \ {r} : RowInv(q)'
      BY <2>2, SameRow DEF SubInv
    <3>. QED  BY <3>1, <3>2
  <2>4. \A q \in Requests : ClampExact(q)'
    BY <1>0, <2>1, <2>2, ClampStep
  <2>5. \A k \in SubIds : WithinTotal(k)' /\ UsageExact(k)'
    BY <1>0, <2>1, <2>2, SubExactStep
  <2>6. locked' = locked
    BY <1>1 DEF RequestStep, Start, HasActiveUserSubscription, TryWallet, TrySubscription,
       CheckToken, PreConsumeTokenQuota, PreConsumeWallet, FindSubscription,
       PreConsumeSubscription, RollBackToken, ReadSubscription, Reserve, ReserveFunding,
       ReserveCheckToken, ReserveToken, RollbackFundingReserve, Settle, SettleFunding,
       SettleToken, Refund, SkipRefund, RefundWallet, RefundSubscription, RefundExtra,
       RefundToken, ChargeViolationFee, PostConsumeFunding, PostConsumeToken, Frame
  <2>7. LockedInv'
    BY <2>6 DEF SubInv, LockedInv, ResetDue
  <2>. QED  BY <1>0, <2>3, <2>4, <2>5, <2>7 DEF SubInv
<1>2. CASE Outside
  BY <1>0, <1>2, OutsideExact
<1>3. CASE UNCHANGED vars
  <2>1. \A q \in Requests : Same(q)
    BY <1>3 DEF vars, Same, SameSession
  <2>2. \A q \in Requests : RowInv(q)' /\ ClampExact(q)'
    BY <1>3, <2>1, SameRow DEF vars, SubInv, ClampExact, Undisturbed
  <2>3. ASSUME NEW k \in SubIds PROVE WithinTotal(k)' /\ UsageExact(k)'
    BY <1>3, <2>1, DrawnStays DEF vars, SubInv, WithinTotal, UsageExact, Undisturbed
  <2>4. LockedInv'
    BY <1>3 DEF vars, SubInv, LockedInv, ResetDue
  <2>. QED  BY <1>0, <2>2, <2>3, <2>4 DEF SubInv
<1>. QED  BY <1>1, <1>2, <1>3 DEF Next, Outside

\* amount_used of every subscription stays within its total whatever stale rows are
\* saved; and as long as no stale save and no reset has touched it, it is what it was
\* plus exactly what the requests it serves owe when they are at rest, for any number
\* of concurrent requests: the interleavings of PreConsumeUserSubscription and
\* PostConsumeUserSubscriptionDelta lose or invent a charge in no other way.  The last
\* write of RefundSubscriptionPreConsume is assumed not to fail.
THEOREM BillingSubscriptionLedgerExact ==
    ASSUME "recordSave" \notin Faults
    PROVE  Spec => []SubscriptionLedgerExact
  BY SubInit, SubStep, SubInvIsEnough, PTL DEF Spec

\* NewBillingSession, Reserve, Settle and Refund together charge each ledger exactly
\* what the request owes, as long as no statement of the request has failed, however
\* many requests, roll backs and funding sources are involved; for a subscription, as
\* long as no stale save and no reset has touched it, since only then can the clamp at
\* 0 keep a part of a refund.
THEOREM BillingLedgerExact ==
    ASSUME "recordSave" \notin Faults
    PROVE  Spec => []SessionLedgerExact
<1>1. SubInv => SessionLedgerExact
  <2>. SUFFICES ASSUME SubInv, NEW r \in Requests, AtRest(r)
                PROVE  LET due == IF pc[r] = "rejected" THEN 0 ELSE Due(r) IN
                       /\ net[r].wallet = IF fund[r].src = "wallet" THEN due ELSE 0
                       /\ Undisturbed(fund[r].subId) =>
                             SubTaken(r) = IF fund[r].src = "subscription" THEN due ELSE 0
                       /\ net[r].token = IF Metered(r) THEN due ELSE 0
    BY DEF SessionLedgerExact
  <2>1. Ledger(r) /\ ClampExact(r) /\ Fields(r)
    BY FieldTypes DEF SubInv, BillingInv
  <2>2. /\ pc[r] = "rejected" => OwedFunding(r) = 0 /\ OwedToken(r) = 0
        /\ pc[r] # "rejected" => OwedFunding(r) = Due(r) /\ OwedToken(r) = Due(r)
    BY DEF AtRest, OwedFunding, OwedToken, Reserving, Refunding, Closing
  <2>3. Undisturbed(fund[r].subId) => SubTaken(r) = net[r].sub
    BY <2>1 DEF ClampExact, SubTaken, Fields
  <2>. QED  BY <2>1, <2>2, <2>3 DEF AtRest, Ledger, OtherLedgers, ExactLedgers
<1>. QED  BY <1>1, SubInit, SubStep, PTL DEF Spec
=============================================================================
