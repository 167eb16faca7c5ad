-------------------------- MODULE MCPaymentOrders --------------------------
(* Instances of PaymentOrders for TLC. *)
EXTENDS PaymentOrders

CONSTANTS o1, o2, h1, h2, n1, n2

\* Any order next to a Creem subscription of the same user.
AnyOrderAndSub ==
    {[o \in Orders |-> IF o = o1 THEN k ELSE [via |-> "creem", what |-> "sub"]] : k \in Kinds}

\* Two nodes with row locks, and one node without.
SoundDeployments ==
    {[rowLock |-> TRUE, node |-> [h \in Handlers |-> IF h = h1 THEN n1 ELSE n2]],
     [rowLock |-> FALSE, node |-> [h \in Handlers |-> n1]]}

\* Two nodes, and no row locks: gorm v1.25.2 on Postgres or MySQL.
NodesWithoutLocks ==
    {[rowLock |-> FALSE, node |-> [h \in Handlers |-> IF h = h1 THEN n1 ELSE n2]]}

\* Top-ups through epay.
EpayTopUps == {[o \in Orders |-> [via |-> "epay", what |-> "topup"]]}
=============================================================================
