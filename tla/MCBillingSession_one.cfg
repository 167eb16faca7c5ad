SPECIFICATION Spec
CONSTANTS
    Requests = {r1}
    Subs = 2
    SubTotal = 3
    SubUsedInit = 0
    WalletInit = 3
    TokenInit = 3
    TrustQuota = 2
    Prefs = {"subscription_only", "wallet_only", "wallet_first", "subscription_first"}
    Kinds = {"limited", "unlimited", "playground"}
    Forces = {TRUE, FALSE}
    Estimates = {0, 2, 4}
    Targets = {1, 3}
    Actuals = {0, 1, 2, 5}
    Fees = {1, 2}
    Faults = {"fail"}
    MaxFaults = 3
    MaxPeriods = 1
CONSTRAINT Followed
INVARIANTS TypeOK SessionLedgerExact
PROPERTY SettledIsFinal
CHECK_DEADLOCK FALSE
