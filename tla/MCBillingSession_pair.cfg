SPECIFICATION Spec
CONSTANTS
    Requests = {r1, r2}
    Subs = 1
    SubTotal = 3
    SubUsedInit = 0
    WalletInit = 3
    TokenInit = 3
    TrustQuota = 2
    Prefs = {"wallet_first", "subscription_first"}
    Kinds = {"limited"}
    Forces = {FALSE}
    Estimates = {2}
    Targets = {3}
    Actuals = {1, 3}
    Fees = {}
    Faults = {"fail"}
    MaxFaults = 1
    MaxPeriods = 0
CONSTRAINT BoundedClamp
SYMMETRY RequestSymmetry
INVARIANTS SessionLedgerExact SubscriptionLedgerExact NeverOverRefunded
CHECK_DEADLOCK FALSE
