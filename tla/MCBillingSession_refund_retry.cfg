SPECIFICATION Spec
CONSTANTS
    Requests = {r1}
    Subs = 1
    SubTotal = 4
    SubUsedInit = 2
    WalletInit = 3
    TokenInit = 3
    TrustQuota = 2
    Prefs = {"subscription_only"}
    Kinds = {"limited"}
    Forces = {FALSE}
    Estimates = {2}
    Targets = {}
    Actuals = {1, 4}
    Fees = {1}
    Faults = {"recordSave"}
    MaxFaults = 1
    MaxPeriods = 0
INVARIANT RefundIsIdempotent
CHECK_DEADLOCK FALSE
