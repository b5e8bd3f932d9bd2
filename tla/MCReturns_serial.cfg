SPECIFICATION FairSpec
CONSTANTS
    Order = {o1}
    Request = {r1}
    Poller = {w1}
    MaxParcels = 2
    MaxCases = 2
    MaxRecords = 2
    MaxEvents = 1
    LeaseTime = 1
    MaxBackoff = 1
    MaxAttempts = 1
    Threshold = 2
    Ordered = 1
    Ledger = {o1}
    Opening = {"return_in_transit"}
INVARIANTS OneSignalCase RestockOncePerCase
PROPERTIES KeepsPolling
CHECK_DEADLOCK FALSE
