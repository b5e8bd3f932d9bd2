SPECIFICATION BackgroundSpec
CONSTANTS
    Mail = {m1}
    Worker = {w1, w2}
    MaxRows = 2
    MaxAttempts = 2
    MaxTransient = 1
    MaxCrashes = 1
    Message <- Ids
    Unrenderable <- Broken
    Reaction <- Outcomes
    MAX_CONTACT_EMAIL_ATTEMPTS = 2
    MaxFault = 1
    Happening = {e1, e2}
    Purchase = {e2}
    Subject = {e1}
    Thread = {k1, k2}
    MaxIngest = 2
    MaxErasure = 1
    MaxStop = 1
    Turn <- Turns
    Slot = {s1}
    Column <- OneColumn
    Section = {d1}
    Admin = {a1}
    Operator = {o1}
    NoTask = NoTask
    AtFirst <- Places
    MaxPicture = 1
    MaxSweep = 1
INVARIANTS OneSender NoNeedlessDuplicate SourceOfTruth MediaReachable
PROPERTIES KeepsPromise EventuallyTerminal ContactSettles ErasureReaches CaughtUp EverythingMoved
CHECK_DEADLOCK FALSE
