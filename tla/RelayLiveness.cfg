CONSTANTS
    r1 = r1
    r2 = r2
    Relays = {r1, r2}
    Events = {1}
    Subs = {1, 2}
    Matching <- BothOfOne
    Strategies = {"dead_letter"}
    Failures = {"error"}
    ExternalStore = FALSE
    MaxAttempts = 2
    BatchSize = 2
    HandlerTimeout = 2
    ClaimTimeout = 3
    Backoff = 1
    Latency = 1
    AttemptBound = 6
    MaxFaults = 2
    CommitOverrun = FALSE
    Prompt = TRUE
    NoRelay = NoRelay
    NoRow = NoRow
    NoDelivery = NoDelivery
SPECIFICATION FairSpec
PROPERTIES
    EventuallySettled
    StopEnds
