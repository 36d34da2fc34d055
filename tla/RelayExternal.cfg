CONSTANTS
    r1 = r1
    r2 = r2
    Relays = {r1, r2}
    Events = {1}
    Subs = {1, 2}
    Matching <- BothOfOne
    Strategies = {"dead_letter", "retry", "fail_fast"}
    Failures = {"error", "retain"}
    ExternalStore = TRUE
    MaxAttempts = 1
    BatchSize = 2
    HandlerTimeout = 1
    ClaimTimeout = 2
    Backoff = 1
    Latency = 0
    AttemptBound = 2
    MaxFaults = 1
    CommitOverrun = FALSE
    Prompt = FALSE
    NoRelay = NoRelay
    NoRow = NoRow
    NoDelivery = NoDelivery
SPECIFICATION Spec
SYMMETRY RelaySymmetry
PROPERTIES
    KeepsContract
