CONSTANTS
    r1 = r1
    r2 = r2
    Relays = {r1, r2}
    Events = {1, 2}
    Subs = {1, 2, 3}
    Matching <- OneAndThree
    Strategies = {"ignore"}
    Failures = {"error"}
    ExternalStore = FALSE
    MaxAttempts = 1
    BatchSize = 2
    HandlerTimeout = 1
    ClaimTimeout = 2
    Backoff = 1
    Latency = 0
    AttemptBound = 1
    MaxFaults = 2
    CommitOverrun = FALSE
    Prompt = FALSE
    NoRelay = NoRelay
    NoRow = NoRow
    NoDelivery = NoDelivery
SPECIFICATION Spec
SYMMETRY RelaySymmetry
PROPERTIES
    KeepsContract
