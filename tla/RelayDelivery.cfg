CONSTANTS
    r1 = r1
    r2 = r2
    Relays = {r1, r2}
    Events = {1}
    Subs = {1, 2}
    Matching <- BothOfOne
    Strategies = {"dead_letter"}
    Failures = {"error", "poison"}
    ExternalStore = FALSE
    MaxAttempts = 2
    BatchSize = 2
    HandlerTimeout = 1
    ClaimTimeout = 2
    Backoff = 1
    Latency = 1
    AttemptBound = 3
    MaxFaults = 1
    CommitOverrun = FALSE
    Prompt = FALSE
    NoRelay = NoRelay
    NoRow = NoRow
    NoDelivery = NoDelivery
SPECIFICATION Spec
SYMMETRY RelaySymmetry
INVARIANTS
    TypeOK
    RunsWithinLease
    LeaseHolds
    ExclusiveHandling
    DeadLettersFinal
    BoundedRetries
PROPERTIES
    KeepsContract
