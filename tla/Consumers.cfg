CONSTANTS
    g = g
    h = h
    n1 = n1
    n2 = n2
    Groups = {g, h}
    Events = {1, 2}
    Destinations = {0, 1, 2}
    Every = 0
    Private = {2}
    Dest <- DestEach
    Named <- NamedH
    Include <- IncludeH
    Nodes = {n1}
    GroupOf <- OneGroup
    Wanted = {{0}}
    Uniform = TRUE
    Earliest = TRUE
    SnapshotReads = FALSE
    BatchSize = 2
    m1 = m1
    m2 = m2
    Members = {m1, m2}
    Partitions = {1}
    Length = 2
    MaxPoll = 2
    MaxAttempts = 2
    Resets = {"earliest", "latest"}
    MaxMishaps = 1
SPECIFICATION ConsumersSpec
INVARIANTS
    ConsumersTypeOK
    NothingSkipped
    RunsAtOneMember
    BackfillExact
PROPERTIES
    CommitsForward
    EveryRecordSettles
