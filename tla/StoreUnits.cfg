CONSTANTS
    g = g
    n1 = n1
    n2 = n2
    Groups = {g}
    Events = {1}
    Destinations = {0, 1}
    Every = 0
    Private = {}
    Dest <- DestOne
    Named <- NoneNamed
    Include <- NoneNamed
    Nodes = {n1, n2}
    GroupOf <- OneGroup
    Wanted = {{0}, {1}}
    Uniform = TRUE
    Earliest = TRUE
    SnapshotReads = TRUE
    BatchSize = 1
    u1 = u1
    u2 = u2
    s1 = s1
    s2 = s2
    q1 = q1
    q2 = q2
    Units = {u1, u2}
    Aggregates = {1, 2}
    Stores = {s1, s2}
    Readers = {q1, q2}
    Strategies = {"head-row", "xid8"}
    Times = {1, 2}
    NumberingBatch = 1
    NumberingWindow = 2
    MaxEvents = 3
SPECIFICATION StoresSpec
SYMMETRY MCSymmetry
INVARIANTS
    StoresTypeOK
    DeliveriesKept
    OwedOnce
PROPERTIES
    KeepsStream
