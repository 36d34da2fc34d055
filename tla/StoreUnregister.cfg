CONSTANTS
    g = g
    h = h
    n1 = n1
    n2 = n2
    Groups = {g}
    Events = {1}
    Destinations = {0, 1}
    Every = 0
    Private = {}
    Dest <- DestOne
    Named <- NoneNamed
    Include <- NoneNamed
    Nodes = {n1}
    GroupOf <- OneGroup
    Wanted = {{1}}
    Uniform = TRUE
    Earliest = TRUE
    SnapshotReads = FALSE
    BatchSize = 1
SPECIFICATION Spec
INVARIANTS
    NothingOwedOnceGone
