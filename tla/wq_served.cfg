\* A kind no node runs, one crash or lost connection, one failing call.
SPECIFICATION FairSpec
CONSTANTS
    j1 = j1  j2 = j2  n1 = n1  n2 = n2  i1 = i1  i2 = i2
    r1 = r1  r2 = r2  kA = kA  kB = kB  p1 = p1
    Jobs = {j1, j2}
    Intents = {i1, i2}
    IntentOf <- OwnIntent
    Kinds = {kA, kB}
    KindOf <- TwoKinds
    Nodes = {n1}
    KindsRunBy <- RunsFirst
    Requests = {r1, r2}
    From <- SlotsOfOne
    Sweep = sweep
    Fallback = fallback
    None = none
    Contacts = {p1}
    Capabilities = {}
    ProviderOf <- OneProvider
    Hired <- HireAll
    Unclassified = {}
    Instant = {}
    SweepBatch = 1
    MaxSubmits = 1
    MaxLosses = 1
    MaxErrors = 1
PROPERTIES QueuedIsServed EveryJobEnds
