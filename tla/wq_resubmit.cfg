\* A node that repeats a PUT whose response was lost; the intent makes no pattern.
SPECIFICATION Spec
CONSTANTS
    j1 = j1  j2 = j2  n1 = n1  n2 = n2  i1 = i1  i2 = i2
    r1 = r1  r2 = r2  kA = kA  kB = kB  p1 = p1
    Jobs = {j1, j2}
    Intents = {i1}
    IntentOf <- SameIntent
    Kinds = {kA, kB}
    KindOf <- OneKind
    Nodes = {n1}
    KindsRunBy <- RunsFirst
    Requests = {r1, r2}
    From <- SlotsOfOne
    Sweep = sweep
    Fallback = fallback
    None = none
    Contacts = {p1}
    Capabilities = {c1}
    ProviderOf <- OneProvider
    Hired <- HireAll
    Unclassified = {i1}
    Instant = {}
    SweepBatch = 3
    MaxSubmits = 2
    MaxLosses = 1
    MaxErrors = 0
INVARIANT PaidOnce
