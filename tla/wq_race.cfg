\* Two executions of one intent with two capabilities of one provider each, two
\* nodes with a request each, the sweep; one crash or lost connection, no failing
\* calls.
SPECIFICATION Spec
CONSTANTS
    j1 = j1  j2 = j2  n1 = n1  n2 = n2  i1 = i1  i2 = i2
    r1 = r1  r2 = r2  kA = kA  kB = kB  p1 = p1
    Jobs = {j1, j2}
    Intents = {i1}
    IntentOf <- SameIntent
    Kinds = {kA, kB}
    KindOf <- OneKind
    Nodes = {n1, n2}
    KindsRunBy <- RunsFirst
    Requests = {r1, r2}
    From <- SlotPerNode
    Sweep = sweep
    Fallback = fallback
    None = none
    Contacts = {p1}
    Capabilities = {c1, c2}
    ProviderOf <- OneProvider
    Hired <- HireAll
    Unclassified = {}
    Instant = {j2}
    SweepBatch = 3
    MaxSubmits = 1
    MaxLosses = 1
    MaxErrors = 0
INVARIANTS OneWorker PaidOnce PaidInFull
PROPERTIES ClaimIsKept KeepsContract
