\* One node whose calls are served one at a time, two patterns, a clock.
SPECIFICATION FairSpec
CONSTANTS
    Nodes = {n1}
    Patterns = {p1, p2}
    Calls = {c1}
    n1 = n1
    p1 = p1
    p2 = p2
    c1 = c1
    None = None
    MaxVersion = 2
    TooBig <- OneOutgrows
    MaxAssignments = 3
    LookAhead = 1
    StrikeThreshold = 2
    CapHours = 2
    MinEmit = 1
    MaxTime = 2
    MaxStrikes = 2
    MaxMishaps = 1
INVARIANTS NoHourPaidTwice
PROPERTIES AssignedIsConfirmed
