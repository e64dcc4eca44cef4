\* Two nodes, two patterns, two handlers at once.
SPECIFICATION Spec
CONSTANTS
    Nodes = {n1, n2}
    Patterns = {p1, p2}
    Calls = {c1, c2}
    n1 = n1
    n2 = n2
    p1 = p1
    p2 = p2
    c1 = c1
    c2 = c2
    None = None
    MaxVersion = 2
    TooBig = {}
    MaxAssignments = 1
    LookAhead = 5
    StrikeThreshold = 2
    CapHours = 2
    MinEmit = 1
    MaxTime = 0
    MaxStrikes = 2
    MaxMishaps = 1
SYMMETRY Alike
INVARIANTS UriIsConfirmed StruckOnlyByDrift DemotedAtThreshold
