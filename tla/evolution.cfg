\* Two gaps of one pattern, the article pattern, the settings file; three edits,
\* one failure or death.
SPECIFICATION Spec
CONSTANTS
    k = k  p = p  q = q  g = g  h = h
    Gaps = {g, h}
    PatternOf <- SameTarget
    Patterns = {p, q}
    Article = q
    Settings = settings
    Clusters = {k}
    Whitelist = {p, q}
    None = None
    RollbackAge = 0
    MaxDay = 1
    MaxEdits = 3
    MaxMishaps = 1
INVARIANTS OneChangeADay FixedTextsOnce
PROPERTY RevertedIsGone
