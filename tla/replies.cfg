\* Two rows that share an issue, a discussion of ours, a comment and changes of
\* state on both; one failing fetch, edit of the file or death, and a --since.
SPECIFICATION Spec
CONSTANTS
    c1 = c1  c2 = c2  t1 = t1  t2 = t2  a = a  b = b  c = c  d = d  e = e
    Contacts <- InOrder
    Newcomer = newcomer
    Notes <- TwoRows
    Threads = {t1, t2}
    Discussions = {t2}
    OwnThreads = {t2}
    Posts = {a, b, c, d, e}
    On <- OnThreads
    By <- Answers
    What <- Kinds
    InitialStatus <- Asked
    None = None
    MaxTime = 2
    MaxMishaps = 1
    Overrides = {2}
INVARIANTS NothingMissed EscalatedForCause
