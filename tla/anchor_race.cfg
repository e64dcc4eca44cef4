\* Two processes, a clock, a conflicting and a cancelling status list, one
\* crash, failing write or database error, one restore.
SPECIFICATION Spec
SYMMETRY SymmetricProcs
CONSTANTS
    i1 = i1  i2 = i2  a1 = a1  n1 = n1  n2 = n2  usd = usd  t1 = t1  t2 = t2
    p1 = p1  p2 = p2
    Invocations = {i1, i2}
    Accounts = {a1}
    Scopes = {}
    Objects = {}
    Currencies = {usd}
    Nonces = {n1, n2}
    Calls <- TwoCalls
    None = None
    Intents = {t1, t2}
    IntentOf <- OwnIntent
    Expires <- Ends
    Procs = {p1, p2}
    Receipts <- Revisions
    Amounts = {1}
    MaxAge = 1
    MaxNow = 2
    MaxMishaps = 1
    MaxRestores = 1
INVARIANTS HandedOnce
PROPERTIES ActionsKeepBudget AdmittedUnderAuthority AnchorOnlyGrows
