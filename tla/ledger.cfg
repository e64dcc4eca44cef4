\* Three invocations, two accounts, six payloads.
SPECIFICATION Spec
CONSTANTS
    i1 = i1  i2 = i2  i3 = i3  a1 = a1  a2 = a2  n1 = n1  n2 = n2  n3 = n3
    s1 = s1  o1 = o1  o2 = o2  usd = usd
    Invocations = {i1, i2, i3}
    Accounts = {a1, a2}
    Scopes = {s1}
    Objects = {o1, o2}
    Currencies = {usd}
    Nonces = {n1, n2, n3}
    Amounts = {0, 1}
    Calls <- SomeCalls
    None = None
INVARIANTS WithinCeiling RowsAgree LogTellsAll AuditsPass
PROPERTIES ImplementsBudget
