\* Two intents of the provider himself, of a queued and of an inline kind, a
\* pattern posted by somebody else; one feedback request at a time, one crash
\* or failing call.
SPECIFICATION Spec
CONSTANTS
    j1 = j1  j2 = j2  p0 = p0  u = u  v = v  kq = kq  ki = ki  f1 = f1
    Jobs = {j1, j2}
    Posted = {p0}
    PostedBy = {u}
    Contacts = {u, v}
    AuthorOf <- OwnIntents
    ProvidersOf <- ProvidesOne
    Kinds = {kq, ki}
    Queued = {kq}
    Feedbacks = {f1}
    Rated = {j2}
    None = None
    Amount <- Rates
    Elapsed <- Halved
    RatioPct = 85
    Window = 1
    WindowCap = 2
    Cooldown = 1
    MaxBusy = 2
    MaxTime = 1
    MaxMishaps = 1
CHECK_DEADLOCK FALSE
INVARIANTS GrantedOnce RewardsAreEarned NoSelfReward
