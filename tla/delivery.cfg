\* One agent with a local and one with a server backend, one pattern in one
\* directory and one in both, batches of one line, one invocation, two faults.
SPECIFICATION FairDeliverySpec
CONSTANTS
    l1 = l1   r = r  p = p  q = q
    Agents = {l1, r}
    Remote = {r}
    Patterns = {p, q}
    Overlaid = {q}
    BatchMax = 1
    None = None
    MaxInv = 1
    MaxOutcomes = 2
    MaxMishaps = 2
INVARIANTS CountedOnce OvercountBounded
PROPERTIES OnlyRacedVanish OutboxDrains LocalIsCounted
