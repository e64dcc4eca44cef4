\* Three workflows with loops; a session of three operations; two faults.
SPECIFICATION FairSpec
CONSTANTS
    Workflows <- AllWorkflows
    Bodies <- AllBodies
    None = None
    MaxOps = 3
    MaxMishaps = 2
INVARIANTS EventsPaired FailureStops SuccessIsWhole RollupNeverLow
PROPERTY Terminates
CHECK_DEADLOCK FALSE
