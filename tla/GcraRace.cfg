\* The same calls against the bound without an allowance for delay.
SPECIFICATION Spec
CONSTANTS
    Tasks = {k1, k2}
    Costs <- CostSet
    limit = 2
    emission_interval = 2
    MaxDelay = 2
    MaxTime = 6
    None = None
SYMMETRY TaskSymmetry
INVARIANTS StrictRateBound
CHECK_DEADLOCK TRUE
