\* Two calls whose script runs up to two milliseconds after their clock reading.
SPECIFICATION Spec
CONSTANTS
    Tasks = {k1, k2}
    Costs <- CostSet
    limit = 2
    emission_interval = 2
    MaxDelay = 2
    MaxTime = 6
    None = None
SYMMETRY TaskSymmetry
INVARIANTS TypeOK RateBound DebtBounded
PROPERTIES AnswerIsExact IsTokenBucket
CHECK_DEADLOCK TRUE
