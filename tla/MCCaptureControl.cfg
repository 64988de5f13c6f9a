CONSTANTS
    s1 = s1
    s2 = s2
    Sessions = {s1, s2}
    BatchSize = 2
    None = None
    Setups <- AllSetups
SPECIFICATION Spec
CHECK_DEADLOCK FALSE
INVARIANTS ProfileIsForwarded StatusTrue
PROPERTIES StagedSurvive StopReturns LimitEnforced
