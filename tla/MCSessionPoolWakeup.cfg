CONSTANTS
    Sessions = {s1, s2, s3, s4}
    MaxSize = 2
    Lifetime = FALSE
    IdleTimeout = FALSE
    Checkins = FALSE
SPECIFICATION Spec
CHECK_DEADLOCK FALSE
INVARIANTS WaitsOnlyAtCapacity
