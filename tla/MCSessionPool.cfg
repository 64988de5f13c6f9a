CONSTANTS
    Sessions = {s1, s2, s3}
    MaxSize = 2
    Lifetime = TRUE
    IdleTimeout = TRUE
    Checkins = TRUE
SPECIFICATION Spec
CHECK_DEADLOCK FALSE
INVARIANTS SlotAccounting Exclusive
PROPERTIES ImplementsSlotPool CheckoutReturns
