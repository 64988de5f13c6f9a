CONSTANTS
    None = None
    MaxSessions = 3
    Setups <- AllSetups
SPECIFICATION Spec
CHECK_DEADLOCK FALSE
INVARIANTS TxnIdsRight NoCascade AllOrNothing ReportTrue OwnIdsMapped ConnectionLimit
PROPERTIES AllFinish
