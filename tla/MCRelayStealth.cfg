CONSTANTS
    None = None
    Stmts <- MCStmts
    kind <- MCKind
    Names <- MCNames
    name <- MCName
    Declared <- MCDeclared
    Setups <- InsertSetup
    MaxRows = 1
SPECIFICATION Spec
CHECK_DEADLOCK FALSE
INVARIANTS StealthHolds
