CONSTANTS
    Texts <- MCTexts
    IdMaps <- MCIdMaps
    Statements <- MCStatements
    PkMap <- MCPk
SPECIFICATION TextSpec
INVARIANT SpliceAtEnd
CHECK_DEADLOCK FALSE
