\* Every class with arrays of two elements; arguments with up to three items; all
\* arguments for the classes with up to two members; one assignment.
CONSTANTS
    ArraySize = 2
    MaxItems = 3
    Layout <- Structs
    Calls <- MCCalls
    Values <- MCValues
    Texts <- MCTexts
    New <- MCNew
    Unbacked <- MCUnbacked
    Null = Null
    Default = Default
    MaxStatements = 1
SPECIFICATION Spec
INVARIANTS
    TypeOK
    ConstructedAsGiven
    MapComplete
CHECK_DEADLOCK FALSE
