\* Three operations deep, three in all; two microservice error codes.
CONSTANTS
    Codes <- MCCodes
    NoRowsFound <- MCNoRowsFound
    RuleEngineError <- MCRuleEngineError
    NoPrivilege <- MCNoPrivilege
    MaxDepth = 3
    MaxHandlers = 1
    MaxOperations = 3
SPECIFICATION Spec
INVARIANTS
    TypeOK
    CodePropagates
    PepMessagesCleared
