\* A rule text calls another one.
CONSTANTS
    Codes <- MCCodes
    NoRowsFound <- MCNoRowsFound
    RuleEngineError <- MCRuleEngineError
    NoPrivilege <- MCNoPrivilege
    MaxDepth = 2
    MaxHandlers = 1
    MaxOperations = 2
SPECIFICATION Spec
INVARIANTS
    VarsAreOwn
