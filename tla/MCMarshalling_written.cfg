\* A rule that leaves something else than a string for a string.
CONSTANTS
    x = x
    y = y
    Contents = {x, y}
    Null = Null
    ParamTypes <- MCParamTypes
    Implicit <- MCImplicit
    CppArgs <- MCCppArgs
    PyObjects <- MCPyObjects
    MaxArgs = 1
SPECIFICATION Spec
INVARIANT
    WrittenValuesReturn
CHECK_DEADLOCK FALSE
