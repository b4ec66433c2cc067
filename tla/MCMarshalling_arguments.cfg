\* Calls with up to two arguments; every form of C++ argument, conversions; a microservice
\* or a rule answers.
CONSTANTS
    x = x
    y = y
    Contents = {x, y}
    Null = Null
    ParamTypes <- MCParamTypes
    Implicit <- MCImplicit
    CppArgs <- MCCppArgs
    PyObjects <- MCPyObjects
    MaxArgs = 2
SPECIFICATION Spec
INVARIANTS
    TypeOK
    WrittenAsFar
    ResultsInOrder
    CallerSeesCallee
CHECK_DEADLOCK FALSE
