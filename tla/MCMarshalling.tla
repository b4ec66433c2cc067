--------------------------- MODULE MCMarshalling ---------------------------
EXTENDS Marshalling

MCParamTypes == <<"KeyValPair", "INT", "FLOAT">>

Arg(k, t, v) == [kind |-> k, type |-> t, val |-> v]

CONSTANTS x, y

MCCppArgs ==
    {Arg("value", "KeyValPair", x), Arg("pointer", "string", x),
     Arg("pointer", "KeyValPair", Null), Arg("const", "KeyValPair", x),
     Arg("double", "INT", x), Arg("pointer", "FLOAT", x), Arg("const char*", "char", x),
     Arg("char*", "char", x), Arg("char*", "char", Null),
     Arg("void", "void", x), Arg("serialized", "map", x),
     Arg("unknown", "any", x)}

MCPyObjects ==
    {Object("string", x), Object("string", y), Object("KeyValPair", x),
     Object("INT", y), Object("bool", x), Object("bytes", x),
     Object("float vector", x), PyNone}

MCImplicit ==
    {[from |-> Object("bytes", x), to |-> "string", val |-> x],
     [from |-> Object("bool", x), to |-> "INT", val |-> y]}
    \cup {[from |-> o, to |-> "FLOAT", val |-> y] : o \in {Object("INT", y), Object("bool", x)}}
============================================================================
