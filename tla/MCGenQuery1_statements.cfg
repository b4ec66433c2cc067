\* Two objects and the copy of total_rows() compete for two statements; any call may fail.
CONSTANTS
    Queries = {q1, q2}
    Total = 3
    MaxSqlRows = 2
    MaxStatements = 2
    Offsets = {0, 1}
    CopyOffsets = {0, 1}
    Limits = {0}
    CallsMayFail = TRUE
SPECIFICATION Spec
SYMMETRY Symmetry
INVARIANTS
    StatementsOwned
