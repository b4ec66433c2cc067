\* One object, several pages, every relation of limit, page and offset.
CONSTANTS
    Queries = {q1}
    Total = 7
    MaxSqlRows = 3
    MaxStatements = 2
    Offsets = {0, 1, 6, 8}
    CopyOffsets = {0}
    Limits = {0, 1, 2, 4, 6, 9}
    CallsMayFail = TRUE
SPECIFICATION FairSpec
INVARIANTS
    TypeOK
    RowsInOrder
    RowsComplete
    TotalRowsExact
PROPERTIES
    Streams
    CallReturns
