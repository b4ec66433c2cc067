\* Queries: two objects compete for two handles; any call may fail.
\* Pages: seven rows; sizes below one, up to the hard limit and above it.
CONSTANTS
    Queries = {q1, q2}
    Total = 2
    Columns = 1
    Handles = {1, 2}
    Offsets = {0}
    Limits = {0,1}
    CallsMayFail = TRUE
    RowTotal = 7
    MaxSqlRows = 3
    Sizes <- MCSizes
    RowsMayFail = TRUE
SPECIFICATION EitherSpec
INVARIANTS
    TypeOK
    ResultsOwned
    PageTypeOK
    NoRowSkipped
    StopMeansAll
PROPERTIES
    Streams
    ShortPageIsLast
    NextReturns
