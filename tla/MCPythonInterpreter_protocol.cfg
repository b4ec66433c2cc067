\* Three threads, rules nested up to three deep.  No symmetry: it is not sound
\* for temporal properties.
CONSTANTS
    Threads = {t1, t2, t3}
    NoThread = NoThread
    MaxDepth = 3
SPECIFICATION FairSpec
INVARIANTS
    TypeOK
    PythonNeedsLocks
    GilNeverContended
    NothingHeldWhenIdle
PROPERTIES
    OuterScopeSurvives
    Serialised
    MutexReleased
