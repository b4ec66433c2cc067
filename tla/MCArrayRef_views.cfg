\* Two array_ref objects on an array of three.
CONSTANTS
    Size = 3
    Values = {a, b}
    Views = {v, w}
    Indices <- MCIndices
    None = None
SPECIFICATION Spec
INVARIANTS
    TypeOK
    SlicesAsPython
    ItemsAgreeWithSlices
    AssignmentExact
PROPERTIES
    OnlyVisibleCells
