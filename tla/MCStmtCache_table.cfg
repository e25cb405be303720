SPECIFICATION Spec
CONSTANTS
    a = a
    b = b
    c = c
    d = d
    Names = {a, b, c, d}
    Columns <- MCColumns
    MaxParams = 1
    Cap = 3
    IdSlot <- DefaultSlot
    ByColumn = TRUE
    None = None
INVARIANTS
    TypeOK
    EveryEntryFound
SYMMETRY NameSymmetry
PROPERTIES
    ImplementsMap
CHECK_DEADLOCK FALSE
