SPECIFICATION Spec
CONSTANTS
    a = a
    b = b
    c = c
    d = d
    Names = {a, b, c}
    Columns <- MCColumns
    MaxParams = 2
    Cap = 2
    IdSlot <- DefaultSlot
    ByColumn = TRUE
    None = None
INVARIANTS
    NamedColumnInjected
CHECK_DEADLOCK FALSE
