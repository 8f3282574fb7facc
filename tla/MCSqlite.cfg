CONSTANTS
    Stmts = {s1, s2}
    Values = {a}
    Null = Null
    ColumnFailures = FALSE
    Handles = {h1, h2}
    Addresses = {c1, c2}
    MaxRows = 2
SYMMETRY AddressSymmetry
SPECIFICATION Spec
INVARIANTS Sound TableAsTold NoHandleLost
