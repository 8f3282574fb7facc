CONSTANTS
    Handles = {h1, h2}
    Blocks = {b1, b2, b3}
    NoBlock = NoBlock
    Words = {1, 5}
    MaxSize = 2
SPECIFICATION Spec
INVARIANTS NoOverrun ContentsKept
SYMMETRY Symmetry
