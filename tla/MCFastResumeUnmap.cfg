\* The second piece starts in the middle of a page.
CONSTANTS
    NumPieces = 2
    Off <- Off01
    Size <- Size12
    PageSize = 2
    Seed = FALSE
    Faults = {"power"}
    NoFile = NoFile
    Truncated = Truncated
SPECIFICATION Spec
INVARIANT UnmapFlushes
