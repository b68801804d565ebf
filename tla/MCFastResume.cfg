\* Two pieces of two one-byte pages.
CONSTANTS
    NumPieces = 2
    Off <- Off02
    Size <- Size22
    PageSize = 1
    Seed = FALSE
    Faults = {"kill", "power"}
    NoFile = NoFile
    Truncated = Truncated
SPECIFICATION Spec
INVARIANTS
    ResumeSound
    CleanStop
