SPECIFICATION SandboxSpec
CONSTANTS
    f = f
    g = g
    shape = shape
    lib = lib
    NoFile = NoFile
    Names <- MCNames
    Sources <- MCSources
    Specs <- MCSpecs
    Drafts <- MCDrafts
    Edits <- MCEdits
    Suites <- MCSuites
    MaxEdits = 3
    MaxSlow = 1
    MaxUntold = 1
INVARIANTS
    RowsTellBranch
    FailuresAreUndone
    EditsAreLocal
CHECK_DEADLOCK FALSE
