SPECIFICATION Spec
CONSTANTS
    Chars <- Letters
    ArrivalNames <- Services
    PackNames <- PackList
    EnvVars <- Entries
    Fold <- Folding
    Digest <- Hash
    HashLen = 2
    NameMax = 10
    Rendered <- Refs
    Blank = ""
    None = 0
    Config <- Chart
    ArgsSet <- ServiceArgs
    Tests <- PackTests
    Repos <- Repositories
    Sizes = {1, 3}
    MaxRuns = 2
INVARIANT ResultsAreCurrent
CHECK_DEADLOCK FALSE
