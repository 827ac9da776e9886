SPECIFICATION FairSpec
CONSTANTS
    NumDirs = 2
    Works <- MCWorks
    NumReporters = 2
    Parallels = {0, 2}
INVARIANTS
    TypeOK
    FixturesBracketTests
    ReportTells
PROPERTIES
    PromiseKept
    Exits
\* The process exits, which Exits says; nothing happens after it.
CHECK_DEADLOCK FALSE
