SPECIFICATION SnapshotSpec
CONSTANTS
    a = a
    b = b
    Messages = {a, b}
    Height <- MCHeight
    Words <- MCWords
    Answers <- MCAnswers
    Texts <- MCTexts
    Tasks = {t1, t2}
    MaxVersion = 2
SYMMETRY MCSymmetry
INVARIANTS
    SnapshotHolds
    RestIsKept
\* The bound on changes stops the file, and with it the tests.
CHECK_DEADLOCK FALSE
