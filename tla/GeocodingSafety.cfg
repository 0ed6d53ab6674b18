SPECIFICATION Spec
CONSTANTS
    Char <- MCChar
    Plain <- MCPlain
    Lower <- MCLower
    Blank = "_"
    Unit = 60
    Words <- MCWords
    Queries <- MCQueries
    Labels <- MCLabels
    MinimumScore = 30
    MinimumDifference = 15
    MaxResults = 3
INVARIANTS TypeOK ScanSound FoundIsClear NormalIsCanonical DistanceIsCheapest
CHECK_DEADLOCK FALSE
