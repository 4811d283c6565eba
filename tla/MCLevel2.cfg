SPECIFICATION FairSpec
CONSTANTS
    high = high
    low = low
    Levels = {high, low}
    Better <- MCBetter
    SnapshotLevels = 1
    SnapshotLag = 1
    BatchMax = 2
    MaxChanges = 4
    Courses <- MCCourses
    MaxRequests = 3
    MaxOthers = 1
INVARIANTS
    ViewExact
    QuietViewIsLast
PROPERTIES
    ViewMovesForward
    SubscriberGetsView
    SnapshotAskedForComes
