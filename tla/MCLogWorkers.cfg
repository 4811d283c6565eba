SPECIFICATION FairSpec
CONSTANTS
    Topic <- MCTopic
    Matches <- MCMatches
    Dones <- MCDones
    TickTime <- MCTickTime
    BatchMax = 3
    MaxFaults = 3
INVARIANTS
    NothingLeftOut
    CountedOnce
PROPERTIES
    EverythingStored
