SPECIFICATION FairSpec
CONSTANTS
    Clients = {c1}
    Feeds = {"match"}
    WriteCap = 1
    MaxPublished = 2
    MaxRequests = 3
INVARIANTS
    NoTickerMissed
    NoGhosts
PROPERTIES
    PublishReturns
    DeadClientLeaves
CHECK_DEADLOCK FALSE
