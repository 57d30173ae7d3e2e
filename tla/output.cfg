\* Four lines through a queue that holds less than two full ones.
SPECIFICATION FairSpec
CONSTANTS
    MaxPayload = 2  MaxQueue = 7  ErrorSize = 1  Kernel = 3
    Sizes <- MCSizes  Budget = 4
INVARIANTS NothingLost WholeLines QueueIsHonest
PROPERTIES AllGetsOut ClosesAnyway
CHECK_DEADLOCK FALSE
