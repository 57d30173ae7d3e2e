\* As many descriptors as peers, two packets each.
SPECIFICATION FairSpec
CONSTANTS  Fds = {1, 2}  MaxPeers = 2  MaxIn = 2
INVARIANTS PollSetIsCurrent HalfClosedIsReadToTheEnd
PROPERTIES ComesToRest NobodyStarves SignalIsNoticed
