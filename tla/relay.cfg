\* Three clients in any two rooms, queues of one line and an ERROR, two commands.
SPECIFICATION FairSpec
CONSTANTS
    Clients = {c1, c2, c3}  RoomNames = {x, y}
    Cap = 3  Budget = 2
INVARIANTS UnwindsOnce OneReason QuitHeardOnce MatchesOverflows
PROPERTY SendsReturn
