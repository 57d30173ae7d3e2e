\* Two clients in any room, queues that do not fill, two commands.
SPECIFICATION Spec
CONSTANTS
    Clients = {c1, c2}  RoomNames = {x}
    Cap = 9  Budget = 2
INVARIANT EverybodyIsTold
