\* Three clients that may all overflow share one channel with +i, +l and +o and two seats.
SPECIFICATION Spec
CONSTANTS
    Fds = {1, 2, 3}  Slow = {1, 2, 3}
    a = a  A = A  b = b  d = d  x = x  X = X
    lower_a = lower_a  lower_b = lower_b  lower_d = lower_d  key_x = key_x
    Lower <- MCLower  observed = key_x  NoRoom = NoRoom
    Nicks = {a, b, d}  NoNick = NoNick
    Names = {x}  NoChannel = NoChannel
    Topics = {none}  EmptyTopic = none
    Keys = {empty}  EmptyKey = empty  NoKey = NoKey
    Limits = {2}  ModeFlags = {"i", "l", "o"}
INVARIANTS
    TypeOK NoDanglingPointers RolesAreConsistent
PROPERTIES
    MembershipEndsByRight MarkedClientsTakeNoPart DoorIsKept
