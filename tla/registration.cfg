\* Three clients compete for two nicknames, one of them in two spellings, and overflow.
SPECIFICATION FairSpec
CONSTANTS
    Fds = {1, 2, 3}  Slow = {1, 2, 3}
    a = a  A = A  b = b  d = d  x = x  X = X
    lower_a = lower_a  lower_b = lower_b  lower_d = lower_d  key_x = key_x
    Lower <- MCLower  observed = key_x  NoRoom = NoRoom
    Nicks = {a, A, b}  NoNick = NoNick
    Names = {x}  NoChannel = NoChannel
    Topics = {none}  EmptyTopic = none
    Keys = {empty}  EmptyKey = empty  NoKey = NoKey
    Limits = {}  ModeFlags = {}
INVARIANT RegistryIsSound
PROPERTIES MarkedClientsAreReaped ImplementsNickRegistry
