\* Two clients and one channel, its name in two spellings, with every mode, topic, key and limit.
SPECIFICATION Spec
CONSTANTS
    Fds = {1, 2}  Slow = {1, 2}
    a = a  A = A  b = b  d = d  x = x  X = X
    lower_a = lower_a  lower_b = lower_b  lower_d = lower_d  key_x = key_x
    Lower <- MCLower  observed = key_x  NoRoom = NoRoom
    Nicks = {a, b}  NoNick = NoNick
    Names = {x, X}  NoChannel = NoChannel
    Topics = {none, topic}  EmptyTopic = none
    Keys = {empty, secret}  EmptyKey = empty  NoKey = NoKey
    Limits = {1}  ModeFlags = {"i", "t", "k", "l", "o"}
INVARIANT TableIsSound
PROPERTIES ChannelsStartFresh ChangesComeByRight ImplementsRoom
