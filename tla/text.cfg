\* Lines, numbers, names and lists of members, and every byte.
SPECIFICATION Spec
CONSTANTS
    Inputs <- MCInputs
    INT_MAX = 127  MAX_NICKNAME_LEN = 4  MAX_CHANNEL_LEN = 4
    MAX_PAYLOAD_LEN = 9  HeadLen = 2
INVARIANTS
    ParsesByGrammar RelayedAsSaid NumbersAreExact SplitInverts
    NamesSurviveTheWire FoldsByRfc NamesReplyIsWhole
