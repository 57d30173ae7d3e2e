\* Up to three letters, parameters of one word and of none or several, and a room
\* that cuts letters or parameters of long lines and one that holds everything.
SPECIFICATION Spec
CONSTANTS
    Member <- MCMember  Number <- MCNumber  Printed <- MCPrinted
    Empty <- EmptyText  Plain <- MCPlain  Size <- MCSize  Start <- MCStart  Parsed <- MCParsed
    Params <- MCParams  Rooms = {5, 12}
    MaxFlags = 3  NoKey = NoKey  NoLimit = NoLimit
INVARIANTS AnnouncementsReplay QueryReplays
