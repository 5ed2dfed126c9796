\* Two ports and the ceiling check, two edits, two targets that change.
CONSTANTS
    p1 = p1
    p2 = p2
    Port = {p1, p2}
    DefaultPort = p1
    NoPort = NoPort
    MaxEdits = 2
    MaxChecks = 2
    MaxChanges = 2
SPECIFICATION FairSpec
INVARIANTS
    StatusHasGround
PROPERTIES
    StatusCatchesUp
