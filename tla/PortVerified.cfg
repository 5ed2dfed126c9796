\* One edit of the port.
CONSTANTS
    p1 = p1
    p2 = p2
    Port = {p1, p2}
    DefaultPort = p1
    NoPort = NoPort
    MaxEdits = 1
    MaxChecks = 1
    MaxChanges = 0
SPECIFICATION Spec
INVARIANTS
    RunOnlyChecked
