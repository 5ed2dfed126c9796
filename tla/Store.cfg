\* Two requests for a row of two columns, two processes, pools of every size.
CONSTANTS
    q1 = q1
    q2 = q2
    c1 = c1
    c2 = c2
    p1 = p1
    p2 = p2
    Request = {q1, q2}
    Column = {c1, c2}
    Unborn = Unborn
    Gone = Gone
    Process = {p1, p2}
    Single = p1
    Budgets = {1, 2, 3}
    MaxDeaths = 1
SPECIFICATION FairSpec
CHECK_DEADLOCK FALSE
INVARIANTS
    StoreTypeOK
    OnlyRacesShow
PROPERTIES
    ImplementsStore
    RequestsAreAnswered
