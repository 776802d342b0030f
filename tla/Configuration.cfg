SPECIFICATION FairSpec
CONSTANTS
    Requests = {q1, q2}
    d1 = d1
    d2 = d2
    d3 = d3
    a1 = a1
    a2 = a2
    Typed = {d1}
    Sent = {d2, d3}
    AdminOf <- Placed
    Size <- Lengths
    Files = {0, 1, 2, 3, 4}
    Consoles = {0, 1, 2, 3}
    Bad = bad
    Watcher = watcher
    Main = main
    None = None
    MaxEdits = 1
INVARIANTS
    TypeOK
    SettledInForce
    LoggedFirst
    WholeOrInWork
    OneConsole
PROPERTY
    RequestsReturn
CHECK_DEADLOCK FALSE
