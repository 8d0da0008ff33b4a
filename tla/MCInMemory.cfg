SPECIFICATION MapSpec
CONSTANTS
    ip = ip
    IP = IP
    user = user
    w1 = w1
    w2 = w2
    Names = {ip, IP, user}
    Fold <- MCFold
    Workers = {w1, w2}
    Values = {1}
    NoValue = NoValue
    Never = Never
    TicksPerSecond = 1
    Seconds = {0, 1}
    MaxTime = 1
SYMMETRY WorkerSymmetry
INVARIANTS
    OneElementPerKey
PROPERTIES
    ImplementsCollection
