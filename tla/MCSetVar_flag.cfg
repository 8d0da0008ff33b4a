SPECIFICATION Spec
CONSTANTS
    ip = ip
    IP = IP
    user = user
    w1 = w1
    w2 = w2
    Text = Text
    Names = {ip, IP, user}
    Fold <- MCFold
    Workers = {w1, w2}
    Values = {0, 1, 2, 3, 4}
    NoValue = NoValue
    Never = Never
    TicksPerSecond = 1
    Seconds = {0, 1, 2}
    MaxTime = 3
    Rules <- FlagRules
    MaxRules = 4
PROPERTIES
    FlagIsRaised
CHECK_DEADLOCK FALSE
