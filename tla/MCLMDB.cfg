SPECIFICATION LMDBFairSpec
CONSTANTS
    key = key
    w1 = w1
    w2 = w2
    Keys = {key}
    Extends <- MCExtends
    Workers = {w1, w2}
    Values = {1, 2}
    NoValue = NoValue
    Never = Never
    TicksPerSecond = 2
    Seconds = {1}
    MaxTime = 4
    MaxUnread = 1
INVARIANTS
    OneRecordPerKey
PROPERTIES
    ImplementsCollection
    WriterLeaves
