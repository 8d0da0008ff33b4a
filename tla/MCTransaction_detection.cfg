SPECIFICATION Spec
CONSTANTS
    u1 = u1
    m1 = m1
    m2 = m2
    t1 = t1
    Configs <- PollingConfigs
    Loaded <- PollingLoaded
    Ids = {1, 2, 3}
    Tags = {t1}
    Markers = {m1, m2}
    Urls = {u1}
    StatusCodes = {401, 500}
    MaxValues = 2
    Polling <- PollingConfigs
    Sending <- PollingSending
    ContentTypes = {}
    ResponseTypes = {}
    ChunkSizes = {1, 2}
    MaxSent = 4
INVARIANTS
    DetectionOnlyProcessesPartially
