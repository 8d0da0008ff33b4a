SPECIFICATION FairSpec
CONSTANTS
    u1 = u1
    m1 = m1
    m2 = m2
    t1 = t1
    Configs <- CarelessConfigs
    Loaded <- CarelessLoaded
    Ids = {1, 2, 3}
    Tags = {t1}
    Markers = {m1, m2}
    Urls = {u1}
    StatusCodes = {401, 500}
    MaxValues = 2
    Polling = {}
    Sending = {}
    ContentTypes = {}
    ResponseTypes = {}
    ChunkSizes = {}
    MaxSent = 0
INVARIANTS
    UrlOnlyWhilePending
    InterventionHasErrorStatus
PROPERTIES
    EvaluationTerminates
