CONSTANTS
    t1 = t1
    t2 = t2
    Tiles = {t1, t2}
    MaxOpenings = 2
    MaxPosts = 2
    m1 = m1
    m2 = m2
    m3 = m3
    Cards = {m1, m2}
    Newcomers = {m3}
    MaxObservations = 2
    MaxFailedCalls = 1
    ModuleCount = 3
    Stores <- MCStores
    MaxForeign = 1
    NoText = NoText
    Nonsense = Nonsense
    Blank = Blank
    h1 = h1
    h2 = h2
    c1 = c1
    c2 = c2
    s1 = s1
    i1 = i1
    i2 = i2
    HostOptions <- MCHostOptions
    Unavailable = {h2}
    Found <- MCFound
    IdOf <- MCIdOf
    SavedModules <- MCSavedModules
    RowCount = 3
    Workers = 2
    Length = 2
    Slice = 1
    Stale = 1
    MaxTime = 6
    MaxFailures = 0
    MaxGestures = 2
    Scripts = {"history"}
SPECIFICATION Spec
CHECK_DEADLOCK FALSE
INVARIANTS
    RefreshReachesTheEnd
