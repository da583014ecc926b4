CONSTANTS
    None = None
    h1 = h1
    url1 = url1
    url2 = url2
    docker = docker
    http = http
    w1 = w1
    w2 = w2
    e1 = e1
    e2 = e2
    Hosts = {h1}
    Urls = {url1, url2}
    Targets = {docker, http}
    AgentTargets = {docker}
    Collectors = {w1, w2}
    Editors = {e1, e2}
    Modules <- MCOneModule
    Skew <- OneAhead
    up = up
    down = down
    States = {up, down}
    Interval = 1
    Stale = 2
    RetentionTime = 1
    MaxClock = 2
    ModuleForms <- InPlaceForms
    InitHosts <- LiveHosts
    InitModules <- DockerModules
SPECIFICATION Spec
CHECK_DEADLOCK FALSE
INVARIANTS
    ResultsAreSpaced
    LatestIsCurrent
