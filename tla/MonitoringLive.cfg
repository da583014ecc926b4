CONSTANTS
    None = None
    h1 = h1
    url1 = url1
    url2 = url2
    docker = docker
    http = http
    w1 = w1
    w2 = w2
    e1 = e1
    e2 = e2
    Hosts = {h1}
    Urls = {url1}
    Targets = {docker, http}
    AgentTargets = {docker}
    Collectors = {w1}
    Editors = {e1, e2}
    Modules <- MCTwoModules
    Skew <- NoSkew
    up = up
    down = down
    States = {up}
    Interval = 1
    Stale = 2
    RetentionTime = 2
    MaxClock = 1
    ModuleForms <- InPlaceForms
    InitHosts <- LiveHosts
    InitModules <- DockerModules
SPECIFICATION FairSpec
CHECK_DEADLOCK FALSE
PROPERTIES
    EditsEnd
    DueIsCollected
