CONSTANTS
    u1 = u1
    u2 = u2
    m1 = m1
    h1 = h1
    h2 = h2
    a1 = a1
    container = container
    unit = unit
    Calls = {c1, c2}
    RequestIds = {r1}
    Actors = {u1, u2}
    Modules = {m1}
    Hosts = {h1}
    Agents = {a1}
    Targets = {container, unit}
    Capacity = 1
    AgentOf <- MCAgentOf
    Allowlist <- MCAllowlist
    Forms <- MCOneUser
    Rows <- MCDockerRows
SPECIFICATION CalmSpec
PROPERTIES
    PendingSettles
CHECK_DEADLOCK FALSE
