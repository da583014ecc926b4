CONSTANTS
    m1 = m1
    container = container
    unit = unit
    other = other
    Calls = {c1, c2, c3}
    RequestIds = {r1, r2}
    Modules = {m1}
    Agents = {a1}
    Targets = {container, unit, other}
    Capacity = 1
    Allowlist <- MCAllowlist
    Bodies <- MCBodies
SYMMETRY CallSymmetry
SPECIFICATION Spec
INVARIANTS
    TypeOK
    Serialized
    AnswersAreTrue
    CachedNeverRuns
CHECK_DEADLOCK FALSE
