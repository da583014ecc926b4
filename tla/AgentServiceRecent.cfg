CONSTANTS
    m1 = m1
    container = container
    unit = unit
    other = other
    Calls = {c1, c2, c3, c4}
    RequestIds = {r1, r2, r3, r4}
    Modules = {m1}
    Agents = {a1}
    Targets = {container, unit, other}
    Capacity = 2
    Allowlist <- MCAllowlist
    Bodies <- MCOneBody
SYMMETRY CallSymmetry
SPECIFICATION Spec
INVARIANTS
    RecentAreCached
CHECK_DEADLOCK FALSE
