CONSTANTS
    u1 = u1
    u2 = u2
    m1 = m1
    h1 = h1
    h2 = h2
    a1 = a1
    container = container
    unit = unit
    Calls = {c1, c2}
    RequestIds = {r1, r2}
    Actors = {u1, u2}
    Modules = {m1}
    Hosts = {h1, h2}
    Agents = {a1}
    Targets = {container, unit}
    Capacity = 1
    AgentOf <- MCAgentOf
    Allowlist <- MCAllowlist
    Forms <- MCTwoUsers
    Rows <- MCMovingRows
SYMMETRY Interchangeable
SPECIFICATION Spec
INVARIANTS
    TruthInv
    AtMostOnce
    SuccessIsReal
    NotDoneIsReal
    AnswersAgree
    AuditedBeforeDispatch
PROPERTIES
    OutcomesAreFinal
    LedgerSpec
CHECK_DEADLOCK FALSE
