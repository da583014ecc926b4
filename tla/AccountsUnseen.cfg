SPECIFICATION Spec
CONSTANTS
    u0 = u0
    u1 = u1
    u2 = u2
    u3 = u3
    ann = ann
    bob = bob
    r1 = r1
    r2 = r2
    e1 = e1
    e2 = e2
    None = None
    Resources = {"Users", "Modules", "AuditLogs"}
    ReadOnly = {"AuditLogs"}
    Operable = {"Modules"}
    Forms <- MCForms
    Users = {u1, u2}
    Legacy = {}
    Names = {ann, bob}
    Registrars = {r1}
    Editors = {e1, e2}
    Tables <- SettledTables
SYMMETRY Interchangeable
CHECK_DEADLOCK FALSE
PROPERTIES
    NoUnseenGrantsReplaced
