SPECIFICATION Spec
CONSTANTS
    p1 = p1
    p2 = p2
    mon = mon
    app = app
    Proms = {p1, p2}
    Namespaces = {mon, app}
    None = None
    Unread = Unread
    MaxCalls = 2
    MaxChanges = 2
    MaxFailures = 1
INVARIANTS
    BindingLasts
SYMMETRY Symmetry
CHECK_DEADLOCK FALSE
