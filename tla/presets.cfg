SPECIFICATION Spec
CONSTANTS
    Namespaces <- MCNamespaces
    Names <- MCNames
    Refs <- MCRefs
    Projects = {p}
    None = None
    MaxChanges = 2
INVARIANTS
    TypeOK
    Precedence
    NothingLost
CHECK_DEADLOCK FALSE
