SPECIFICATION Spec
CONSTANTS
    Namespaces <- MCNamespaces
    Names <- MCNames
    Refs <- MCRefs
    Projects = {p}
    None = None
    MaxChanges = 1
INVARIANT
    KnownPresetsHidden
CHECK_DEADLOCK FALSE
