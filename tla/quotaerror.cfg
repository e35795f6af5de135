SPECIFICATION Spec
CONSTANTS
    a = a
    b = b
    c = c
    n = n
    g = g
    h = h
    Types = {a, b, c}
    Groups = {g, h}
    GroupOf <- MCGroupOf
    Namespaced = {a, b, c}
    Calculated = {a, b}
    Late = {}
    Namespaces <- MCNamespaces
    Specs <- PlainSpecs
    None = None
    MaxObjects = 1
    MaxChanges = 0
    MaxFailures = 0
INVARIANTS
    ErrorsReported
CHECK_DEADLOCK FALSE
