SPECIFICATION FairSpec
CONSTANTS
    a = a
    b = b
    c = c
    n = n
    g = g
    h = h
    Types = {a, b, n}
    Groups = {g, h}
    GroupOf <- MCGroupOf
    Namespaced = {a, b}
    Calculated = {a, b}
    Late = {b}
    Namespaces <- MCNamespaces
    Specs <- MCSpecs
    None = None
    MaxObjects = 1
    MaxChanges = 1
    MaxFailures = 1
INVARIANTS
    TypeOK
    UsedIsTotal

    
CHECK_DEADLOCK FALSE
