SPECIFICATION Spec
CONSTANTS
    a = a
    b = b
    Namespaces = {1, 2, 3, 4, 5}
    DefaultNs = 4
    SystemNs = 5
    RancherNs = 1
    Operated = {2, 3}
    HelmProject <- MCHelmProject
    Projects = {a, b}
    Names = {1}
    Proms = {1, 2}
    PromNs <- MCPromNs
    Selects <- MCSelects
    None = None
    MaxChanges = 1
    MaxFailures = 1
INVARIANTS
    TypeOK
    ProjectsRight
    PresetsRight
    MonitoringRight
    OwnMetricsOnly
PROPERTIES
    DroppedStays
    PresetNamespaceStable
CHECK_DEADLOCK FALSE
