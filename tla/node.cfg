SPECIFICATION Spec
CONSTANTS
    n1 = n1  n2 = n2
    Nodes = {n1, n2}
    Configs <- MCConfigs
    Saved <- MCSaved
    InitialPath <- StaleSocket
    force_rebind = FALSE
    Budgets <- OneOrTwo
INVARIANTS
    ExitHonest
    OnlyApiTimesOut
    TokensCurrent
PROPERTY Stops
CHECK_DEADLOCK FALSE
