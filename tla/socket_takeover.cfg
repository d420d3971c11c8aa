SPECIFICATION Spec
CONSTANTS
    n1 = n1  n2 = n2
    Nodes = {n1, n2}
    Configs <- MCConfigs
    Saved <- MCSaved
    InitialPath <- StaleSocket
    force_rebind = FALSE
    Budgets <- OnlyTwo
INVARIANT NoSilentTakeover
CHECK_DEADLOCK FALSE
