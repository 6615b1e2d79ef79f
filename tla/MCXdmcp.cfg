SPECIFICATION XdmcpSpec
CONSTANTS
    Managers = {m1}
    Queried = {m1}
    XDM_RTX_LIMIT = 2
    XDM_KA_RTX_LIMIT = 2
    MaxSessions = 5
    MaxNet = 2
    MaxOpen = 2
    Options <- MCOptions
    MaxFaults = 1
INVARIANT SessionOpen
PROPERTIES Established Noticed
CHECK_DEADLOCK FALSE
