SPECIFICATION Spec
CONSTANTS
    Clients = {1, 2, 3}
    Devices = {8}
    WellKnown = {9}
    Kinds = {"plain", "grab", "ungrab", "await", "delay", "trigger", "kill", "impervious", "pervious"}
    Roles <- SeparateRoles
INVARIANTS Listened NothingForgotten
PROPERTY GrabExclusive
