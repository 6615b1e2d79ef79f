SPECIFICATION SchedFairSpec
CONSTANTS
    Clients = {1, 2, 3}
    MinPriority <- MinusOne
    MaxPriority = 1
    MaxSlice = 1
    LongTime = 0
    MaxOutside = 1
PROPERTIES RoundRobin Served
CHECK_DEADLOCK FALSE
