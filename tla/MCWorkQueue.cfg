SPECIFICATION Spec
CONSTANTS
    MaxClient = 3
    MaxNodes = 6
    MaxSleeps = 2
    MaxAnswers = 2
    MaxComing = 2
INVARIANT SleepersSound
PROPERTIES ImplementsJobs Awakened
CHECK_DEADLOCK FALSE
