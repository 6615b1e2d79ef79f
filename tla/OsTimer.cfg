SPECIFICATION Spec
CONSTANTS
    Timers = {t1, t2}
    Delays = {1, 2}
    W = 14
    SLACK = 1
    MaxLag = 1
    MaxCheck = 1
    MaxBack = 2
INVARIANTS ListSound SleepsNoLonger
PROPERTIES NeverEarly EachExpires
