\* Two pointers (one without core events), one keyboard; two screens, or one.
SPECIFICATION MCSpec
CONSTANTS
    QUEUE_SIZE = 5
    NEVENTS = 3
    Window = 10
    Screens = {s1, s2}
    FirstScreen = s1
    CorePointer = 1
    CoreKeyboard = 0
    Pointers = {2, 3}
    Keyboards = {4}
    CoreSending = {2, 4}
    Handled = {"KeyPress"}
    Times = {0, 1}
    MaxPosts = 3
INVARIANTS TimesOrdered ScreensInOrder
PROPERTIES InHandStable ImplementsFifo Drains
CHECK_DEADLOCK FALSE
