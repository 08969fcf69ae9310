\* A selective scan after an interrupted full one.
SPECIFICATION Spec
CONSTANTS
    f1 = f1  f2 = f2
    Folders = {f1, f2}
    Targets <- AnyFolder
    MaxEdits = 0
    MaxFaults = 1
PROPERTIES InterruptedStaysFull
CHECK_DEADLOCK FALSE
