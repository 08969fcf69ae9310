\* What timers do, one component at a time: two folders with four changes; three requests
\* of a player, two at a time; one id scheduled three times; every delay of ten bits.
SPECIFICATION Spec
CONSTANTS
    f1 = f1  f2 = f2
    Folders = {f1, f2}  Others <- AnyFolders  Selective = TRUE  MaxChanges = 4  MaxOthers = 1  MaxFailures = 2
    Handlers = {h1, h2}  Tracks = {t1}  MaxRequests = 3
    Ids = {i1}  MaxJobs = 3
    Width = 10  MaxBackoff = 22  Default = 3  MaxAttempts = 12
INVARIANTS TypeOK TimersAreRight
PROPERTIES EventuallyScanned SessionsAreClosed EventuallyCalled
CHECK_DEADLOCK FALSE
