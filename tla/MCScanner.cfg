\* Quick, full and selective scans of two folders with two changes and a fault; three rows of
\* a song in two libraries, with a fault or a deletion; a folder of two files for a book: two
\* rows, three operations, a change, a fault.
SPECIFICATION MCSpec
CONSTANTS
    f1 = f1  f2 = f2
    Folders = {f1, f2}
    Targets <- AnyFolders
    MaxEdits = 2
    MaxFaults = 1
    Libraries = {1, 2}
    Scanned <- InTurn
    MaxRows = 3
    MaxTrackFaults = 1
    Files = {f1, f2}
    MaxBooks = 2
    MaxChapters = 4
    MaxRuns = 3
    MaxChanges = 1
    MaxBookFaults = 1
SYMMETRY FolderSymmetry
INVARIANTS TypesOK UpToDateIsImported MovesAreRight AnnotationsStay BooksAreKept
PROPERTY ScansAreTrue
CHECK_DEADLOCK FALSE
