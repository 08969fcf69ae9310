\* Two plays of a user, a plugin unloaded and loaded again, two scrobblers, one
\* database error or crash, one retry; or the requests on one playlist: three tracks at first and
\* two more, three requests, two at a time.
SPECIFICATION ListeningSpec
CONSTANTS
    ann = ann
    Plays = {1, 2}
    Users = {ann}
    UserOf <- OneUser
    MaxChanges = 2
    MaxLoops = 2
    MaxFaults = 1
    MaxRetries = 1
    Clients = {c1, c2}
    MaxTracks = 5
    MaxRequests = 3
    MaxCrashes = 1
INVARIANTS TypesOK RarelyTwice PlaylistIsAsAsked
PROPERTIES AnsweredInOrder EventuallyAnswered
CHECK_DEADLOCK FALSE
