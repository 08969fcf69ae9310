\* What is held and what is written down, one component at a time.
SPECIFICATION Spec
CONSTANTS
    x1 = x1  x2 = x2  r1 = r1  r2 = r2  r3 = r3  r4 = r4
    alice = alice  bob = bob  anonymous = anonymous
\* two clients of an entry of two chunks, three streams, a restart
    CacheClients = {x1, x2}  EntrySize = 2  CacheFaults = TRUE  MaxStreams = 3  MaxStarts = 2
\* two slots, one for a user
    Transcodes = {r1, r2, r3, r4}  TranscodeUser <- UserOf  Anonymous = anonymous
    RemoteTranscodes = {r1, r3}  MaxConcurrent = 2  MaxPerUser = 1
\* one request handled, one waiting, and one too many
    ArtworkRequests = {r1, r2, r3}  Limit = 1  BacklogLimit = 1
\* two keys set by two calls; three of four units fit
    Keys = {k1, k2}  StoreCalls = {x1, x2}  Prefix = {k1}  ValueSizes = {1, 2}  MaxSize = 3
\* two operations at a time on one plugin, three in all
    PluginOps = {x1, x2}  Settings = {1, 2}  PluginVersions = {1, 2}
    MaxPluginRequests = 3  MaxInstances = 3  PluginFaults = TRUE
\* two administrators, a library, a detector, two paths, two watchers
    Libraries = {l1}  Admins = {x1, x2}  Detectors = {d1}  MaxPath = 2  MaxWatchers = 2
\* two open files and a player, two links
    Handles = {x1, x2}  Players = {p1}  MaxLinks = 2
\* files smaller than a window, with one, and with a gap between head and tail
    FileSizes = {2, 5, 8}  HeadBytes = 3  TailBytes = 3  WindowBytes = 2  ProbeBytes = 2
    HeaderBytes = 1  FrameSlack = 1  Budgets = {0, 5}
\* two gateways, three requests of the two administrators
    Gateways = {x1, x2}  MaxSwitchRequests = 3
\* two tracks, a queue of two, three starts of mpv
    QueueTracks = {x1, x2}  MaxItems = 2  MaxPlayers = 3
\* files that are replaced within a second, or after it
    AudioFiles <- Recordings  AudioClients <- Apps  MaxTime = 2  Downsampling = "opus"
    Defaults <- BitRates  LegacyFormats = {"mp3", "opus", "flac", "ogg"}
    LegacyBitRates = {0, 96, 192, 320, 1000}
SYMMETRY Alike
INVARIANTS TypeOK CacheIsWhole CapacityIsHeld LoadedAsStored WatchedAsStored CloudIsRight
           JukeboxPlaysItsQueue LimitsAreKept
CHECK_DEADLOCK FALSE
