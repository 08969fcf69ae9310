------------------------------ MODULE Resources ------------------------------
(***************************************************************************)
(* The components whose books must agree with what is really held: cached  *)
(* files and their markers, transcoding slots, request tokens, a plugin's  *)
(* quota, loaded plugins, started watchers, the links, windows and         *)
(* switches of the cloud, what the jukebox plays, and what is decided      *)
(* about a file.                                                           *)
(* They share no state here: a behaviour is one of the component that its  *)
(* initial state picks, and the others rest.                               *)
(***************************************************************************)
EXTENDS Naturals

CONSTANTS
    CacheClients, EntrySize, CacheFaults, MaxStreams, MaxStarts,                \* Cache
    Transcodes, TranscodeUser, Anonymous, RemoteTranscodes, MaxConcurrent, MaxPerUser,
    ArtworkRequests, Limit, BacklogLimit,                                       \* Throttle
    Keys, StoreCalls, Prefix, ValueSizes, MaxSize,                              \* Store
    PluginOps, Settings, PluginVersions, MaxPluginRequests, MaxInstances, PluginFaults,
    Libraries, Admins, Detectors, MaxPath, MaxWatchers,                         \* Watchers
    Handles, Players, MaxLinks,                                                 \* Links
    FileSizes, HeadBytes, TailBytes, WindowBytes, ProbeBytes, HeaderBytes, FrameSlack, Budgets,
    Gateways, MaxSwitchRequests,                                                \* Switches
    QueueTracks, MaxItems, MaxPlayers,                                          \* Player
    AudioFiles, AudioClients, MaxTime, Downsampling, Defaults, LegacyFormats, LegacyBitRates

VARIABLES
    component,
    data, marker, sentinel, starts, ready, entry, last, stage, written, failed, removing, onDisk,
    client, misplaced,
    global, perUser, transcode, ffmpeg,
    tokens, backlogTokens, handling,
    size, expiry, call, key, newSize, ttl, oldSize, met, exceeded,
    file, row, loaded, with, open, stop, started, pc, kind, copy, seen, inst,
    requests, excused, abandoned,
    path, request, copies, mainCtx, run, listed, watchers, lib, dir, cancelled, ended,
    libraryWatchers, raced,
    reports, issued, near, dead, link, flight, waiting, rawURL, at, hasFailed, forgotten, late,
    fileSize, tagEnd, budget, head, tail, tailOff, mid, midOff, fetched, reading, off, want, out,
    states, switch, asked, wanted, overlaps, unread,
    items, index, active, players, starting, intent, switching, overlapped, detached,
    disk, media, ask, token, crossed

Cache == INSTANCE FileCache WITH
    Clients <- CacheClients, Size <- EntrySize, Faults <- CacheFaults

Limiter == INSTANCE TranscodeLimiter WITH
    Requests <- Transcodes, User <- TranscodeUser, Remote <- RemoteTranscodes, stage <- transcode

Throttle == INSTANCE RequestThrottle WITH
    Requests <- ArtworkRequests, stage <- handling

Store == INSTANCE KVStore WITH
    Calls <- StoreCalls, Sizes <- ValueSizes, pc <- call

Plugins == INSTANCE PluginManager WITH
    Ops <- PluginOps, Versions <- PluginVersions, MaxRequests <- MaxPluginRequests,
    Faults <- PluginFaults

Watchers == INSTANCE LibraryWatchers WITH started <- watchers

Links == INSTANCE CloudLinks WITH entry <- link, pc <- at, failed <- hasFailed

File == INSTANCE RemoteFile WITH Sizes <- FileSizes, size <- fileSize

Switches == INSTANCE GatewaySwitches WITH
    MaxRequests <- MaxSwitchRequests, request <- switch, met <- overlaps, failed <- unread

Player == INSTANCE Jukebox WITH Tracks <- QueueTracks

Decider == INSTANCE TranscodeDecider WITH
    Files <- AudioFiles, Clients <- AudioClients, row <- media

ASSUME ResourcesAssumption ==
    /\ Cache!CacheAssumption /\ Limiter!LimiterAssumption /\ Throttle!ThrottleAssumption
    /\ Store!StoreAssumption /\ Plugins!ManagerAssumption /\ Watchers!WatchersAssumption
    /\ Links!LinksAssumption /\ File!FileAssumption
    /\ Switches!SwitchesAssumption /\ Player!JukeboxAssumption /\ Decider!DeciderAssumption

cacheVars == <<data, marker, sentinel, starts, ready, entry, last, stage, written, failed,
               removing, onDisk, client, misplaced>>
limiterVars == <<global, perUser, transcode, ffmpeg>>
throttleVars == <<tokens, backlogTokens, handling>>
storeVars == <<size, expiry, call, key, newSize, ttl, oldSize, met, exceeded>>
pluginVars == <<file, row, loaded, with, open, stop, started, pc, kind, copy, seen,
                inst, requests, excused, abandoned>>
watcherVars == <<path, request, copies, mainCtx, run, listed, watchers, lib, dir, cancelled,
                 ended, libraryWatchers, raced>>
linkVars == <<reports, issued, near, dead, link, flight, waiting, rawURL, at, hasFailed,
              forgotten, late>>
fileVars == <<fileSize, tagEnd, budget, head, tail, tailOff, mid, midOff, fetched, reading,
              off, want, out>>
switchVars == <<states, switch, asked, wanted, overlaps, unread>>
playerVars == <<items, index, active, players, starting, intent, switching, overlapped, detached>>
deciderVars == <<disk, media, ask, token, crossed>>
limits == <<limiterVars, throttleVars>>
streaming == <<cacheVars, limits, deciderVars>>
plugin == <<storeVars, pluginVars>>
cloud == <<linkVars, fileVars, switchVars>>
devices == <<watcherVars, playerVars>>
vars == <<component, streaming, plugin, cloud, devices>>

Components == {"cache", "limiter", "throttle", "store", "plugins", "watchers", "links", "file",
               "switches", "player", "decider"}

\* a component that rests is in one initial state
Init ==
    /\ component \in Components
    /\ component # "cache" => data = Cache!Absent
    /\ component # "plugins" => file = 0 /\ row = Plugins!NoRow
    /\ component # "watchers" => path = [l \in Libraries |-> 0]
    /\ component # "links" => reports = TRUE
    /\ component # "file" => /\ fileSize = (CHOOSE s \in FileSizes : TRUE) /\ tagEnd = 0
                             /\ budget = (CHOOSE b \in Budgets : TRUE)
    /\ component # "decider" => disk = [file |-> CHOOSE f \in AudioFiles : TRUE, at |-> 0]
    /\ Cache!Init /\ Limiter!Init /\ Throttle!Init /\ Decider!Init
    /\ Store!Init /\ Plugins!Init /\ Watchers!Init /\ Player!Init
    /\ Links!Init /\ File!Init /\ Switches!Init

Next ==
    /\ UNCHANGED component
    /\ \/ /\ component = "cache" /\ Cache!Next
          /\ UNCHANGED <<limits, deciderVars, plugin, cloud, devices>>
       \/ /\ component = "limiter" /\ Limiter!Next
          /\ UNCHANGED <<cacheVars, throttleVars, deciderVars, plugin, cloud, devices>>
       \/ /\ component = "throttle" /\ Throttle!Next
          /\ UNCHANGED <<cacheVars, limiterVars, deciderVars, plugin, cloud, devices>>
       \/ /\ component = "decider" /\ Decider!Next
          /\ UNCHANGED <<cacheVars, limits, plugin, cloud, devices>>
       \/ /\ component = "store" /\ Store!Next
          /\ UNCHANGED <<streaming, pluginVars, cloud, devices>>
       \/ /\ component = "plugins" /\ Plugins!Next
          /\ UNCHANGED <<streaming, storeVars, cloud, devices>>
       \/ /\ component = "links" /\ Links!Next
          /\ UNCHANGED <<streaming, plugin, fileVars, switchVars, devices>>
       \/ /\ component = "file" /\ File!Next
          /\ UNCHANGED <<streaming, plugin, linkVars, switchVars, devices>>
       \/ /\ component = "switches" /\ Switches!Next
          /\ UNCHANGED <<streaming, plugin, linkVars, fileVars, devices>>
       \/ /\ component = "watchers" /\ Watchers!Next
          /\ UNCHANGED <<streaming, plugin, cloud, playerVars>>
       \/ /\ component = "player" /\ Player!Next
          /\ UNCHANGED <<streaming, plugin, cloud, watcherVars>>

Spec == Init /\ [][Next]_vars

-----------------------------------------------------------------------------
\* The variables of the component that runs have their types.
TypeOK ==
    /\ component = "cache" => Cache!TypeOK
    /\ component = "limiter" => Limiter!TypeOK
    /\ component = "throttle" => Throttle!TypeOK
    /\ component = "store" => Store!TypeOK
    /\ component = "plugins" => Plugins!TypeOK
    /\ component = "watchers" => Watchers!TypeOK
    /\ component = "links" => Links!TypeOK
    /\ component = "file" => File!TypeOK
    /\ component = "switches" => Switches!TypeOK
    /\ component = "player" => Player!TypeOK
    /\ component = "decider" => Decider!TypeOK

\* FileCache: a marked file is whole unless the marker is not its own, and so is
\* what is served with a final size.
CacheIsWhole == component = "cache" => Cache!MarkedIsWhole /\ Cache!HitsAreWhole

\* TranscodeLimiter and RequestThrottle: slots and tokens are neither lost nor given twice.
CapacityIsHeld ==
    /\ component = "limiter" => Limiter!SlotsAreHeld
    /\ component = "throttle" => Throttle!TokensAreHeld

\* PluginManager: between operations, what is loaded is what the database says,
\* and nothing is loaded, or gets loaded, once Stop has returned.
LoadedAsStored == component = "plugins" => Plugins!LoadedAsStored /\ Plugins!NoneAfterStop

\* LibraryWatchers: a working watcher is the registered one, and watches what the
\* database says between requests, unless the last change of the path raced.
WatchedAsStored ==
    component = "watchers" => Watchers!ActiveIsRegistered /\ Watchers!WatchedAsStored

\* CloudLinks, RemoteFile and GatewaySwitches: a read of a file in the cloud gives the
\* bytes it asked for, neither the cache nor a retry serves a link that has failed, and
\* the gateways' switches are as they were put.
CloudIsRight ==
    /\ component = "links" => Links!FailedIsNotServed
    /\ component = "file" => File!ReadsAreRight
    /\ component = "switches" => Switches!SwitchesAreKept

\* Jukebox: the track that plays is the current one, nothing plays beside it, and its
\* end is what moves the queue on.
JukeboxPlaysItsQueue ==
    component = "player" => Player!ActiveIsCurrent /\ Player!OnePlayer /\ Player!SignalsAreTimely

\* TranscodeDecider and KVStore: what a token or a legacy request plays is of the file as
\* it is, and within the client's limits; and the values of a plugin stay within its limit
\* unless writes meet.
LimitsAreKept ==
    /\ component = "decider" =>
        /\ Decider!TokensFit /\ Decider!ProbesAreOfTheFile
        /\ Decider!LegacyIsCapped /\ Decider!ForcedIsCapped
    /\ component = "store" => Store!QuotaKept
=============================================================================
