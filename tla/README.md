# LeChenMusic-Server: verification project

LeChenMusic-Server is a music server derived from Navidrome: it scans music
libraries, local or on cloud drives behind OpenList gateways, into an SQLite
database, serves them over the Subsonic and native APIs, pushes events to
browsers, submits plays to external services, and runs WebAssembly plugins with
host services of their own.  This directory models the parts of it that keep
state across concurrent actors, failures and restarts, checks them with TLC and
proves theorems about them with TLAPS.

    tlc -config MCTaskQueue.cfg MCTaskQueue.tla     # one run
    tlapm TaskQueueProofs.tla                       # the proofs of one module

`PROJECT.json` lists the components, the runs with their properties, for each
property a mutation of the model that breaks it, the map from definitions to
source lines, the findings, the hazards and the theorems.

## 1. Inventory

### Modelled, in full or in part

**Plugin task queue** (`plugins/host_taskqueue.go`; TaskQueue, TaskBackoff).
*State*: one SQLite table per plugin (status, attempt, next_run_at, queue), and
per load of the plugin the queues created, their worker goroutines, a wake-up
channel of capacity one each, a context and a closed flag.  *Operations*:
CreateQueue (with crash recovery), Enqueue, Get, Cancel, ClearQueue; worker:
dequeue, wait for the rate limiter, execute, complete or fail with backoff;
cleanup; Close with a timeout.  *Interactions*: workers look their plugin up
under the plugin manager's lock, which `Manager.Stop` holds while it waits for
them; the table outlives loads, and the services of two loads may have it open at
once, since `unloadPlugin` takes a plugin out of the map before it closes it and a
load does not ask for its predecessor.  *Hard*: Close gives up after 10 s and
leaves stragglers behind; a service resets rows in the hands of another's workers;
crashes leave rows running; wake-ups are coalesced; the backoff shifts a 64-bit
integer.  *Correct* when a task is executed by one live worker at a time, at least
once and at most a bounded number of times, is never stranded, and settles once.

**OpenList gateway client** (`adapters/openlist/client.go`, `breaker.go`,
`throttle.go`; OpenListClient).  *State*: the cached token, the login mutex, the
circuit breaker, the throttle.  *Operations*: a request with retries, backoff,
one replay after a 401, and a nested login that runs through the same path.
*Hard*: callers overlap at every wait; tokens expire under them; contexts are
cancelled; a login holds the mutex across retries.  *Correct* when logins are
serialised and the mutex always released, the round trips of a request are
bounded, the breaker counts what its comments say, and every request ends.

**Library scanner** (`scanner/scanner.go`, `phase_1_folders.go`,
`folder_entry.go`, `core/storage/local`, `cmd/root.go`; LibraryScan).  *State*:
per library the scan stamps, per folder a hash and a missing flag, per file its
tags, mtime and a missing flag; the property that asks for a full scan after a
migration.  *Operations*: quick, full and selective scans as a pipeline, and
resumption at start-up.  *Hard*: files change during a scan; reads and
transactions fail half-way; folders and whole libraries are skipped with a warning
in scans that end as successful; the process ends at any point, and the next scan
may be of another kind.  *Correct* when what the change detection will skip is
really imported, a completed scan leaves the folders it could open in the database
as they are on disk, and a full scan reads every file in them.

**Scan phases 2 to 5** (`scanner/phase_2_missing_tracks.go`; MissingTracks).
*State*: the rows of media_file with their missing flags and PIDs, the
annotations of albums.  *Hard*: two stages of a pipeline run side by side on the
same rows, transactions fail after others have committed, administrators delete
missing tracks meanwhile.  *Correct* when a file has one row, annotations survive
a move, and moves are found.  Phases 3 to 5 recompute derived rows.

**Audiobooks** (`scanner/audiobook_scanner.go`, `server/nativeapi/audiobook.go`,
`persistence/audiobook_repository.go`; Audiobooks).  *State*: a book, its
chapters, a listener's progress.  *Hard*: scan, rescan, edit and purge are
sequences of statements without a transaction; a progress request may name any
chapter; a scan whose lookup fails creates the book a second time.  *Correct* when
progress keeps its chapter, a file has one chapter, and a purged book stays away.

**Event broker** (`server/events/sse.go`; SseBroker).  *State*: the set of
clients with a channel each, three bounded channels into one goroutine.
*Operations*: subscribe, unsubscribe, publish, keep-alive.  *Hard*: a client that
ends may overtake its own subscription; slow clients.  *Correct* when nothing is
sent on a closed channel, events arrive in order, a slow client holds nobody up,
and clients that leave are forgotten.

**Buffered scrobblers** (`core/scrobbler/buffered_scrobbler.go`, the register of
`play_tracker.go`; BufferedScrobbler).  *State*: the scrobble_buffer table, a loop
per scrobbler with a wake-up slot and timers, the register of plugin scrobblers.
*Hard*: two loops of one service overlap when a plugin is unloaded and loaded
again; a crash between the answer and the deletion of a row.  *Correct* when no
play is dropped unanswered, plays of a user are submitted in order, duplicates
need a cause, and every play is sent in the end.

**Playlists** (`persistence/playlist_repository.go`, `playlist_track_repository.go`,
`core/playlists`; Playlists).  *State*: the tracks of a playlist and their
positions, which are unique, and the count in its row.  *Hard*: requests, the
import of its file and the collection of deleted tracks are sequences of
statements, of which only some are transactions.  *Correct* when order, positions
and count are what was asked for.

**File system watcher** (`scanner/watcher.go`, `scanner/controller.go`,
`core/library.go`; ScanWatcher, LibraryWatchers).  *State*: a debounce timer, the
targets gathered, the scan lock, the registry of watchers with their contexts.
*Hard*: the lock may be taken between the question and the request; a scan may end on
an error after its targets were forgotten; watchers are replaced while their goroutines
end.  *Correct* when no change is forgotten but those of a request that was refused or
whose scan failed, no watcher is orphaned, and what is watched is what is stored.

**Play tracker sessions** (`core/scrobbler/play_tracker.go`; PlaySessions).
*State*: a session per player with a time to live, the queue of playback reports.
*Hard*: requests of one player meet each other and the eviction.  *Correct* when
nothing is reported of a session after its end, and its end is.

**File cache** (`utils/cache`; FileCache).  *State*: an entry's stream, its file,
its completion marker.  *Hard*: readers join a stream that is written; sources
fail; markers are late or foreign; a crash leaves half a file.  *Correct* when a
marked file, and what is served with a final size, is whole.

**Transcoding and streaming** (`core/stream`, `server/throttle_backlog.go`;
TranscodeLimiter, RequestThrottle, TranscodeDecider).  *State*: slots per user and
in all, two channels of tokens, the token that carries a decision.  *Hard*: every
exit must give back what it holds; a file is replaced between decision and
stream.  *Correct* when slots and tokens are neither lost nor given twice, and
what is played is within the client's limits.

**Plugin host services** (`plugins/host_kvstore.go`, `host_scheduler.go`; KVStore,
SchedulerService).  *State*: keys with sizes and expiries under a quota; schedules,
timers and cron entries.  *Hard*: the quota is read and written in different
statements; a job that fires cleans up an entry that may be another's.  *Correct*
when the quota holds, whatever may fire can be cancelled, and every schedule is
called back.

**Plugin manager** (`plugins/manager*.go`; PluginManager).  *State*: a package in a
folder, a row, what is loaded.  *Hard*: administrators, the watcher of the folder,
Start and Stop overlap.  *Correct* when what is loaded is what the row says, and
nothing is loaded once Stop has returned.

**Cloud sources** (`core/cloudsource`; CloudLinks, RemoteFile, GatewaySwitches).
*State*: a shared cache of links that expire or die, the windows of an open file,
the flags of the gateways.  *Hard*: resolutions are coalesced, so that one may be
answered with what another has found dead; windows grow at both ends under a
budget.  *Correct* when a failed link is not served again, a read returns its
bytes, and switches are kept.

**Playback** (`core/playback`; Jukebox).  *State*: a queue, the active track, mpv
processes.  *Hard*: nothing is locked; a handler and the goroutine that follows
the ends of tracks meet in the seconds an mpv takes to start.  *Correct* when the
track that plays is the current one and nothing plays beside it.

### Not modelled

| component | why not |
|---|---|
| Plugin adapters and other host functions | stateless conversions; what a plugin's answer means to the buffer is in BufferedScrobbler |
| External scanner and status | a child process and its progress; the lock and the status of a scan are in ScanWatcher |
| Library service | validation and SQL; its order of writes and watcher calls is in LibraryWatchers |
| Artwork and cache warmer | readers of images; the warmer is a buffer of less consequence than BufferedScrobbler |
| Cron scheduler | a thin layer over a library |
| Metadata agents and external services | calls to web services; what scrobblers may answer is a choice in BufferedScrobbler |
| Matching, criteria, lyrics and playlists parsing | sequential transformations of data |
| Persistence | each statement or transaction is one step of the module that relies on it |
| Subsonic, native and public APIs | stateless handlers; those of audiobooks and playlists are in their modules |
| Authentication, users and shares | records without interleavings of interest |
| Maintenance and backup | transactions and best-effort refreshes; the deletion of missing files is in MissingTracks |
| Configuration, logging, metrics, command line | start-up and observation; the migration flag of `cmd/root.go` is in LibraryScan |
| User interface, plugin development kit | a JavaScript program; generated code |

The map covers 7 k of the 95 k lines of implementation: the tree is wide, and most
of it is SQL, conversion, parsing and handlers without state of their own.

## 2. Modules

    TaskLifecycle  <-- refines --  TaskQueue        <-- TaskQueueProofs
    OpenListClient                                  <-- OpenListClientProofs
    SseBroker                                       <-- SseBrokerProofs
    Scanner   = LibraryScan, MissingTracks, Audiobooks            <-- ScannerProofs
    Listening = BufferedScrobbler, Playlists                      <-- ListeningProofs
    Timers    = ScanWatcher, PlaySessions, SchedulerService,
                TaskBackoff                                       <-- TimersProofs
    Resources = FileCache, TranscodeLimiter, RequestThrottle,
                PluginManager                                     <-- ResourcesProofs
              | LibraryWatchers, CloudLinks, RemoteFile,
                GatewaySwitches, Jukebox                          <-- ServicesProofs
              | TranscodeDecider, KVStore     <-- ServicesProofs (types, tokens)

Each module names in its head comment the files it stands for; the comment of an
action says what a reader of the code would not find in its name.  Data are
ranks, versions or model values; every bound is a CONSTANT whose name begins with
`Max`.  Variables under "history" in a module are not in the code: they remember
what a property speaks about, and no guard reads them.  Operators named `Mut...`
are the mutations PROJECT.json refers to; nothing else uses them.

**Modules that hold several components.**  Resources, Timers, Listening and
Scanner check components that share no state.  A variable `component`, chosen
by the initial state and never changed, says which one runs; the others rest in
one initial state.  A behaviour is thus a behaviour of one component, the states
add up instead of multiplying, and a property "component = c => P" is P of that
component.  The fairness of the whole is the conjunction of the components': in a
component that rests no fair action is enabled, so it asks nothing.  The
permutations of a SYMMETRY set map every component to itself, and only runs
without liveness properties declare one.  Resources, Timers and Listening take
their constants as parameters, so what is proved of them holds for all values; the
MC modules fix them.

**TaskLifecycle / TaskQueue.**  TaskLifecycle is what the service promises of a
task: it is queued, taken, put back, settled once and forgotten.  TaskQueue is the
service: `status`, `attempt`, `due` are the columns of a row; `svc` is the phase of
each load (`live` in the manager's map; `lost` when another load has taken its place
there; `unlisted` once the manager has dropped it; `closing` inside Close; `closed`),
`mgr` where Manager.Stop is, `conc` the queues each load has created, `signal` their
wake-up channels; `pc`, `wload`, `wqueue`, `wtask`, `wattempt`, `wok` are the locals
of worker goroutines, each of one load.  Loads may overlap in any way.  A worker's
steps are split at every database call, the plugin lookup and the callback.  The
backoff is a choice of whether the row is due (its arithmetic is in TaskBackoff: a
scaled-down 64-bit shift and its clamp); the order of the dequeue and the rate
limiter's spacing are left out.

**OpenListClient.**  `epoch` is the gateway's current token generation, `token`
the cached one; `loginMu`; `gate` and `failures` are the breaker (openUntil against
the clock is `closed`, `open`, `half`); `pc`, `mode`, `reauthed`, `retries`, `sent`
and `reply` are the locals of `do`, with a mode for the nested login.  Waits
(throttle, backoff, mutex) may be cancelled; `Faults` says how the gateway may
fail.

**LibraryScan.**  One library, one audio file per folder.  A version of a file is
both its content and its mtime; a folder's hash is the pair of mtimes it is made
of: the folder's own and its file's.  `stage`, `mod`, `newTags`, `newAt` are the
folder entry in the pipeline; `full`, `targets` the scan state; `started`,
`fullSaved`, `flag` what survives a crash; `boot` the start-up sequence of
cmd/root.go.  `NewScanJob` may leave the whole library out of the scan, and `Skip` a
folder with those below it, whose last updates stay in `last` if they were not
popped, so that they are marked missing; `unread` remembers both.  Phases 2 to 5
are one step that may fail.

**MissingTracks.**  Rows of copies of one song in two libraries; `toRead`, `queue`
and `passed` are the producer and the groups before each stage; `next`, `used` and
`hasMatches` are the locals of the first, `cross` and `found` of the second; a
transaction is one step.

**Audiobooks.**  A book, its chapters by file and a listener's progress; each
operation is at a statement, and may fail or crash there.

**SseBroker.**  `publish`, `subscribing`, `unsubscribing` and `msgC` are the
channels with the capacities of `GetBroker` and `subscribe`; `clients` and `eventId`
are listen's locals; handlers and publishers are `handler` and `sending`.

**BufferedScrobbler.**  `buffer` is the table, `registered` the scrobbler in
`pluginScrobblers`, `stopped`, `wake` and `timers` its context, slot and AfterFuncs;
`pc`, `users`, `cur`, `entry`, `ok` the locals of a loop; `request` and `by` where a
submission is and which scrobbler it copied.

**Playlists.**  `id` is the position of each track; `at` and `local` are where a
request is and what it has read; what is not in a transaction is a step for each
statement.

**ScanWatcher.**  Run's `select` loop: `events`, `targets`, `timer`, `loop`; the
goroutines it launches are requests in `asked`; the scan lock of
`controller.go` is `running`, with the folders still to visit in `todo`; `own` says
whether its holder is a scan that Run launched.  A scan may pass over a folder
(PassOver) or release the lock on an error with folders to visit (EndOnError).
**LibraryWatchers.**  Watchers are numbered as they start; `libraryWatchers` is
the registry, `cancelled` and `ended` their contexts and goroutines; `path` is the
library table; `request` is where each administrator's request is between the
read of the row, its write and the call of the watcher; `run` and `listed` are Run's
start.  An update remembers the path it has read (`was`), writes the whole row (Put,
which inserts a row that has been deleted) and tells the watchers only if the two
differ; `copies` are the rows that autoDetectMediaType (`core/library.go:74`) and the
scan (`phase_1_folders.go:43`) have read and write back without telling.  Paths are
unique; the default library, which keeps its path, is left out.

**PlaySessions.**  The playMap's entry (`current`, `expired`), evictions and their
callbacks, the report queue and its worker.  **SchedulerService.**  Jobs are
numbered as they are made; `schedules` is the map, `armed` the timers and cron
entries, `stopping` those taken out of the map and not yet stopped.

**FileCache.**  A stream is one creation of the entry; `data`, `marker` and
`sentinel` are on disk, `onDisk` says whose file is at the path; `stage` and
`written` are a stream's.  **TranscodeLimiter, RequestThrottle.**  Each
acquisition and release is a step.  **TranscodeDecider.**  The file, its row and
probe, a request's decision and the token made of it.  **KVStore.**  setValue is
three statements; `met` remembers who stored in between.  **PluginManager.**  One
plugin; an operation keeps the row it read (`copy`) over its critical sections.

**CloudLinks.**  A link is its number; `link` (entry) is the cache, `flight` and
`waiting` the coalesced call, `rawURL` the handles' links.  **RemoteFile.**  A byte
is its offset, so that a window is a sequence of offsets and "the right bytes" can
be said.  **GatewaySwitches.**  One property of the database read and written
whole.  **Jukebox.**  `players` are the mpv processes; `starting` where an actor
waits in NewTrack.

## 3. Runs

States are distinct states; those of a violated property were found on the way to
its counterexample.  Each run ends within five minutes.

| run | instance | states | properties |
|---|---|---|---|
| task_queue | 1 task, 1 retry, 2 workers, 2 loads that may overlap, 1 database error | 1.61 M | TypeOK, SingleExecutor, BoundedCalls, RunningIsOwned, SettledNeverCalled, ImplementsLifecycle |
| task_queue_live | 1 task, no retry, 2 workers, 2 loads that may overlap | 121 k | EventuallySettled, CloseTerminates |
| task_queue_stop | 1 task, 1 worker, graceful stops only | 1.7 k | RetriesHonoured: **violated** |
| open_list | 2 callers, 1 retry each, threshold 2, 2 token generations | 156 k | TypeOK, OpenMeansFailures, EventuallyReturns |
| open_list_expiry | 2 callers, a gateway that never fails | 0.7 k | ExpiryIsNoFailure: **violated** |
| library_scan | LibraryScan: 2 folders, 2 edits, 1 fault, any targets; MissingTracks: 3 rows, 2 libraries; Audiobooks: 2 files, 3 operations | 3.28 M | TypesOK, UpToDateIsImported, ScansAreTrue, MovesAreRight, AnnotationsStay, BooksAreKept |
| library_scan_select | 2 folders, 1 crash | 3.7 k | InterruptedStaysFull: **violated** |
| sse_broker | 2 clients, 1 publisher, 3 events | 53 k | TypeOK, PanicsOnlyIfEarly, StartsThenInOrder, PublishersProceed, LeaversAreForgotten |
| sse_broker_early | 2 clients, 1 event | 0.2 k | NeverPanics: **violated** |
| listening | BufferedScrobbler: 2 plays, 2 loops, 1 fault, 1 retry; Playlists: 3 tracks, 2 clients, 3 requests, 1 crash | 291 k | TypesOK, AnsweredInOrder, RarelyTwice, EventuallyAnswered, PlaylistIsAsAsked |
| timers | ScanWatcher: 2 folders, 4 changes, 2 failures; PlaySessions: 3 requests, 2 at a time; SchedulerService: 3 jobs of an id; TaskBackoff: 10 bits | 159 k | TypeOK, TimersAreRight, EventuallyScanned, SessionsAreClosed, EventuallyCalled |
| resources | the eleven components of Resources (MCResources.cfg says their bounds) | 1.56 M | TypeOK, CacheIsWhole, CapacityIsHeld, LoadedAsStored, WatchedAsStored, CloudIsRight, JukeboxPlaysItsQueue, LimitsAreKept |

A property of several components is a conjunction, a conjunct for each: TimersAreRight
is EndedStaysEnded, ArmedIsRegistered and DelaysDouble, LimitsAreKept is the
decider's TokensFit, ProbesAreOfTheFile, LegacyIsCapped and ForcedIsCapped and the
store's QuotaKept, and so on; each conjunct has its own comment in its module.

Deadlock is not an error in these runs: the bounds stop the environment, and all
the programs here may come to rest; that nothing waits for ever is what the
liveness properties say.

**Why the bounds are enough.**  *Task queue*: the hazards are between a row, a
worker that holds it, and one that takes it over: two workers; two loads give every
ending followed by a recovery, and every overlap of two services; one retry
separates "retry" from "give up".  The liveness run has no retries (a task that is
tried again is pending again) and hides the counters no guard reads (`VIEW`).  *OpenList*: the races are
between two callers, one holding the mutex or an old token; a threshold of two
separates counting from opening; two token generations give a fresh token to
lose.  *Scanner*: folders only meet in the scan's stamps, so two suffice for one
that is done and one that is not; two edits give a change before and one during a
reading.  *Moves*: a row that is missing, one that has appeared and a third that
competes with either.  *Books*: a scan, a request and a purge may meet.
*Broker*: channels of capacity one and two clients fill every channel.
*Scrobbler*: order and overtaking need two plays of one user, a race of loops two
loops.  *Playlists*: two requests that meet, and three tracks so that a removal
leaves an order.  *Timers*: three requests of a player, so that two meet after a
third; three jobs of an id give a job, its replacement and a late clean-up.
*Cache*: two chunks separate begun from whole; three streams give a replacement of
a replacement, one restart a foreign marker.  *Caps*: one request more than there
is room for.  *Store, switches*: two calls that meet.  *Plugins*: three operations,
two at a time.  *Watchers*: two watchers allow a replacement, and a
late end of the one replaced; two paths a move and its reversal.
*Links*: one dead link and its successor, two handles that share a call.
*Windows*: files smaller than a window, with one, and with a gap between head and
tail.  *Jukebox*: a track, its successor and one more start.  Where a theorem of
section 4 covers a property, the bounds do not matter.

**Fairness.**  Goroutines that can go on do so (weak fairness of their steps: the
Go scheduler does not starve them), a case of a `select` that stays ready is taken
(the choice is random), and timers and tickers fire.  Nothing is assumed of the
environment (requests, edits, publishers, administrators, plugin loads, cancelled
contexts) and nothing of crashes or faults.  A plugin callback and a gateway's or
a service's answer return in the end: the HTTP clients have timeouts and contexts;
what they return is not assumed, and the number of retryable answers is bounded.
Where a wait is for a lock or a channel others also take, strong fairness is
assumed only where Go's mutex (starvation mode) and channels (queues of waiters)
give it; each module says so above its `Fairness`.

### Exceptions written into the properties

A property that holds of the code but for a known case names the case, so that
nothing else may hide behind it:

- *LibraryScan* `Misread`: a file whose reading failed, or that changed between
  the reading of its tags and the `Stat` after it (`core/storage/local/local.go:72`),
  is saved with an mtime newer than its tags; `phase_1_folders.go:287` lets the rest
  of the folder through and saves its hash.  Until the file changes again, quick
  scans skip it.
- *LibraryScan* `unread`: a folder that this scan could not stat, open or list,
  those below it, and all of them where the job of the library could not be made
  (`walk_dir_tree.go:69`, `phase_1_folders.go:68`).  Phase 1 only warns, the scan is
  recorded as successful and a full one as done, so nothing is promised of these
  folders; what is promised of the others holds whatever was skipped.
- *LibraryScan* `mixed`: a full scan that resumes an interrupted quick one keeps
  its stamp, and the rows the quick scan wrote count as read.
- *MissingTracks* `crossed`, `taken`: the second stage may find a file the first has
  in hand, and takes any younger track of another library for one that has moved.
  `halved`: a transaction fails after it has marked the album as processed.
  `Alone`: nothing is said of an album whose tracks have moved to several albums, or
  that the tracks of several have moved into: the annotations go with the first move
  that is committed, and only to an album not marked before.
- *Audiobooks* `disturbed`: operations that met, or failed half-way, the lookup of a
  scan among them (`audiobook_scanner.go:163`), which then creates a second row.
  `strayed`: books whose progress was last saved with a chapter of another book,
  which nothing checks (`audiobook.go:425`, `audiobook_repository.go:240`); their
  progress is still promised a chapter that exists, since it is what keeps the other
  book's chapters, and its row, from being deleted under it.
- *SseBroker* `early`: see the finding.
- *ScanWatcher* `refused`: a status without a scan, then a scan of another before
  the request asks for the lock: the request is refused and its targets dropped
  (`watcher.go:100`).  `missed`: a scan that Run launched returns on an error
  (`scanner.go:96`, `:160`, `:201`) or passes a folder over with a warning; the lock is
  released, the error logged (`watcher.go:110`) and the targets were cleared before
  (`:100`), so a change that no event, target or launched request still names waits for
  the next one.  What fails while somebody is still going to ask for the folder, and
  every failure of a scan of others, is not excused.  `stuck`: the `break` at `watcher.go:85` leaves the select with
  the timer spent, so the targets wait for the next change.
- *LibraryWatchers* `raced`: the path of the library was last changed while another
  request had still to call the watcher (`core/library.go:268`), or Run to go through
  its list (`watcher.go:68`); by an update that compared its path with an earlier row
  and so told nobody (`library.go:253`, `:266`); by a detector that wrote back the row
  it had read (`library.go:88`, `phase_1_folders.go:53`); or by a Put that failed after
  the write (`library_repository.go:129`).  A later change that meets nobody ends the
  exception.
- *PlaySessions* `raced`, `superseded`: two requests of a player met, or one met the
  eviction; another session took the place.
- *SchedulerService* `lost`: the clean-up of an earlier job of the same id deletes
  the entry of a later one.  `late`: a schedule made after Close.
- *BufferedScrobbler* `stray`: a row put in by a request that still held a
  replaced scrobbler wakes the loop that is stopped; the new loop finds it when
  something else wakes it.  `RarelyTwice` allows one more submission per fault
  and per scrobbler stopped.
- *Playlists* `crossed`: two operations met where one was not in a transaction: a
  collection of deleted tracks between the two statements that renumber lets the
  flip of negated positions reverse the list.  `gapped`, `miscounted`, `misled`: a
  move from or to a position that is not there, a stale maximum, a crash, a
  Subsonic index that counts only the tracks that are shown.
- *FileCache* `misplaced`, `excused`: a marker left by an earlier file, written
  late, or a migration that could not be recorded; a client that joins between the
  failure of a stream and the removal of its entry.
- *KVStore* `exceeded`: two calls that store met between the reading of the total
  and the write.
- *PluginManager* `excused`, `abandoned`: operations overlapped or a write failed;
  instances whose load failed keep their host services.
- *CloudLinks* `late`: a handle that joined a coalesced call which already had its
  answer may be given the link that has failed it.
- *GatewaySwitches* `met`, `failed`: two requests meet, or a failed read counts as
  "no flags", and the switches of others are written away.
- *Jukebox* `overlapped`, `detached`: a request met a switch of tracks; the item of
  the active track was removed, and it stays active.
- *TaskQueue* `orphan`: a row whose last write failed stays running until the next
  load (`host_taskqueue.go:449`).  `usurped`: the service of one load reset the row
  (`host_taskqueue.go:236`, `583`) in the hands of a worker of another that is still
  open: the row may be executed twice at once, be called though it was cancelled, and
  be overwritten by id when it has settled.  SingleExecutor says that this takes
  services that overlap; RunningIsOwned has no such exception, and a deleted row stays
  deleted in any case.
- *TranscodeDecider* `crossed`: a probe stored after a scan leaves the old file's
  probe on the new row (`decider.go:449`); tokens notice a new file by the second.

### Findings

1. **RetriesHonoured** (task_queue_stop): `Manager.Stop` holds the lock the workers'
   plugin lookup needs, Close times out on them and resets the row without giving
   the attempt back; a task may fail for good without its callback having failed
   `MaxRetries + 1` times, whatever the comments on shutdown say.
2. **ExpiryIsNoFailure** (open_list_expiry): `invalidateToken` does not ask whether
   the cached token is the one the 401 was about; a late 401 discards the fresh token
   of another caller, whose replay is then denied and counted by the breaker.
3. **InterruptedStaysFull** (library_scan_select): the end of a selective scan clears
   the mark of an interrupted full scan of the same library.
4. **NeverPanics** (sse_broker_early): a client's departure may be received before its
   subscription; listen then sends on a channel it has closed.

### Seen on the way

Things the models were made to allow, and that a reader of the code may want to
know: `syncPlugins` takes an unreadable package for a removed one
(`manager_sync.go:168`), and a failed load persists `enabled=false`, so that
"retried on restart" (`manager.go:145`) does not happen; the comment on a fresh
link (`media_streamer.go:449`) holds only through the shared cache;
`remotefile.go:370` says a link is never reused after a failure, which a retry that
fails does; a rescan of a book with progress is always refused by a foreign key
(`audiobook_repository.go:94`) though `audiobook.go:681` says progress survives;
`scanChapters` ignores the error of DeleteChapters (`audiobook_scanner.go:359`);
the progress of one book may hold on to a chapter of another, whose rescans it then
refuses (`audiobook.go:425`), and a failed lookup makes a second row for a folder
(`audiobook_scanner.go:163`); a renamed library may get back the path it had before
another request moved it, with the watcher on the other one (`library.go:253`), and a
whole row written back inserts a library that was deleted (`library_repository.go:109`);
a folder whose scan failed is not scanned until it changes again (`watcher.go:100`);
`NewTrack` that gives up on the socket leaves mpv running (`mpv/track.go:48`), and
the comment on Set in `device.go:91` is not what it does; a full scan clears its mark
though folders were skipped, and those below a skipped folder are missing until they
are found again (`walk_dir_tree.go:69`, `phase_1_folders.go:512`); an error of `getCounters`
ends a scan without its final event (`controller.go:218`).

## 4. Proofs

| module | theorem | property | of |
|---|---|---|---|
| TaskQueueProofs | TypeCorrect | TypeOK | any tasks, queues, workers, loads, faults |
| | Invariance | the inductive invariant | |
| | HeldIsRunningHolds | HeldIsRunning | |
| | RunningIsOwnedHolds | RunningIsOwned | |
| | SingleExecutorHolds | SingleExecutor | |
| | BoundedCallsHolds | BoundedCalls | |
| | TerminalStickyHolds | TerminalSticky (action property) | |
| | SettledNeverCalledHolds | SettledNeverCalled (action property) | |
| | Refinement | ImplementsLifecycle | |
| OpenListClientProofs | TypeCorrect | TypeOK | any callers, retries, thresholds, token generations, faults |
| | OpenMeansFailuresHolds | OpenMeansFailures | |
| | LoginLockedHolds | LoginLocked: the login lock has one holder, who is logging in, and no exit keeps it | |
| SseBrokerProofs | TypeCorrect | TypeOK | any clients, publishers, events |
| | PanicsOnlyIfEarlyHolds | PanicsOnlyIfEarly | |
| | StartsThenInOrderHolds | StartsThenInOrder | |
| ListeningProofs | TypeCorrect | TypeOK of the buffer | any users, plays, loops, retries, faults |
| | AnsweredInOrderHolds | AnsweredInOrder (action property) | |
| | RarelyTwiceHolds | RarelyTwice | |
| | ListeningTypesCorrect | TypesOK | also any clients, requests, crashes, and less than 999999 tracks |
| | PlaylistIsAlwaysAsAsked | PlaylistIsAsAsked | |
| TimersProofs | TypeCorrect | TypeOK | any folders, players' requests, tracks, jobs, attempts, delays, width of the integers |
| | TimersInvariant | the inductive invariant | |
| | TimersAreRightAlways | TimersAreRight | |
| ScannerProofs | TypeCorrect | TypeOK of the scan | any folders, targets, edits, faults |
| | UpToDateIsImportedHolds | UpToDateIsImported | |
| | ScansAreTrueHolds | ScansAreTrue (action property) | |
| | BooksAreAlwaysKept | BooksAreKept | any finite set of files; any number of books, changes, runs, faults |
| | MovesAreAlwaysRight | MovesAreRight | any rows, libraries and their order, kinds of files, faults |
| | AnnotationsAlwaysStay | AnnotationsStay | |
| | TypesAreOK | TypesOK | all of these |
| ResourcesProofs | CapacityIsHeldHolds | CapacityIsHeld | any requests, users, limits |
| | CacheIsWholeHolds | CacheIsWhole | any clients, entry size, streams, restarts, faults |
| | LoadedAsStoredHolds | LoadedAsStored | any operations, settings, packages, instances |
| ServicesProofs | TypesHold | TypeOK of all eleven components | the bounds of all of them |
| | TokensAreOfTheFileHolds | two conjuncts of LimitsAreKept | any files, times, clients, requests |
| | WatchedAsStoredHolds | WatchedAsStored | any libraries, administrators, detectors, paths, watchers |
| | CloudIsRightHolds | CloudIsRight | any handles, players, links; file sizes, window sizes, budgets; gateways, administrators, requests |
| | JukeboxPlaysItsQueueHolds | JukeboxPlaysItsQueue | any tracks, queue, players |

They rest on the named assumptions on the constants of their modules
(`...Assumption`), which TLC evaluates in the runs, and on nothing else: those say
that bounds are natural numbers, that tables given as constants have the types
they are read with, that sets which name different things are disjoint, that a
value which means "none" names nothing else, and that a set of which one element
is chosen is not empty; a scan names each of its libraries once, and the files of a
book are finite.  Sets of actors may be infinite.

None of the properties is inductive alone.  What each needs, and why:

*TaskQueue.*  HeldIsRunning needs that no second worker holds the same row, which
needs that a row is only taken when pending, that a reset of a row in somebody's
hands marks it `usurped`, and that a straggler of a closed service has lost its
database.  The invariant collects these: types; a queue is open only in an open
service, and workers are of loads that have begun; a worker that can write holds a
running row at the attempt it read, of its own queue; no two of them hold the same
row; a running row of a created queue has such a holder or is an orphan, be it
usurped or not; and what is usurped has been reset by an overlap.  One lemma per
action keeps it.  BoundedCalls needs an account (`Budget`): a pending row has cost no
more calls than its attempts, the loads cut short (`Cut`) and the database errors; a
running one has cost one more if a worker that may still record the outcome has
called, and that one is owed by its load or by an error once the worker lets go
without recording it.  The refinement maps each action to the step of TaskLifecycle
it is, or to a stutter; a write over a usurped row is its Overrule.

*OpenListClient.*  OpenMeansFailures is kept once the types bound the counter.
LoginLocked says where the holder of the mutex is and that nobody else is there;
every action that returns to the caller gives the lock back (ReturnUnlocks).

*SseBroker.*  PanicsOnlyIfEarly needs to know of every client where its
subscription and its departure are (`Attached`): in a channel, received, or not
sent yet, and that only one who left before being received is in `early`.
StartsThenInOrder speaks of what a client has read; the invariant adds what waits
in its channel, and that every id is at most the last one given: reading moves an
event over the border, sending appends a newer one.

*BufferedScrobbler.*  `OneLive`: of the loops that were not stopped only the
registered one runs.  `EntryKnown`: the row a live loop works on is still in the
table, and older rows of its user that are there came after it was read; so the
removal of a row is the answer of its own loop, and nothing is overtaken.
RarelyTwice is an account: `AnswersPaid` says that the answers of a play so far and
those yet to come (one while it is in the table, one for each stopped loop that
is sending it) are paid for by one, the faults and the stopped scrobblers.  Its
steps are lemmas about cardinalities.

*Playlists.*  The order that the requests wanted is kept as a set of pairs of
tracks, so that removal, insertion and moves are operations on relations.
`OrderKept`: as long as no two requests have crossed, either nobody is between the
two statements of renumber, and the list is that order with positive positions, or
one request is, and the list is that order backwards with negative ones.  That the
second statement turns it round again, without gaps, is RankedInTurn: a rank is the
cardinality of the tracks above, and a track above another has more of them below.
ReorderedAt computes what the five statements of a move do to one position; it
needs positions to stay below 999999, the place where a track is put aside, which is
the assumption on MaxTracks.  `Counting`: what a request has counted is so, unless
it is outdated, and the count in the row is right or somebody is about to put it
right.  IndexIsPosition: without gaps as many tracks come up to a track as its
position says, so removal by index hits the track shown.

*Timers.*  `Unraced`: of a session that no two requests have held at once, one
request at most has it in hand, nothing is reported of it after its end, and an
evicted one is in nobody's hand.  `FiredOnce`: a job whose call has begun is armed
only if it recurs, and only one that does not cleans up after itself.  The backoff is
arithmetic modulo 2^Width: the powers are a recursive function, and what is needed of them (they
double, and a product that wrapped is a multiple of the power) follows by a least
counterexample, since the library's induction takes an operator.

*LibraryScan.*  UpToDateIsImported speaks of existing folders; the invariant
(`FoldersTrue`) of all, as they may come back as they were; no version known of a
file is newer than the file (`Bounded`), and what the entry of a folder holds
between its reading and its transaction is what was read, or the reason why not
(`EntryTrue`).  ScansAreTrue is about the last step of a scan; `QuietTrue` and
`FullTrue` say of the scan under way what is already so of the folders it has done
with, `FullTrue` also across the interruption of one full scan and its resumption;
both leave out the folders in `unread`, and `Asked` says that no other is left out.

*Books.*  Two facts hold whatever happens: an id is one chapter's, and an id that a
rescan keeps belongs to its book (`IdsDiffer`, `RescanIds`); so what a rescan deletes
and writes again under its old id is the chapter a listener is at, and progress keeps
its chapter, of its book where it was saved so.  The rest holds until operations overlap or fail half-way
(`disturbed \/ Tidy`): one operation is under way, there is one book and it is that
operation's, and `AddsUp`, at each statement, says what is counted already and which
files are still to be written.  The numbers are cardinalities of sets of chapters, so
each statement that writes or deletes one needs its lemma (PutAddsUp).

*Missing tracks.*  `RowsOwn`: a row that appeared with this scan is at its own path
until a match discards it.  `GroupsApart`: such a row is in one group, whose library
is not read again, so no row is used twice.  `MatchesThere`: a row still to be matched
with is there, or the second stage has found its file.  That no move is missed
(`AreFound`) is a promise about what is left to do: a missing row and an equal new one
are in a library still to be read, or in a group where the missing one's turn has not
come; an equal row is preferred to any other match, so that its turn cannot pass
while there is an unused equal one.  `StarsKept`: an album was marked by the first move to it, or by
one that failed.  The libraries of a scan are each named once, as the rows of a table
are; MoveRowMoves and MoveAlbumMoves compute the one transaction they share.

*Resources: capacity.*  Counters are compared with cardinalities of sets of
requests.  The lemma `Counted` (one joins a finite set, leaves it or neither) is
used for each action, user by user; that the sets are finite is part of the
invariant, since the set of requests is not assumed to be.

*Resources: the cache.*  `StreamsInTurn`: streams are made one after another, and
only the newest can be of the entry.  `StreamsWhole`: the file at the path is that
of `onDisk`, with what that stream has written; a stream that has ended without a
failure has written everything.  `ClientsHold`: whom the size was told holds a
stream that has ended.  MarkedIsWhole and HitsAreWhole meet in the steps that mark,
adopt or join.

*Plugins.*  `Owned`: an open instance is the one in the map, the one an operation is
about to put there, or abandoned.  `Alone`: until two operations overlap at most
one is under way, and `Calm` says that then row and map agree when none is, and
otherwise (`Progress`) what the one has found, what it has changed and what it has
still to do; at its end that is the agreement again.  `Stopped` does not need it:
Stop waits for the loads that compile, and a load asks again whether Stop has begun
when it becomes one of those.

*Watchers.*  `Registry`: before Run there are no watchers, and the registered one
of a library is of that library.  `ToldIsStored`: what an administrator has still
to tell the watchers, and what Run has read, is what the database says unless
another change met it.  `Corrected`: a working watcher of another path than the
stored one has somebody on the way who will replace it.  A write keeps both because
whoever changes the path tells it, or is known to have raced: an update that finds the
paths alike changes nothing unless the row it read is stale.

*Links.*  `FailureIsKnown`: the link that failed a handle is among those dropped,
from the drop to the end of the read.  `AnswersAreNew`: a link just issued is
nobody's, and a coalesced call whose answer is there brings a waiting handle
another link than the one that failed it, unless it joined late; that needs that
the cache, into which the call looks again, holds no link dropped for its failure.

*Windows.*  Each window is a run of the file (`IsRun`), the tail's reaches the end,
and what has been read is a run too.  Three lemmas say that the range asked of the
drive continues the window it is for, and covers the rest of the read, for any
sizes of probes, windows and tags (HeadGrows, TailGrows, WindowMoves); three more
are about runs of bytes (BytesProperties, BytesJoin, BytesPart).  From these a
copy takes all that is left, so that no slice is out of range, no read is short,
and bytes are never of another place.

*Switches.*  Until two requests meet or a read fails, the one that is under way has
read what is stored.

*Jukebox.*  `OneSwitches`: without an overlap one actor at most is in the midst of a
switch, no track is active meanwhile, and the player it waits for is of the current
item.  `Returned`: the active track is one its NewTrack has returned, and only a
process that is gone signals.  `Quiet`: no other player than the active one plays,
and what another one signals is for nobody.  A removal and a shuffle look for the id
of the track that plays; a shuffle loses none, because an injection of a finite set
into itself is onto.

*Types of Resources.*  Most are part of the invariants above.  `BudgetKept` adds that
a handle fetches no more than its budget: a range that would exceed it is refused,
and what is added is the length of the range, a natural number.

*Tokens.*  `RowsAreOlder`: the row is no newer than the file, and what a request has
read of the row no newer than the row.  `OfTheFile`: a row with the time of the file
says what the file is, and so is its probe, unless a scan came between the probe and
its storing.  `TokenIsOfARow`: a token carries the second of the row it was decided of;
so one that is accepted is of this row or of another of the same second, which is
the exception.

*Only model-checked.*  Liveness (EventuallySettled, CloseTerminates,
EventuallyReturns, EventuallyScanned, SessionsAreClosed, EventuallyCalled,
PublishersProceed, LeaversAreForgotten, EventuallyAnswered), which needs fairness
and ENABLED.  What sums or folds over data, which is the rest of LimitsAreKept:
QuotaKept (StorageUsed is a sum over keys) and TokensFit, LegacyIsCapped and
ForcedIsCapped (the decider folds over a player's limitations): the induction theorems
that would be needed take an operator as a parameter.

## 5. Plan

1. *(done)* TaskQueue, TaskLifecycle, OpenListClient, LibraryScan, SseBroker,
   ScanWatcher, LibraryWatchers, BufferedScrobbler, with the first proofs.
2. *(done)* MissingTracks, Audiobooks, Playlists, PlaySessions, SchedulerService,
   TaskBackoff, FileCache, TranscodeLimiter, RequestThrottle, TranscodeDecider,
   KVStore, PluginManager, CloudLinks, RemoteFile, GatewaySwitches, Jukebox, and the
   modules that hold several of them.
3. *(done)* Proofs of every safety property the runs check, except the folds of
   LimitsAreKept, which are out of the prover's reach, as liveness is.
4. Models still worth writing: the composition of ScanWatcher with the selective
   scans of LibraryScan, so that a change is followed from the disk to the database;
   mtimes apart from versions in LibraryScan; the cover resolver's semaphore; the ids
   of web sockets.
