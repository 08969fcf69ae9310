------------------------------ MODULE FileCache ------------------------------
(***************************************************************************)
(* One entry of a disk cache (utils/cache): Get and the goroutine that     *)
(* stores what the source yields (file_caches.go), the file and its        *)
(* completion marker (spread_fs.go), the clean-up (file_haunter.go), and   *)
(* the start after a crash that adopts what is on disk.                    *)
(*                                                                         *)
(* Entries share nothing but the limits of the clean-up, which may pick    *)
(* any of them.  A stream is one creation of the entry: its file grows     *)
(* until its writer is closed, and readers that join it hold it in use.    *)
(* The library underneath hands out one stream at a time for a key, and    *)
(* deletes the file of a removed stream when nobody uses it any more.      *)
(***************************************************************************)
EXTENDS Naturals, FiniteSets

CONSTANTS
    Clients,
    Size,           \* chunks the source yields
    Faults,         \* whether markers and the sentinel may fail to be read, written, removed
    MaxStreams,     \* bound: streams of one run of the server
    MaxStarts       \* bound: starts of the server

\* what the constants satisfy
CacheAssumption ==
    /\ Size \in Nat \ {0} /\ Faults \in BOOLEAN
    /\ MaxStreams \in Nat \ {0} /\ MaxStarts \in Nat

VARIABLES
    data, marker, sentinel,    \* on disk: the file's chunks (Absent: no file), its
                               \* completion marker, the sentinel of the migration
    starts, ready,
    entry, last,     \* the entry's stream (None: no entry), the newest stream
    stage, written,  \* of a stream
    failed,          \* streams whose source, or its opening, failed
    removing,        \* streams removed while in use
    onDisk,          \* the stream whose file is at the path
    client,          \* what a client holds
    misplaced        \* history: the marker was not written for the file that has it, or
                     \* the file was adopted without one and is not whole

disk    == <<data, marker, sentinel, misplaced>>
server  == <<starts, ready>>
streams == <<entry, last, stage, written, failed, removing, onDisk>>
vars    == <<disk, server, streams, client>>

Absent  == Size + 1
None    == 0
Streams == 1 .. MaxStreams
Nothing == [stream |-> None, leads |-> FALSE, final |-> FALSE, excused |-> FALSE]
Sizes   == 0 .. Size

\* whether an operation on a small file succeeds
Outcomes == IF Faults THEN BOOLEAN ELSE {TRUE}

\* a stream that has been used up by nobody is "unused"; the source of an
\* adopted one is long gone
Stages == {"unused", "opening", "copying", "closed", "settled"}

NoStreams ==
    /\ entry' = None /\ last' = 0
    /\ stage' = [s \in Streams |-> "unused"] /\ written' = [s \in Streams |-> 0]
    /\ failed' = {} /\ removing' = {} /\ onDisk' = None
    /\ client' = [c \in Clients |-> Nothing]

\* an older version of the server leaves files without markers
Init ==
    /\ data \in {Absent, Size} /\ marker = FALSE /\ sentinel = (data = Absent)
    /\ starts = 0 /\ ready = FALSE
    /\ entry = None /\ last = 0
    /\ stage = [s \in Streams |-> "unused"] /\ written = [s \in Streams |-> 0]
    /\ failed = {} /\ removing = {} /\ onDisk = None
    /\ client = [c \in Clients |-> Nothing]
    /\ misplaced = FALSE

InUse(s) == stage[s] \in {"opening", "copying"} \/ \E c \in Clients : client[c].stream = s

-----------------------------------------------------------------------------
(* The start, and the crash before it *)

Crash ==
    /\ ready
    /\ ready' = FALSE
    /\ NoStreams
    /\ UNCHANGED <<disk, starts>>

\* Reload; the marker may be unreadable, and small files may fail to be written
Adopt(marked) ==
    /\ marker' = marked
    /\ misplaced' = IF marker THEN misplaced ELSE data < Size
    /\ entry' = 1 /\ last' = 1 /\ onDisk' = 1
    /\ stage' = [stage EXCEPT ![1] = "settled"]
    /\ written' = [written EXCEPT ![1] = data]
    /\ UNCHANGED <<data, failed, removing>>

Discard ==
    /\ data' = Absent /\ marker' = FALSE /\ misplaced' = FALSE
    /\ UNCHANGED streams

Skip == UNCHANGED <<data, marker, misplaced, streams>>

Reload ==
    IF data = Absent THEN Discard        \* cleans an orphaned marker, if there is one
    ELSE \/ marker /\ Adopt(TRUE)
         \/ ~marker /\ ~sentinel /\ \E marked \in Outcomes : Adopt(marked)
         \/ ~marker /\ sentinel /\ Discard
         \/ marker /\ sentinel /\ FALSE \in Outcomes /\ Skip    \* unreadable

Start ==
    /\ ~ready /\ starts < MaxStarts
    /\ starts' = starts + 1 /\ ready' = TRUE
    /\ Reload
    /\ \E recorded \in Outcomes : sentinel' = (sentinel \/ recorded)
    /\ UNCHANGED client

-----------------------------------------------------------------------------
(* Get *)

Join(c) ==
    /\ ready /\ client[c] = Nothing
    /\ entry # None /\ data # Absent      \* a missing file is an error
    /\ client' = [client EXCEPT ![c] =
           [stream  |-> entry,
            leads   |-> FALSE,
            final   |-> stage[entry] \in {"closed", "settled"},
            excused |-> stage[entry] = "closed" \/ misplaced]]
    /\ UNCHANGED <<disk, server, streams>>

\* the file is created or truncated, and a marker left at its path stays
Miss(c) ==
    /\ ready /\ client[c] = Nothing
    /\ entry = None /\ last < MaxStreams
    /\ last' = last + 1
    /\ entry' = last' /\ onDisk' = last'
    /\ data' = 0
    /\ misplaced' = marker
    /\ stage' = [stage EXCEPT ![last'] = "opening"]
    /\ client' = [client EXCEPT ![c] =
           [stream |-> last', leads |-> TRUE, final |-> FALSE, excused |-> FALSE]]
    /\ UNCHANGED <<marker, sentinel, server, written, failed, removing>>

\* the client that missed opens the source before it answers
Opening(c) == client[c].leads /\ stage[client[c].stream] = "opening"

Opened(c) ==
    /\ Opening(c)
    /\ stage' = [stage EXCEPT ![client[c].stream] = "copying"]
    /\ UNCHANGED <<disk, server, entry, last, written, failed, removing, onDisk, client>>

OpenFails(c) ==
    /\ Opening(c)
    /\ stage' = [stage EXCEPT ![client[c].stream] = "closed"]
    /\ failed' = failed \cup {client[c].stream}
    /\ client' = [client EXCEPT ![c] = Nothing]
    /\ UNCHANGED <<disk, server, entry, last, written, removing, onDisk>>

Close(c) ==
    /\ client[c] # Nothing /\ ~Opening(c)
    /\ client' = [client EXCEPT ![c] = Nothing]
    /\ UNCHANGED <<disk, server, streams>>

-----------------------------------------------------------------------------
(* The goroutine that stores what the source yields *)

AtPath(s, chunks) == data' = IF onDisk = s THEN chunks ELSE data

Write(s) ==
    /\ stage[s] = "copying" /\ written[s] < Size
    /\ written' = [written EXCEPT ![s] = @ + 1]
    /\ AtPath(s, written'[s])
    /\ UNCHANGED <<marker, sentinel, misplaced, server, entry, last, stage, failed, removing,
                   onDisk, client>>

\* the source ends, or fails: ffmpeg is killed when its client leaves
CloseWriter(s) ==
    /\ stage[s] = "copying"
    /\ stage' = [stage EXCEPT ![s] = "closed"]
    /\ \/ written[s] = Size /\ UNCHANGED failed
       \/ failed' = failed \cup {s}
    /\ UNCHANGED <<disk, server, entry, last, written, removing, onDisk, client>>

MutComplete(s) == TRUE    \* mutant: the error of the copy is not looked at
Complete(s) == s \notin failed

Gone ==    \* spreadFS.Remove
    /\ data' = Absent
    /\ \E removed \in Outcomes :
           /\ marker' = (marker /\ ~removed)
           /\ misplaced' = (marker /\ ~removed)
    /\ onDisk' = None

MarkComplete(s) ==
    /\ \E created \in Outcomes :
           /\ marker' = (marker \/ created)
           /\ misplaced' = IF created /\ ~marker THEN onDisk # s ELSE misplaced
    /\ UNCHANGED <<data, entry, removing, onDisk>>

\* whatever stream the key has by now
MutInvalidate == UNCHANGED <<data, marker, misplaced, entry, removing, onDisk>>    \* mutant
Invalidate ==
    IF entry = None THEN UNCHANGED <<data, marker, misplaced, entry, removing, onDisk>>
    ELSE /\ entry' = None
         /\ IF InUse(entry)
            THEN removing' = removing \cup {entry} /\ UNCHANGED <<data, marker, misplaced, onDisk>>
            ELSE Gone /\ UNCHANGED removing

Settle(s) ==
    /\ stage[s] = "closed"
    /\ stage' = [stage EXCEPT ![s] = "settled"]
    /\ IF Complete(s) THEN MarkComplete(s) ELSE Invalidate
    /\ UNCHANGED <<sentinel, server, last, written, failed, client>>

Unlink(s) ==
    /\ s \in removing /\ ~InUse(s)
    /\ removing' = removing \ {s}
    /\ Gone
    /\ UNCHANGED <<sentinel, server, entry, last, stage, written, failed, client>>

-----------------------------------------------------------------------------
(* The clean-up *)

\* over the limits, or an empty file
Scrub ==
    /\ entry # None /\ ~InUse(entry) /\ data # Absent
    /\ entry' = None
    /\ Gone
    /\ UNCHANGED <<sentinel, server, last, stage, written, failed, removing, client>>

-----------------------------------------------------------------------------
Next ==
    \/ Crash \/ Start \/ Scrub
    \/ \E c \in Clients : Join(c) \/ Miss(c) \/ Opened(c) \/ OpenFails(c) \/ Close(c)
    \/ \E s \in Streams : Write(s) \/ CloseWriter(s) \/ Settle(s) \/ Unlink(s)

Spec == Init /\ [][Next]_vars

-----------------------------------------------------------------------------
(* Properties *)

\* The variables have their types, and the entry's file is its own.
TypeOK ==
    /\ data \in Sizes \cup {Absent} /\ marker \in BOOLEAN /\ sentinel \in BOOLEAN
    /\ starts \in 0 .. MaxStarts /\ ready \in BOOLEAN
    /\ entry \in Streams \cup {None} /\ last \in 0 .. MaxStreams
    /\ stage \in [Streams -> Stages] /\ written \in [Streams -> Sizes]
    /\ failed \subseteq 1 .. last /\ removing \subseteq 1 .. last
    /\ onDisk \in {None} \cup 1 .. last
    /\ client \in [Clients -> [stream : 0 .. last, leads : BOOLEAN, final : BOOLEAN,
                              excused : BOOLEAN]]
    /\ misplaced \in BOOLEAN

\* A marked file is whole, so that what a crash leaves is told apart at the
\* next start, unless the marker is not the file's own: left by an earlier
\* file that could not be adopted or removed with it, written late, or by a
\* migration that could not be recorded.
MarkedIsWhole == marker /\ data # Absent => data = Size \/ misplaced

\* A client that is told the final size gets the whole output, unless it came
\* between the failure of the stream and the removal of the entry, or the file
\* was adopted with a marker that was not its own.
HitsAreWhole ==
    \A c \in Clients : client[c].final =>
        written[client[c].stream] = Size \/ client[c].excused
=============================================================================
