------------------------------- MODULE Scanner -------------------------------
(***************************************************************************)
(* The scanner: a scan with its first phase and its end, the second phase  *)
(* with the tracks of one song, and the books of a folder.                 *)
(* They share no state here: a behaviour is one of the component that its  *)
(* initial state picks, and the others rest.                               *)
(***************************************************************************)
EXTENDS LibraryScan

CONSTANTS
    Libraries, Scanned, MaxRows, MaxTrackFaults,                           \* Tracks
    Files, MaxBooks, MaxChapters, MaxRuns, MaxChanges, MaxBookFaults       \* Books

VARIABLES
    component,
    fileLib, kind, rowAt, missing, created, stars, libraries, purging, toRead, queue, passed,
    next, used, hasMatches, cross, found, processed, trackPhase, trackFaults,
    known, before, purged, crossed, taken, moves, halved, swept,
    exists, bookFiles, books, chapters, progress, made, begun, turns, failures,
    scan, rescan, edit, purge, disturbed, deleted, strayed

Tracks == INSTANCE MissingTracks WITH
    MaxFaults <- MaxTrackFaults,
    lib <- fileLib, at <- rowAt, phase <- trackPhase, faults <- trackFaults

Books == INSTANCE Audiobooks WITH
    MaxFaults <- MaxBookFaults,
    there <- exists, files <- bookFiles, created <- made, changes <- turns, faults <- failures,
    purged <- deleted

ASSUME ScannerAssumption == ScanAssumption /\ Tracks!TracksAssumption /\ Books!AudiobooksAssumption

trackVars == <<fileLib, kind, rowAt, missing, created, stars, libraries, purging, toRead, queue,
               passed, next, used, hasMatches, cross, found, processed, trackPhase, trackFaults,
               known, before, purged, crossed, taken, moves, halved, swept>>
bookVars == <<exists, bookFiles, books, chapters, progress, made, begun, turns, failures,
              scan, rescan, edit, purge, disturbed, deleted, strayed>>

ScannerInit ==
    /\ component \in {"scan", "tracks", "books"}
    /\ Init /\ Tracks!Init /\ Books!Init

ScannerNext ==
    /\ UNCHANGED component
    /\ \/ component = "scan" /\ Next /\ UNCHANGED <<trackVars, bookVars>>
       \/ component = "tracks" /\ Tracks!Next /\ UNCHANGED <<vars, bookVars>>
       \/ component = "books" /\ Books!Next /\ UNCHANGED <<vars, trackVars>>

ScannerSpec ==
    ScannerInit /\ [][ScannerNext]_<<component, vars, trackVars, bookVars>>

-----------------------------------------------------------------------------
(* Properties *)

\* The variables of the component that runs have their types.
TypesOK ==
    /\ component = "scan" => TypeOK
    /\ component = "tracks" => Tracks!TypeOK
    /\ component = "books" => Books!TypeOK

\* MissingTracks: a file on disk has one row, but for those the second stage finds, and
\* no track stays missing while an equal one has appeared.
MovesAreRight == component = "tracks" => Tracks!OneRowPerFile /\ Tracks!MovesAreFound

\* MissingTracks: what users have attached to tracks and albums survives a move.
AnnotationsStay == component = "tracks" => Tracks!AnnotationsStay

\* Audiobooks: a listener's place stays where it was put, a book's chapters are its files, and
\* what was purged stays away.
BooksAreKept ==
    component = "books" => Books!ProgressIsKept /\ Books!BooksAreWhole /\ Books!PurgedIsGone
=============================================================================
