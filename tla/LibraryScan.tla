----------------------------- MODULE LibraryScan -----------------------------
(***************************************************************************)
(* A library scan (scanner/scanner.go, phase_1_folders.go, folder_entry.go)*)
(* and the resumption of interrupted ones (cmd/root.go).                   *)
(*                                                                         *)
(* One library; every folder holds one audio file.  The version of a file  *)
(* stands for its content and its mtime, and the hash of a folder for what *)
(* the hash is made of: the mtime found when the folder was loaded and the *)
(* mtime of its file when the hash is computed.  The updated_at of a row   *)
(* is only compared with last_scan_started_at: fresh holds the rows        *)
(* written since.  The scan lock (phase # "idle") and its refusals are     *)
(* those of scanner/controller.go.  A folder is listed whole or not at all.*)
(* Phases 2 to 5 and the final steps are one step that may fail, until     *)
(* ScanEnd.                                                                *)
(***************************************************************************)
EXTENDS Naturals, FiniteSets

CONSTANTS
    Folders,
    Targets,          \* the sets of folders a scan may be asked for
    MaxEdits,         \* bound: changes of the file system
    MaxFaults         \* bound: crashes, failed reads, writes and phases

\* what the constants satisfy
ScanAssumption ==
    /\ Targets \subseteq SUBSET Folders
    /\ MaxEdits \in Nat /\ MaxFaults \in Nat

VARIABLES
    there, mtime, edits,     \* the file system, and the changes so far
    hash, gone,              \* folder rows: hash (NoHash: no row), missing ones
    tags, at, lost,          \* media files: version read (0: none), mtime, missing ones
    fresh, started, fullSaved, flag,    \* library row; property FullScanAfterMigration
    boot, phase, full, targets,         \* runInitialScan; scanState
    last, stage, mod, newTags, newAt,   \* scanJob; folderEntry
    faults,
    \* history: folders a full scan still owes a reading, those read since the
    \* library was stamped, those persisted though their file could not be read,
    \* those this scan could not open, whether the files changed in this scan,
    \* and whether a full scan has resumed one that was not
    owed, read, skipped, unread, quiet, mixed

files   == <<there, mtime, edits>>
rows    == <<hash, gone, tags, at, lost>>
library == <<fresh, started, fullSaved>>
entries == <<last, stage, mod, newTags, newAt, unread>>
kept    == <<owed, read, skipped, mixed>>
history == <<kept, quiet>>
vars    == <<files, rows, library, flag, boot, phase, full, targets, entries, faults,
             history>>

NoHash   == <<0, 0>>
Versions == 0 .. MaxEdits + 1
Stages   == {"out", "todo", "loaded", "queued", "parsed", "ready", "done"}
Phases   == {"idle", "begin", "walk", "failed", "post"}
Boots    == {"start", "delete", "full", "quick", "up"}

\* the library is new, or an earlier version filled it and a migration has
\* asked for a full scan of it
Init ==
    /\ there = [f \in Folders |-> TRUE]
    /\ mtime = [f \in Folders |-> 1]
    /\ edits = 0
    /\ flag \in BOOLEAN
    /\ hash = [f \in Folders |-> IF flag THEN <<1, 1>> ELSE NoHash] /\ gone = {}
    /\ tags = [f \in Folders |-> IF flag THEN 1 ELSE 0] /\ at = tags /\ lost = {}
    /\ fresh = {} /\ started = FALSE /\ fullSaved = FALSE
    /\ boot = "start" /\ phase = "idle" /\ full = FALSE /\ targets = {}
    /\ last = {} /\ stage = [f \in Folders |-> "out"]
    /\ mod = [f \in Folders |-> 0]
    /\ newTags = [f \in Folders |-> 0] /\ newAt = [f \in Folders |-> 0]
    /\ faults = 0
    /\ owed = {} /\ read = {} /\ skipped = {} /\ unread = {} /\ quiet = TRUE /\ mixed = FALSE

-----------------------------------------------------------------------------
(* The file system: files are rewritten, folders vanish and come back *)

Change ==
    /\ edits < MaxEdits
    /\ edits' = edits + 1
    /\ quiet' = (phase \in {"idle", "begin"})
    /\ UNCHANGED <<rows, library, flag, boot, phase, full, targets, entries, faults, kept>>

Edit(f) ==
    /\ there[f] /\ Change
    /\ mtime' = [mtime EXCEPT ![f] = edits' + 1]
    /\ UNCHANGED there

Vanish(f) ==
    /\ there[f] /\ Change
    /\ there' = [there EXCEPT ![f] = FALSE]
    /\ UNCHANGED mtime

Return(f) ==
    /\ ~there[f] /\ Change
    /\ there' = [there EXCEPT ![f] = TRUE]
    /\ UNCHANGED mtime

-----------------------------------------------------------------------------
(* A scan is asked for, and begins *)

\* the lock is taken: the schedule, a user or the watcher wants folders scanned
Accept(whole, asked) ==
    /\ phase = "idle"
    /\ phase' = "begin"
    /\ full' = whole
    /\ targets' = asked

StartScan(whole, asked) ==
    /\ Accept(whole, asked)
    /\ UNCHANGED <<files, rows, library, flag, boot, entries, faults, history>>

\* folders whose last update the scan knows: those that are not missing
Known == {f \in Folders : hash[f] # NoHash} \ gone

MutWhole == full    \* mutant: a scan does not become a full one
Whole == full \/ fullSaved

Fault == faults < MaxFaults /\ faults' = faults + 1

\* the updates the scan knows and the folders to walk; where the job of the library
\* cannot be made, phase 1 leaves the library out, and the scan goes on
NewScanJob ==
    \/ /\ last' = Known \cap targets
       /\ stage' = [f \in Folders |-> IF f \in targets THEN "todo" ELSE "out"]
       /\ unread' = {} /\ UNCHANGED faults
    \/ /\ Fault
       /\ last' = {} /\ stage' = [f \in Folders |-> "out"]
       /\ unread' = targets

\* an interrupted full scan makes this one full; ScanBegin stamps the library
\* unless it resumes a scan
Prepare ==
    /\ phase = "begin"
    /\ phase' = "walk"
    /\ full' = Whole
    /\ IF started THEN UNCHANGED <<library, read>>
       ELSE started' = TRUE /\ fullSaved' = full' /\ fresh' = {} /\ read' = {}
    /\ NewScanJob
    /\ owed' = IF full' /\ ~fullSaved THEN owed \cup (targets \ read') ELSE owed
    /\ quiet' = TRUE
    /\ mixed' = (started /\ (mixed \/ (full' /\ ~fullSaved)))
    /\ UNCHANGED <<files, rows, flag, boot, targets, mod, newTags, newAt, skipped>>

\* an entry is forgotten when its folder is done with
Forget(done) ==
    /\ mod' = [f \in Folders |-> IF f \in done THEN 0 ELSE mod[f]]
    /\ newTags' = [f \in Folders |-> IF f \in done THEN 0 ELSE newTags[f]]
    /\ newAt' = [f \in Folders |-> IF f \in done THEN 0 ELSE newAt[f]]

Reset ==
    /\ phase' = "idle"
    /\ full' = FALSE /\ targets' = {} /\ last' = {}
    /\ stage' = [f \in Folders |-> "out"]
    /\ Forget(Folders)
    /\ unread' = {} /\ quiet' = TRUE

\* ScanBegin fails: "no libraries available for scanning"
PrepareFails ==
    /\ phase = "begin" /\ Fault /\ Reset
    /\ UNCHANGED <<files, rows, library, flag, boot, kept>>

-----------------------------------------------------------------------------
(* Phase 1: folders *)

\* loadDir stats a folder, and pops the last update of one it finds
Load(f) ==
    /\ phase = "walk" /\ stage[f] = "todo"
    /\ IF there[f]
       THEN /\ stage' = [stage EXCEPT ![f] = "loaded"]
            /\ mod' = [mod EXCEPT ![f] = mtime[f]]
            /\ last' = last \ {f}
       ELSE /\ stage' = [stage EXCEPT ![f] = "done"]
            /\ UNCHANGED <<mod, last>>
    /\ UNCHANGED <<files, rows, library, flag, boot, phase, full, targets, newTags, newAt, unread,
                   faults, history>>

\* a folder that cannot be statted, or be opened and listed after its last update was
\* popped, is skipped with a warning, and what is below it is not walked
Skip(f) ==
    /\ phase = "walk"
    /\ \E below \in SUBSET {g \in Folders \ {f} : stage[g] = "todo"} :
         /\ stage' = [g \in Folders |-> IF g = f \/ g \in below THEN "done" ELSE stage[g]]
         /\ unread' = unread \cup {f} \cup below
         /\ \/ there[f] /\ stage[f] \in {"todo", "loaded"} /\ Fault
            \/ ~there[f] /\ stage[f] = "loaded" /\ below = {} /\ UNCHANGED faults
    /\ Forget({f})
    /\ UNCHANGED <<files, rows, library, flag, boot, phase, full, targets, last, history>>

\* hash() stats the file each time it is computed
MutHash(f) == <<mtime[f], mtime[f]>>    \* mutant: nothing of the hash dates from the load
Hash(f) == <<mod[f], IF there[f] THEN mtime[f] ELSE 0>>

MutOutdated(f) == hash[f] # Hash(f)    \* mutant: full scans trust the hash as well
Outdated(f) ==
    \/ full /\ (f \notin Known \/ f \notin fresh)
    \/ f \notin Known \/ hash[f] # Hash(f)

Check(f) ==
    /\ phase = "walk" /\ stage[f] = "loaded"
    /\ stage' = [stage EXCEPT ![f] = IF Outdated(f) THEN "queued" ELSE "done"]
    /\ Forget(IF Outdated(f) THEN {} ELSE {f})
    /\ UNCHANGED <<files, rows, library, flag, boot, phase, full, targets, last, unread, faults,
                   history>>

NeedsImport(f) == tags[f] = 0 \/ full \/ mtime[f] > at[f] \/ f \in lost

\* processFolder: the tags are read if the file is new or newer, or for a full scan
Parse(f) ==
    /\ phase = "walk" /\ stage[f] = "queued" /\ there[f]
    /\ IF NeedsImport(f)
       THEN /\ newTags' = [newTags EXCEPT ![f] = mtime[f]]
            /\ newAt' = [newAt EXCEPT ![f] = mtime[f]]
            /\ stage' = [stage EXCEPT ![f] = "parsed"]
       ELSE /\ stage' = [stage EXCEPT ![f] = "ready"]
            /\ UNCHANGED <<newTags, newAt>>
    /\ UNCHANGED <<files, rows, library, flag, boot, phase, full, targets, last, mod, unread,
                   faults, history>>

\* localFS.ReadTags stats the files after the extractor has read their tags
Stat(f) ==
    /\ phase = "walk" /\ stage[f] = "parsed" /\ there[f]
    /\ newAt' = [newAt EXCEPT ![f] = mtime[f]]
    /\ stage' = [stage EXCEPT ![f] = "ready"]
    /\ UNCHANGED <<files, rows, library, flag, boot, phase, full, targets, last, mod, newTags,
                   unread, faults, history>>

\* a file that cannot be read is skipped, and its folder is persisted all the same
ReadFails(f) ==
    /\ phase = "walk" /\ stage[f] \in {"queued", "parsed"}
    /\ IF there[f] THEN Fault ELSE UNCHANGED faults
    /\ newTags' = [newTags EXCEPT ![f] = 0]
    /\ newAt' = [newAt EXCEPT ![f] = 0]
    /\ stage' = [stage EXCEPT ![f] = "ready"]
    /\ skipped' = skipped \cup {f}
    /\ UNCHANGED <<files, rows, library, flag, boot, phase, full, targets, last, mod, unread,
                   owed, read, quiet, mixed>>

Persist(f) ==
    /\ phase = "walk" /\ stage[f] = "ready"
    /\ hash' = [hash EXCEPT ![f] = Hash(f)]
    /\ gone' = gone \ {f}
    /\ fresh' = fresh \cup {f}
    /\ IF newTags[f] # 0
       THEN /\ tags' = [tags EXCEPT ![f] = newTags[f]]
            /\ at' = [at EXCEPT ![f] = newAt[f]]
            /\ lost' = lost \ {f}
            /\ owed' = owed \ {f} /\ read' = read \cup {f}
            /\ skipped' = skipped \ {f}
       ELSE UNCHANGED <<tags, at, lost, owed, read, skipped>>
    /\ stage' = [stage EXCEPT ![f] = "done"]
    /\ Forget({f})
    /\ UNCHANGED <<files, started, fullSaved, flag, boot, phase, full, targets, last, unread,
                   faults, quiet, mixed>>

\* the producer fails before it walks, the rows of a folder cannot be loaded, or its
\* transaction fails, and with it the pipeline
PhaseFails ==
    /\ phase = "walk" /\ Fault
    /\ \/ \A f \in Folders : stage[f] \in {"out", "todo"}
       \/ \E f \in Folders : stage[f] \in {"queued", "ready"}
    /\ phase' = "failed"
    /\ stage' = [f \in Folders |-> "out"] /\ Forget(Folders)
    /\ UNCHANGED <<files, rows, library, flag, boot, full, targets, last, unread, history>>

MutMissing == {}    \* mutant: folders that were not found are not marked
Missing == last

\* finalize marks the folders that were not popped, whether or not phase 1
\* failed; and a failed phase ends the scan
MarkMissing ==
    /\ gone' = gone \cup Missing
    /\ lost' = lost \cup {f \in Missing : tags[f] # 0}
    /\ fresh' = fresh \cup Missing
    /\ UNCHANGED <<hash, tags, at, started, fullSaved>>

Walked == phase = "walk" /\ \A f \in Folders : stage[f] \in {"out", "done"}

Finalize ==
    /\ Walked /\ MarkMissing
    /\ phase' = "post"
    /\ UNCHANGED <<files, flag, boot, full, targets, entries, faults, history>>

FinalizeFailed ==
    /\ phase = "failed" /\ MarkMissing /\ Reset
    /\ UNCHANGED <<files, flag, boot, faults, kept>>

-----------------------------------------------------------------------------
(* The end of a scan, or of the process *)

MutClearFull == UNCHANGED fullSaved    \* mutant: the mark of a full scan stays
ClearFull == fullSaved' = FALSE

\* nothing is compared with the start of a scan, and nothing owed, until the next
End ==
    /\ phase = "post"
    /\ started' = FALSE /\ ClearFull
    /\ Reset
    /\ fresh' = {} /\ owed' = {} /\ read' = {} /\ mixed' = FALSE
    /\ UNCHANGED <<files, rows, flag, boot, faults, skipped>>

\* finalize or a later phase fails, and the library stays in progress
PostFails ==
    /\ Walked \/ phase \in {"failed", "post"}
    /\ Fault /\ Reset
    /\ UNCHANGED <<files, rows, library, flag, boot, kept>>

Crash ==
    /\ Fault /\ Reset
    /\ boot' = "start"
    /\ UNCHANGED <<files, rows, library, flag, kept>>

\* runInitialScan: reads the flag and whether a scan is in progress, deletes
\* the flag, and asks for a scan, which is refused if one is running
BootRead ==
    /\ boot = "start"
    /\ boot' = IF flag THEN "delete" ELSE IF started THEN "quick" ELSE "up"
    /\ UNCHANGED <<files, rows, library, flag, phase, full, targets, entries, faults, history>>

BootDelete ==
    /\ boot = "delete"
    /\ boot' = "full"
    /\ flag' = FALSE
    /\ UNCHANGED <<files, rows, library, phase, full, targets, entries, faults, history>>

BootScan ==
    /\ boot \in {"full", "quick"}
    /\ boot' = "up"
    /\ IF phase = "idle" THEN Accept(boot = "full", Folders) ELSE UNCHANGED <<phase, full, targets>>
    /\ UNCHANGED <<files, rows, library, flag, entries, faults, history>>

-----------------------------------------------------------------------------
Next ==
    \/ Prepare \/ PrepareFails
    \/ \E f \in Folders : \/ Load(f) \/ Skip(f) \/ Check(f) \/ Parse(f) \/ Stat(f) \/ ReadFails(f)
                          \/ Persist(f)
                          \/ Edit(f) \/ Vanish(f) \/ Return(f)
    \/ PhaseFails \/ Finalize \/ FinalizeFailed \/ PostFails \/ End
    \/ \E whole \in BOOLEAN, asked \in Targets : StartScan(whole, asked)
    \/ Crash \/ BootRead \/ BootDelete \/ BootScan

Spec == Init /\ [][Next]_vars

-----------------------------------------------------------------------------
(* Properties *)

\* The variables have their types, and only a scan in progress is a full one.
TypeOK ==
    /\ there \in [Folders -> BOOLEAN] /\ mtime \in [Folders -> Versions] /\ edits \in 0..MaxEdits
    /\ hash \in [Folders -> Versions \X Versions] /\ gone \subseteq Folders
    /\ tags \in [Folders -> Versions] /\ at \in [Folders -> Versions] /\ lost \subseteq Folders
    /\ fresh \subseteq Folders
    /\ started \in BOOLEAN /\ fullSaved \in BOOLEAN /\ flag \in BOOLEAN
    /\ boot \in Boots /\ phase \in Phases /\ full \in BOOLEAN /\ targets \subseteq Folders
    /\ last \subseteq Folders
    /\ fullSaved => started
    /\ stage \in [Folders -> Stages]
    /\ mod \in [Folders -> Versions] /\ newTags \in [Folders -> Versions]
    /\ newAt \in [Folders -> Versions]
    /\ faults \in 0..MaxFaults
    /\ owed \subseteq Folders /\ read \subseteq Folders /\ skipped \subseteq Folders
    /\ unread \subseteq Folders /\ quiet \in BOOLEAN /\ mixed \in BOOLEAN

UpToDate(f) == f \in Known /\ hash[f] = <<mtime[f], mtime[f]>>
Imported(f) == tags[f] = mtime[f] /\ f \notin lost

\* The last reading of a file failed, or met a change of it: the read tags are
\* older than the mtime they are saved with.
Misread(f) == f \in skipped \/ tags[f] < at[f]

\* What the next quick scan will skip is imported: however edits, scans and
\* crashes interleave, no folder is taken for up to date that is not, unless
\* its file was misread.
UpToDateIsImported == \A f \in Folders : there[f] /\ UpToDate(f) => Imported(f) \/ Misread(f)

Synced(f) == IF there[f] THEN f \notin gone /\ (Imported(f) \/ Misread(f)) ELSE f \notin Known

\* A completed scan during which no file changed leaves its folders as they
\* are on disk, whatever interrupted scans left before it, but for those it could
\* not open.
ScanSyncs ==
    [][phase = "post" /\ started /\ ~started' /\ quiet => \A f \in targets \ unread : Synced(f)]_vars

\* A completed full scan has read every file it found, itself or through the
\* full scans it resumed; one that resumed a quick scan need not have.
FullScanReadsAll ==
    [][phase = "post" /\ started /\ ~started' /\ full /\ ~mixed
        => \A f \in targets \ unread : f \in read \cup skipped \/ f \notin Known]_vars

\* What a completed scan has promised.
ScansAreTrue == ScanSyncs /\ FullScanReadsAll

\* The mark of an interrupted full scan is kept until every file it has still
\* to read has been: the next scan is "a full scan if the previous one was".
InterruptedStaysFull ==
    [][fullSaved /\ ~fullSaved' => \A f \in owed \ unread : f \in skipped \/ f \notin Known]_vars
=============================================================================
