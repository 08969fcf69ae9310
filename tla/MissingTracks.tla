---------------------------- MODULE MissingTracks ----------------------------
(***************************************************************************)
(* Phase 2 of a scan: missing tracks are looked for among the files that   *)
(* have appeared (scanner/phase_2_missing_tracks.go), with the queries and *)
(* writes of persistence/mediafile_repository.go, while administrators     *)
(* delete missing tracks (core/maintenance.go).                            *)
(*                                                                         *)
(* All the files are copies of one song, so a PID is as good as a library, *)
(* and so is an album: both are computed with the library's id.  A row of  *)
(* media_file is what its path says: the file's library and its kind, on   *)
(* which Equals and IsEquivalent depend.  The rows are numbered, and so    *)
(* are the paths, by the row that has them at first.                       *)
(***************************************************************************)
EXTENDS Naturals, Sequences, SequencesExt

CONSTANTS
    Libraries,
    Scanned,        \* the sequences of libraries a scan may be of
    MaxRows,        \* bound: rows of the song
    MaxFaults       \* bound: failing queries and transactions, deletions by administrators

\* what the constants satisfy
TracksAssumption ==
    /\ Scanned \subseteq Seq(Libraries)
    /\ \A s \in Scanned : \A m, n \in DOMAIN s : s[m] = s[n] => m = n
    /\ MaxRows \in Nat /\ MaxFaults \in Nat

VARIABLES
    lib, kind,                \* files: library and kind
    at, missing, created,     \* rows: path (None: no row), flag and rank of created_at
    stars,                    \* albums with annotations
    libraries, purging,       \* scanState.libraries; PurgeMissing applies to this scan
    toRead, queue, passed,    \* libraries to read; groups before each stage, which works
                              \* on the first of them
    next, used, hasMatches,   \* processMissingTracks
    cross, found,             \* processCrossLibraryMoves: next track, its match
    processed,                \* processedAlbumAnnotations
    phase, faults,
    \* history: the rows and stars there were before, rows deleted as missing,
    \* by administrators or the end, files found by the second stage and rows it has
    \* discarded, moves between albums, albums marked by a transaction that failed,
    \* whether administrators have deleted tracks
    known, before, purged, crossed, taken, moves, halved, swept

files   == <<lib, kind>>
rows    == <<at, missing, created>>
groups  == <<toRead, queue, passed>>
stage1  == <<next, used, hasMatches>>
stage2  == <<cross, found>>
scan    == <<libraries, purging>>
history == <<known, before, purged, crossed, taken, moves, halved, swept>>
vars    == <<files, rows, stars, scan, groups, stage1, stage2, processed, phase, faults,
             history>>

None == 0
Ids  == 1 .. MaxRows
New  == 2        \* the rank of rows created since the last scan started

\* files of kind 1 are equal; so are those of kind 2, which have the base name of
\* kind 1; and those of kind 3, which do not
Kinds == 1 .. 3
Equals(p, q) == kind[p] = kind[q]
IsEquivalent(p, q) == kind[p] = kind[q] \/ {kind[p], kind[q]} = {1, 2}

Init ==
    /\ lib \in [Ids -> Libraries] /\ kind \in [Ids -> Kinds]
    /\ at = [i \in Ids |-> i]
    /\ missing \in SUBSET Ids
    /\ created \in [Ids -> 0 .. New] /\ \A i \in missing : created[i] # New
    /\ stars \in SUBSET Libraries
    /\ libraries \in Scanned /\ purging \in BOOLEAN
    /\ toRead = libraries /\ queue = <<>> /\ passed = <<>>
    /\ next = 1 /\ used = {} /\ hasMatches = FALSE
    /\ cross = 1 /\ found = {}
    /\ processed = {}
    /\ phase = "run" /\ faults = 0
    /\ known = {i \in Ids : created[i] # New} /\ before = stars
    /\ purged = {} /\ crossed = {} /\ taken = {} /\ moves = {} /\ halved = {}
    /\ swept = FALSE

-----------------------------------------------------------------------------
(* The producer *)

Rows == {i \in Ids : at[i] # None}
InLibrary(l) == {i \in Rows : lib[at[i]] = l}

\* a row as it is read
Track(i) == [id |-> i, path |-> at[i], created |-> created[i]]

MutCandidates(l) == InLibrary(l) \ missing    \* mutant: any track may be the match
Candidates(l) == {i \in InLibrary(l) \ missing : created[i] = New}

\* the rows of a PID come in any order
Read ==
    /\ phase = "run" /\ toRead # <<>>
    /\ LET l == Head(toRead) IN
       IF InLibrary(l) \cap missing = {} THEN UNCHANGED queue
       ELSE \E m \in SetToSeqs({Track(i) : i \in InLibrary(l) \cap missing}),
               c \in SetToSeqs({Track(i) : i \in Candidates(l)}) :
              queue' = Append(queue, [missing |-> m, matched |-> c])
    /\ toRead' = Tail(toRead)
    /\ UNCHANGED <<files, rows, stars, scan, passed, stage1, stage2, processed, phase,
                   faults, history>>

-----------------------------------------------------------------------------
(* moveMatched: the missing row gets the contents of the row it is matched *)
(* with, which is deleted                                                  *)

\* Put updates every column but created_at, or inserts the row if it is gone
MoveRow(track, target) ==
    /\ at' = [at EXCEPT ![track.id] = target.path, ![target.id] = None]
    /\ missing' = missing \ {track.id, target.id}
    /\ created' = [created EXCEPT ![track.id] = IF at[track.id] = None THEN track.created ELSE @,
                                  ![target.id] = 0]

\* an UPDATE that would give an album two annotations of a user fails, and is ignored
Reassign(a, b) ==
    stars' = IF a \in stars /\ b \notin stars THEN (stars \ {a}) \cup {b} ELSE stars

MutMoveAlbum(track, target) ==    \* mutant: the album is marked, and nothing moves
    LET b == lib[target.path] IN
    /\ moves' = moves \cup {<<lib[track.path], b>>}
    /\ processed' = processed \cup {b}
    /\ UNCHANGED stars
MoveAlbum(track, target) ==
    LET a == lib[track.path]
        b == lib[target.path]
    IN IF a = b THEN UNCHANGED <<stars, processed, moves>>
       ELSE /\ moves' = moves \cup {<<a, b>>}
            /\ IF b \in processed THEN UNCHANGED <<stars, processed>>
               ELSE Reassign(a, b) /\ processed' = processed \cup {b}

Fault == faults < MaxFaults /\ faults' = faults + 1

\* the transaction fails; the mark it has made on the album stays
MoveFails(track, target) ==
    LET b == lib[target.path] IN
    /\ Fault
    /\ IF lib[track.path] = b \/ b \in processed THEN UNCHANGED <<processed, halved>>
       ELSE /\ processed' \in {processed, processed \cup {b}}
            /\ halved' = halved \cup (processed' \ processed)
    /\ UNCHANGED <<rows, stars>>

-----------------------------------------------------------------------------
(* processMissingTracks *)

Group == Head(queue)
Missing1 == Group.missing[next]

\* positions of the tracks that no missing one has been matched with
MutUnused == DOMAIN Group.matched    \* mutant: a match serves every missing track
Unused == {n \in DOMAIN Group.matched : Group.matched[n].id \notin used}

MutLowest(S) == {n \in S : S = {n}}    \* mutant: not if several
Lowest(S)  == {n \in S : \A m \in S : n <= m}
Highest(S) == {n \in S : \A m \in S : m <= n}

\* the first equal match; or the only one for the only track; or the last
\* equivalent one
Match ==
    LET equal      == {n \in Unused : Equals(Missing1.path, Group.matched[n].path)}
        equivalent == {n \in Unused : IsEquivalent(Missing1.path, Group.matched[n].path)}
        matches    == IF equal # {} THEN Lowest(equal)
                      ELSE IF Len(Group.missing) = 1 /\ Len(Group.matched) = 1 THEN Unused
                      ELSE Highest(equivalent)
    IN {Group.matched[n] : n \in matches}

Working1 == phase = "run" /\ queue # <<>> /\ next <= Len(Group.missing)

Recover ==
    /\ Working1
    /\ \E target \in Match :
         /\ MoveRow(Missing1, target) /\ MoveAlbum(Missing1, target)
         /\ used' = used \cup {target.id}
    /\ hasMatches' = TRUE
    /\ next' = next + 1
    /\ UNCHANGED <<files, scan, groups, stage2, phase, faults, swept, known, before, purged,
                   crossed, taken, halved>>

NoMatch ==
    /\ Working1 /\ Match = {}
    /\ next' = next + 1
    /\ UNCHANGED <<files, rows, stars, scan, groups, used, hasMatches, stage2, processed, phase,
                   faults, history>>

\* an error ends the pipeline
RecoverFails ==
    /\ Working1
    /\ \E target \in Match : MoveFails(Missing1, target)
    /\ phase' = "failed"
    /\ UNCHANGED <<files, scan, groups, stage1, stage2, swept, known, before, purged,
                   crossed, taken, moves>>

\* a group with a match goes no further
Pass ==
    /\ phase = "run" /\ queue # <<>> /\ next > Len(Group.missing)
    /\ queue' = Tail(queue)
    /\ passed' = IF hasMatches THEN passed ELSE Append(passed, Group)
    /\ next' = 1 /\ used' = {} /\ hasMatches' = FALSE
    /\ UNCHANGED <<files, rows, stars, scan, toRead, stage2, processed, phase, faults, history>>

-----------------------------------------------------------------------------
(* processCrossLibraryMoves, which goes on while the first stage works, and *)
(* whose errors are only logged                                             *)

Working2 == phase # "end" /\ passed # <<>> /\ cross <= Len(Head(passed).missing)
Missing2 == Head(passed).missing[cross]

\* FindRecentFiles: any track of another library that is younger than this one
Recent ==
    {i \in Rows \ missing : lib[at[i]] # lib[Missing2.path] /\ created[i] > Missing2.created}

\* the youngest of the equal ones, or the only one if it is equivalent
CrossMatch ==
    LET equal == {i \in Recent : Equals(Missing2.path, at[i])} IN
    IF equal # {} THEN {i \in equal : \A j \in equal : created[j] <= created[i]}
    ELSE {i \in Recent : Recent = {i} /\ IsEquivalent(Missing2.path, at[i])}

Find ==
    /\ Working2 /\ found = {}
    /\ IF CrossMatch = {} THEN cross' = cross + 1 /\ UNCHANGED <<found, crossed>>
       ELSE \E i \in CrossMatch : /\ found' = {Track(i)}
                                  /\ crossed' = crossed \cup {at[i]}
                                  /\ UNCHANGED cross
    /\ UNCHANGED <<files, rows, stars, scan, groups, stage1, processed, phase, faults, swept,
                   known, before, purged, taken, moves, halved>>

FindFails ==
    /\ Working2 /\ found = {}
    /\ Fault
    /\ cross' = cross + 1
    /\ UNCHANGED <<files, rows, stars, scan, groups, stage1, found, processed, phase, history>>

Move ==
    /\ Working2
    /\ \E target \in found :
         /\ MoveRow(Missing2, target) /\ MoveAlbum(Missing2, target)
         /\ taken' = taken \cup {target.id}
    /\ cross' = cross + 1 /\ found' = {}
    /\ UNCHANGED <<files, scan, groups, stage1, phase, faults, swept, known, before, purged,
                   crossed, halved>>

MoveIsLost ==
    /\ Working2
    /\ \E target \in found : MoveFails(Missing2, target)
    /\ cross' = cross + 1 /\ found' = {}
    /\ UNCHANGED <<files, scan, groups, stage1, phase, swept, known, before, purged, crossed,
                   taken, moves>>

\* after an error the stage may end before it takes another group
NextGroup ==
    /\ phase # "end" /\ passed # <<>>
    /\ \/ cross > Len(Head(passed).missing)
       \/ phase = "failed" /\ cross = 1 /\ found = {}
    /\ passed' = Tail(passed)
    /\ cross' = 1
    /\ UNCHANGED <<files, rows, stars, scan, toRead, queue, stage1, found, processed, phase,
                   faults, history>>

-----------------------------------------------------------------------------
(* The end of the phase, and administrators *)

Delete(ids) ==
    /\ at' = [i \in Ids |-> IF i \in ids THEN None ELSE at[i]]
    /\ created' = [i \in Ids |-> IF i \in ids THEN 0 ELSE created[i]]
    /\ missing' = missing \ ids
    /\ purged' = purged \cup ids

\* finalize, with purgeMissing
Finalize ==
    /\ phase = "failed" \/ (phase = "run" /\ toRead = <<>> /\ queue = <<>>)
    /\ passed = <<>>
    /\ phase' = "end"
    /\ IF phase = "run" /\ purging THEN Delete(missing) ELSE UNCHANGED <<rows, purged>>
    /\ UNCHANGED <<files, stars, scan, groups, stage1, stage2, processed, faults, swept, known,
                   before, crossed, taken, moves, halved>>

\* DeleteMissingFiles and its GC, which purges albums without tracks
AdminDelete(ids) ==
    /\ Fault /\ phase # "end"
    /\ ids # {}
    /\ Delete(ids)
    /\ stars' = {a \in stars : \E i \in Ids : at'[i] # None /\ lib[at'[i]] = a}
    /\ swept' = TRUE
    /\ UNCHANGED <<files, scan, groups, stage1, stage2, processed, phase, known, before, crossed,
                   taken, moves, halved>>

-----------------------------------------------------------------------------
Next ==
    \/ Read
    \/ Recover \/ NoMatch \/ RecoverFails \/ Pass
    \/ Find \/ FindFails \/ Move \/ MoveIsLost \/ NextGroup
    \/ Finalize
    \/ \E ids \in SUBSET missing : AdminDelete(ids)

Spec == Init /\ [][Next]_vars

-----------------------------------------------------------------------------
(* Properties *)

Tracks == [id : Ids, path : Ids, created : 0 .. New]
Groups == [missing : Seq(Tracks), matched : Seq(Tracks)]

\* The variables have their types, and only a row can be missing.
TypeOK ==
    /\ lib \in [Ids -> Libraries] /\ kind \in [Ids -> Kinds]
    /\ at \in [Ids -> Ids \cup {None}] /\ created \in [Ids -> 0 .. New]
    /\ missing \subseteq Rows
    /\ stars \subseteq Libraries /\ before \subseteq Libraries
    /\ processed \subseteq Libraries /\ halved \subseteq Libraries
    /\ toRead \in Seq(Libraries) /\ libraries \in Seq(Libraries) /\ purging \in BOOLEAN
    /\ queue \in Seq(Groups) /\ passed \in Seq(Groups)
    /\ next \in Nat \ {0} /\ used \subseteq Ids /\ hasMatches \in BOOLEAN
    /\ cross \in Nat \ {0} /\ found \subseteq Tracks
    /\ phase \in {"run", "failed", "end"}
    /\ faults \in 0 .. MaxFaults
    /\ known \subseteq Ids /\ purged \subseteq Ids /\ crossed \subseteq Ids /\ taken \subseteq Ids
    /\ moves \subseteq Libraries \X Libraries /\ swept \in BOOLEAN

\* A file on disk has one row, whatever was matched with it; but for a file that
\* the second stage has found, which the first may have had in hand already.
OneRowPerFile ==
    \A i, j \in Rows \ missing : i # j /\ at[i] = at[j] => at[i] \in crossed

\* A row users know is never discarded: what they have attached to it stays until
\* it is deleted as missing.  The second stage does discard such rows: it takes
\* any younger track of another library for one that has moved there.
IdentitiesStay == \A i \in known : at[i] # None \/ i \in purged \cup taken

\* a move between two albums, when neither's tracks have moved elsewhere as well, and
\* the other's were not joined by a third's
Alone(m) == \A n \in moves : n[1] \in {m[1], m[2]} \/ n[2] = m[2] => n = m

\* The annotations of an album follow its tracks to the album they move to, unless
\* that had its own, or a transaction has failed after it had marked the album.
StarsFollow ==
    ~swept => \A m \in moves : m[1] \in before /\ Alone(m) => m[2] \in stars \cup halved

\* What users have attached to tracks and albums survives a move.
AnnotationsStay == IdentitiesStay /\ StarsFollow

\* When the phase has ended well, no track of a library it has looked at is still
\* missing while an equal one has appeared in that library.
MovesAreFound ==
    phase = "end" /\ (toRead = <<>> /\ queue = <<>>) =>
        \A i \in missing, j \in Rows \ missing :
            \/ lib[at[i]] # lib[at[j]] \/ created[j] # New \/ ~Equals(at[i], at[j])
            \/ \A n \in DOMAIN libraries : libraries[n] # lib[at[i]]
=============================================================================
