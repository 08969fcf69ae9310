------------------------------ MODULE Playlists ------------------------------
(***************************************************************************)
(* The tracks of one playlist (persistence/playlist_repository.go and      *)
(* playlist_track_repository.go) under the requests of users               *)
(* (core/playlists/playlists.go), the import of its file by a scan         *)
(* (core/playlists/import.go) and the collection of tracks whose files     *)
(* were deleted (core/maintenance.go, scanner/scanner.go).                 *)
(*                                                                         *)
(* A row of playlist_tracks is a track and its position, which is unique.  *)
(* Tracks are numbered as their rows are inserted.  What runs in a         *)
(* transaction is one step; the other operations are one step for each     *)
(* statement that reads or writes the list, and may stop in between.       *)
(***************************************************************************)
EXTENDS Integers, FiniteSets, FiniteSetsExt, Functions

CONSTANTS
    Clients,        \* requests that may be under way at a time
    MaxTracks,      \* bound: tracks ever put in the list
    MaxRequests,    \* bound: requests, and files that vanish
    MaxCrashes      \* bound: crashes

\* where Reorder puts a track aside
Aside == -999999

\* what the constants satisfy: a list is shorter than the place of a track that is put aside
PlaylistsAssumption ==
    MaxTracks \in 3 .. -Aside - 1 /\ MaxRequests \in Nat /\ MaxCrashes \in Nat

VARIABLES
    id,                \* position of each track in the list
    songCount,         \* column song_count of the playlist
    missing, deleted,  \* tracks whose file is missing, or that have no row any more
    at, local,         \* of a request: its next statement, and what it has read
    used, requests, crashes,
    \* history: the order the requests wanted, as the pairs of tracks of which the first does
    \* not come after the second; requests whose count is no longer so; whether requests have
    \* crossed, positions may have gaps, the count may be wrong, a request was given another
    \* track than it had asked for
    wanted, outdated, crossed, gapped, miscounted, misled

files   == <<missing, deleted>>
locals  == <<at, local>>
bounds  == <<used, requests, crashes>>
history == <<wanted, outdated, crossed, gapped, miscounted, misled>>
vars    == <<id, songCount, files, locals, bounds, history>>

Tracks == 1 .. MaxTracks
InList == DOMAIN id
Steps  == {"idle", "insert", "stats", "count", "clear", "fill", "orphans", "purge", "negate", "rank"}
\* in the order of their numbers
ByNumber(tracks) == {p \in tracks \X tracks : p[1] <= p[2]}

Init ==
    /\ id = [t \in 1 .. 3 |-> t] /\ songCount = 3
    /\ missing = {} /\ deleted = {}
    /\ at = [c \in Clients |-> "idle"] /\ local = [c \in Clients |-> 0]
    /\ used = 3 /\ requests = 0 /\ crashes = 0
    /\ wanted = ByNumber(1 .. 3) /\ outdated = {}
    /\ crossed = FALSE /\ gapped = FALSE /\ miscounted = FALSE /\ misled = FALSE

-----------------------------------------------------------------------------
(* The list, and the statements on it *)

Unique(positions) == IsInjective(positions)
Without(positions, out) == [t \in DOMAIN positions \ out |-> positions[t]]
With(positions, t, p) == [u \in DOMAIN positions \cup {t} |-> IF u = t THEN p ELSE positions[u]]
Positions(positions) == {positions[t] : t \in DOMAIN positions}
Contiguous(positions) == Positions(positions) = 1 .. Cardinality(DOMAIN positions)

Following(positions) == IF DOMAIN positions = {} THEN 1 ELSE Max(Positions(positions)) + 1

\* ORDER BY id
Listed(positions) ==
    {p \in (DOMAIN positions) \X (DOMAIN positions) : positions[p[1]] <= positions[p[2]]}

\* GetWithTracks leaves out what is not there
Absent == missing \cup deleted
Shown  == InList \ Absent
ShownAt(i) == {t \in Shown : Cardinality({u \in Shown : id[u] <= id[t]}) = i}

\* renumber: positions are negated, and ranked in descending order
Negated(positions) ==
    [t \in DOMAIN positions |-> IF positions[t] > 0 THEN -positions[t] ELSE positions[t]]
MutRanked(positions) ==    \* mutant: ranked in ascending order
    [t \in DOMAIN positions |-> Cardinality({u \in DOMAIN positions : positions[u] <= positions[t]})]
Ranked(positions) ==
    [t \in DOMAIN positions |-> Cardinality({u \in DOMAIN positions : positions[u] >= positions[t]})]
\* rows are updated in the order they were inserted in, and each must find its new
\* position free
Ranks(positions) ==
    \A t, u \in DOMAIN positions : t < u => Ranked(positions)[t] # positions[u]
Renumbered(positions) == Ranked(Negated(positions))
Renumbers(positions) == Unique(Negated(positions)) /\ Ranks(Negated(positions))

\* refreshCounters joins media_file
Counted(positions) == Cardinality(DOMAIN positions \ deleted)

\* Reorder: the track is put aside, those between are shifted below zero, and turned
\* back; then the track gets its new position
Shift(pos, newPos, p) ==
    IF pos < newPos
    THEN IF p > pos /\ p <= newPos THEN -(p - 1) ELSE p
    ELSE IF p >= newPos /\ p < pos THEN -(p + 1) ELSE p
PutAside(pos) == [t \in InList |-> IF id[t] = pos THEN Aside ELSE id[t]]
Shifted(pos, newPos) == [t \in InList |-> Shift(pos, newPos, PutAside(pos)[t])]
TurnedBack(pos, newPos) ==
    [t \in InList |-> LET p == Shifted(pos, newPos)[t] IN IF p < 0 /\ p # Aside THEN -p ELSE p]
Reordered(pos, newPos) ==
    [t \in InList |-> LET p == TurnedBack(pos, newPos)[t] IN IF p = Aside THEN newPos ELSE p]
Reorders(pos, newPos) ==
    Unique(Shifted(pos, newPos)) /\ Unique(TurnedBack(pos, newPos)) /\ Unique(Reordered(pos, newPos))

\* one order after another
Then(first, second) ==
    first \cup second \cup {p[1] : p \in first} \X {p[1] : p \in second}
Only(tracks) == wanted \cap (tracks \X tracks)
Kept(out) == Only(Tracks \ out)

\* what was wanted: the track goes behind those that were before its new place
Moved(pos, newPos) ==
    LET moves  == {t \in InList : id[t] = pos}
        before == {t \in InList \ moves : IF pos < newPos THEN id[t] <= newPos ELSE id[t] < newPos}
    IN Then(Then(Only(before), Only(moves)), Kept(moves \cup before))

-----------------------------------------------------------------------------
(* Steps *)

Goto(c, step, value) ==
    /\ at' = [at EXCEPT ![c] = step]
    /\ local' = [local EXCEPT ![c] = value]
Ends(c) == Goto(c, "idle", 0)

Request(c) ==
    /\ at[c] = "idle" /\ requests < MaxRequests
    /\ requests' = requests + 1
    /\ UNCHANGED crashes

\* another request is between the two statements of renumber
Crosses(c) == \E d \in Clients \ {c} : at[d] = "rank"

\* what another request has counted is no longer so
Outdates == outdated' = {c \in Clients : at[c] = "count"}

\* a transaction writes the list and its count
Commit(c, positions, order) ==
    /\ id' = positions /\ songCount' = Counted(positions)
    /\ wanted' = order
    /\ crossed' = (crossed \/ Crosses(c))
    /\ miscounted' = FALSE
    /\ Outdates
    /\ UNCHANGED <<files, locals>>

-----------------------------------------------------------------------------
(* Requests that are a transaction *)

\* rows are deleted, and the others numbered again
RemoveTracks(c, pos) ==
    LET out == {t \in InList : id[t] = pos} IN
    /\ Request(c)
    /\ Renumbers(Without(id, out))
    /\ Commit(c, Renumbered(Without(id, out)), Kept(out))
    /\ gapped' = FALSE
    /\ UNCHANGED <<used, misled>>

\* Update of the Subsonic API: the i-th track as it is shown is removed, one is added
UpdateTracks(c, i) ==
    LET out  == {t \in InList : id[t] = i}
        rest == Renumbered(Without(id, out))
        new  == used + 1
    IN
    /\ Request(c)
    /\ i \in 1 .. Cardinality(Shown) /\ used < MaxTracks
    /\ Renumbers(Without(id, out))
    /\ Commit(c, With(rest, new, Following(rest)), Then(Kept(out), ByNumber({new})))
    /\ used' = new
    /\ gapped' = FALSE
    /\ misled' = (misled \/ (out # ShownAt(i) /\ InList \cap Absent = {} /\ Contiguous(id)))

ReorderTrack(c, pos, newPos) ==
    /\ Request(c) /\ pos # newPos
    /\ Reorders(pos, newPos)
    /\ id' = Reordered(pos, newPos) /\ wanted' = Moved(pos, newPos)
    /\ crossed' = (crossed \/ Crosses(c))
    /\ gapped' = (gapped \/ ~({pos, newPos} \subseteq Positions(id)))
    /\ UNCHANGED <<songCount, files, locals, used, outdated, miscounted, misled>>

\* Create with the id of a playlist puts another list in its place; without tracks
\* it only counts them again
Create(c, n) ==
    LET new == (used + 1) .. (used + n) IN
    /\ Request(c)
    /\ used + n <= MaxTracks
    /\ IF n = 0 THEN Commit(c, id, wanted)
       ELSE Commit(c, [t \in new |-> t - used], ByNumber(new))
    /\ used' = used + n
    /\ gapped' = (gapped /\ n = 0)
    /\ UNCHANGED misled

-----------------------------------------------------------------------------
(* Requests that are not *)

\* refreshCounters reads the count
Count(c) ==
    /\ at[c] = "stats"
    /\ Goto(c, "count", Counted(id))
    /\ UNCHANGED <<id, songCount, files, bounds, history>>

\* and writes it, stale or not
PutCount(c) ==
    /\ at[c] = "count"
    /\ songCount' = local[c]
    /\ miscounted' = (c \in outdated) /\ outdated' = outdated \ {c}
    /\ Ends(c)
    /\ UNCHANGED <<id, files, bounds, wanted, crossed, gapped, misled>>

\* AddTracks and its likes read the last position, and then insert
AddTracks(c) ==
    /\ Request(c)
    /\ Goto(c, "insert", Following(id))
    /\ UNCHANGED <<id, songCount, files, used, history>>

Insert(c) ==
    LET new == used + 1 IN
    /\ at[c] = "insert" /\ used < MaxTracks
    /\ local[c] \notin Positions(id)
    /\ id' = With(id, new, local[c])
    /\ used' = new
    /\ wanted' = Then(wanted, ByNumber({new}))
    /\ crossed' = (crossed \/ Crosses(c) \/ local[c] < Following(id))
    /\ gapped' = (gapped \/ local[c] > Following(id))
    /\ Goto(c, "stats", 0)
    /\ Outdates
    /\ UNCHANGED <<songCount, files, requests, crashes, miscounted, misled>>

\* the position has been taken
InsertFails(c) ==
    /\ at[c] = "insert" /\ local[c] \in Positions(id)
    /\ Ends(c)
    /\ UNCHANGED <<id, songCount, files, bounds, history>>

-----------------------------------------------------------------------------
(* A scan imports the file of the playlist *)

Importing == \E c \in Clients : at[c] \in {"clear", "fill"}

\* Put writes the row; a file that became empty has the tracks counted, and kept
Import(c, n) ==
    /\ Request(c) /\ ~Importing
    /\ used + n <= MaxTracks
    /\ songCount' = n
    /\ IF n = 0 THEN Goto(c, "stats", 0) ELSE Goto(c, "clear", n)
    /\ miscounted' = TRUE
    /\ UNCHANGED <<id, files, used, wanted, outdated, crossed, gapped, misled>>

Clear(c) ==
    /\ at[c] = "clear"
    /\ id' = Without(id, InList) /\ wanted' = {}
    /\ crossed' = Crosses(c) /\ gapped' = FALSE
    /\ Goto(c, "fill", local[c])
    /\ Outdates
    /\ UNCHANGED <<songCount, files, bounds, miscounted, misled>>

Fill(c) ==
    LET new == (used + 1) .. (used + local[c]) IN
    /\ at[c] = "fill" /\ used + local[c] <= MaxTracks
    /\ Positions(id) \cap 1 .. local[c] = {}
    /\ id' = [t \in InList \cup new |-> IF t \in new THEN t - used ELSE id[t]]
    /\ used' = used + local[c]
    /\ wanted' = Then(ByNumber(new), wanted)
    /\ crossed' = (crossed \/ Crosses(c))
    /\ Goto(c, "stats", 0)
    /\ Outdates
    /\ UNCHANGED <<songCount, files, requests, crashes, gapped, miscounted, misled>>

\* tracks were added meanwhile, and the file's are not
FillFails(c) ==
    /\ at[c] = "fill" /\ Positions(id) \cap 1 .. local[c] # {}
    /\ Ends(c)
    /\ UNCHANGED <<id, songCount, files, bounds, history>>

-----------------------------------------------------------------------------
(* Files vanish, and their tracks are collected *)

\* a scan finds that a file is missing
Vanish(t) ==
    /\ requests < MaxRequests /\ requests' = requests + 1
    /\ t \notin Absent
    /\ missing' = missing \cup {t}
    /\ UNCHANGED <<id, songCount, deleted, locals, used, crashes, history>>

\* DeleteMissingFiles deletes the tracks in a transaction, and then collects
DeleteMissing(c) ==
    /\ Request(c) /\ missing # {}
    /\ deleted' = deleted \cup missing /\ missing' = {}
    /\ Goto(c, "orphans", 0)
    /\ IF InList \cap missing = {} THEN UNCHANGED outdated ELSE Outdates
    /\ UNCHANGED <<id, songCount, used, wanted, crossed, gapped, miscounted, misled>>

\* removeOrphans looks for playlists to mend
FindOrphans(c) ==
    /\ at[c] = "orphans"
    /\ Goto(c, IF InList \cap deleted = {} THEN "idle" ELSE "purge", 0)
    /\ UNCHANGED <<id, songCount, files, bounds, history>>

\* its error when another request has mended this one ends the request
Purge(c) ==
    /\ at[c] = "purge"
    /\ Goto(c, IF InList \cap deleted = {} THEN "idle" ELSE "negate", 0)
    /\ id' = Without(id, deleted) /\ wanted' = Kept(deleted)
    /\ crossed' = (crossed \/ Crosses(c))
    /\ gapped' = (gapped \/ InList \cap deleted # {})
    /\ miscounted' = (miscounted \/ InList \cap deleted # {})
    /\ UNCHANGED <<songCount, files, bounds, outdated, misled>>

Negate(c) ==
    /\ at[c] = "negate"
    /\ IF Unique(Negated(id)) THEN id' = Negated(id) /\ Goto(c, "rank", 0)
       ELSE UNCHANGED id /\ Ends(c)
    /\ crossed' = (crossed \/ Crosses(c))
    /\ UNCHANGED <<songCount, files, bounds, wanted, outdated, gapped, miscounted, misled>>

Rank(c) ==
    /\ at[c] = "rank"
    /\ IF Ranks(id) THEN id' = Ranked(id) /\ gapped' = FALSE /\ Goto(c, "stats", 0)
       ELSE UNCHANGED <<id, gapped>> /\ Ends(c)
    /\ crossed' = (crossed \/ Crosses(c) \/ ~Ranks(id))
    /\ UNCHANGED <<songCount, files, bounds, wanted, outdated, miscounted, misled>>

\* a scan that found changes collects in one transaction, before it imports
ScanCollects ==
    LET out == InList \cap deleted IN
    /\ out # {} /\ ~Importing
    /\ Renumbers(Without(id, out))
    /\ id' = Renumbered(Without(id, out)) /\ wanted' = Kept(out)
    /\ songCount' = Counted(id)
    /\ crossed' = (crossed \/ \E c \in Clients : at[c] = "rank")
    /\ gapped' = FALSE /\ miscounted' = FALSE
    /\ UNCHANGED <<files, locals, bounds, outdated, misled>>

\* the process ends, and the requests with it
Crash ==
    /\ crashes < MaxCrashes /\ crashes' = crashes + 1
    /\ at' = [c \in Clients |-> "idle"] /\ local' = [c \in Clients |-> 0]
    /\ crossed' = (crossed \/ \E c \in Clients : at[c] = "rank")
    /\ miscounted' = (miscounted \/ \E c \in Clients : at[c] # "idle")
    /\ outdated' = {}
    /\ UNCHANGED <<id, songCount, files, used, requests, wanted, gapped, misled>>

Step(c) ==
    \/ Count(c) \/ PutCount(c)
    \/ Insert(c) \/ InsertFails(c)
    \/ Clear(c) \/ Fill(c) \/ FillFails(c)
    \/ FindOrphans(c) \/ Purge(c) \/ Negate(c) \/ Rank(c)

Next ==
    \/ \E c \in Clients :
        \/ \E pos \in Tracks : \/ RemoveTracks(c, pos) \/ UpdateTracks(c, pos)
                               \/ \E newPos \in Tracks : ReorderTrack(c, pos, newPos)
        \/ \E n \in 0 .. 2 : Create(c, n) \/ Import(c, n)
        \/ AddTracks(c) \/ DeleteMissing(c)
        \/ Step(c)
    \/ \E t \in InList : Vanish(t)
    \/ ScanCollects
    \/ Crash

Spec == Init /\ [][Next]_vars

-----------------------------------------------------------------------------
(* Properties *)

\* The variables have their types, and the index on positions holds.
TypeOK ==
    /\ InList \subseteq 1 .. used /\ used \in 0 .. MaxTracks
    /\ Positions(id) \subseteq Int /\ Unique(id)
    /\ songCount \in Nat /\ outdated \subseteq Clients
    /\ missing \subseteq Tracks /\ deleted \subseteq Tracks
    /\ at \in [Clients -> Steps] /\ local \in [Clients -> Int]
    /\ requests \in 0 .. MaxRequests /\ crashes \in 0 .. MaxCrashes
    /\ wanted \subseteq Tracks \X Tracks
    /\ {crossed, gapped, miscounted, misled} \subseteq BOOLEAN

AtRest == \A c \in Clients : at[c] = "idle"

\* The list of tracks is what the requests, in the order they took effect, have made
\* of it, unless two of them met where one was not in a transaction.
OrderIsWanted == AtRest /\ ~crossed => wanted = Listed(id)

\* Its positions are then 1, 2, 3 and so on, but for a move from or to a position
\* that is not there, an append that read its position before others were removed,
\* and a collection that stopped.
PositionsAreDense == AtRest /\ ~crossed => Contiguous(id) \/ gapped

\* The count is that of its tracks, but for a crash, a count that was written after
\* the list had changed, and tracks still to be collected.
CountIsRight ==
    AtRest /\ ~miscounted /\ InList \cap deleted = {} => songCount = Cardinality(InList)

\* A request that removes by index has the track at that index in the list it was
\* shown removed, unless files are missing or positions have gaps.
IndexIsRight == ~misled

PlaylistIsAsAsked == OrderIsWanted /\ PositionsAreDense /\ CountIsRight /\ IndexIsRight
=============================================================================
