------------------------------- MODULE Jukebox -------------------------------
(***************************************************************************)
(* The jukebox: a playback device (core/playback/device.go), its queue     *)
(* (queue.go) and the mpv processes it plays with (mpv/track.go).          *)
(*                                                                         *)
(* Nothing is locked.  A handler serves one request at a time; the         *)
(* goroutine trackSwitcher takes the signals of tracks that have ended.    *)
(* Either may spend seconds in NewTrack, waiting for the socket of the mpv *)
(* it has started, while the other goes on: that is where a step of theirs *)
(* is split.  The short calls to an mpv that runs are part of the step     *)
(* that makes them.  With the default command line mpv plays at once.      *)
(***************************************************************************)
EXTENDS Integers, FiniteSets, SequencesExt

CONSTANTS
    Tracks,        \* ids of media files
    MaxItems,      \* bound: tracks in the queue
    MaxPlayers     \* bound: mpv processes ever started

\* what the constants satisfy
JukeboxAssumption == MaxItems \in Nat /\ MaxPlayers \in Nat

VARIABLES
    items, index,       \* PlaybackQueue: Items and Index, which is -1 for none
    active,             \* ActiveTrack: a player, 0 for nil
    players,            \* the mpv processes, in the order they were started
    starting,           \* the player an actor waits for in NewTrack, 0 for none
    intent,             \* what the handler does once its player has started
    switching,          \* has the trackSwitcher goroutine been started?
    overlapped,         \* has a request met a switch of tracks?
    detached            \* has the item of the active track been removed?

queueVars == <<items, index>>
vars == <<items, index, active, players, starting, intent, switching, overlapped, detached>>

Actors  == {"handler", "switcher"}
Intents == {"start", "resume", "stay"}

\* An mpv that plays, is paused or is gone; whether NewTrack returned it, Close was
\* called on it, and the goroutine that watches its socket waits on PlaybackDone.
Player == [track : Tracks, mode : {"playing", "paused", "gone"},
           returned : BOOLEAN, closed : BOOLEAN, signals : BOOLEAN]

Init ==
    /\ items = <<>> /\ index = -1
    /\ active = 0 /\ players = <<>>
    /\ starting = [a \in Actors |-> 0]
    /\ intent = "stay"
    /\ switching = FALSE /\ overlapped = FALSE /\ detached = FALSE

-----------------------------------------------------------------------------
(* The queue: positions count from 0 *)

At(q, i) == IF i \in 0..(Len(q) - 1) THEN {q[i + 1]} ELSE {}
Current == At(items, index)

Smaller(x, y) == IF x < y THEN x ELSE y
Larger(x, y)  == IF x > y THEN x ELSE y

\* a position brought into the queue; 0 for any in an empty one
SetIndex(i) == Larger(0, Smaller(i, Len(items) - 1))

IsAtLastElement == index + 1 >= Len(items)

\* MUTANT of IndexByID: the index stays what it is
MutIndexByID(q) == Smaller(index, Len(q) - 1)

\* where the first item with the current id is in queue q, -1 for nowhere
IndexByID(q) ==
    LET found == {i \in 0..(Len(q) - 1) : At(q, i) = Current}
    IN  IF found = {} THEN -1 ELSE CHOOSE i \in found : \A j \in found : i <= j

\* the index after items have been added
AddedIndex == IF index = -1 THEN 0 ELSE index

-----------------------------------------------------------------------------
(* mpv *)

Running(p) == players[p].mode # "gone"
IsPlaying  == active # 0 /\ players[active].mode = "playing"

SetMode(p, m) == [players EXCEPT ![p].mode = IF Running(p) THEN m ELSE "gone"]

\* a signal that is under way is not taken back
Close(p) == [players EXCEPT ![p].mode = "gone", ![p].closed = TRUE]

\* MUTANT of CloseActive: the track that is replaced goes on
MutCloseActive == players

CloseActive == IF active # 0 THEN Close(active) ELSE players

\* the goroutine that watches the socket signals the end unless Close was called
PlayerEnds(p) ==
    /\ Running(p)
    /\ players' = [players EXCEPT ![p].mode = "gone", ![p].signals = players[p].returned]
    /\ UNCHANGED <<queueVars, active, starting, intent, switching, overlapped, detached>>

Begin(t, before) ==
    Append(before, [track |-> t, mode |-> "playing", returned |-> FALSE,
                    closed |-> FALSE, signals |-> FALSE])

\* switchActiveTrackByIndex up to the start of mpv, after which the actor waits; with
\* no current track, or if mpv does not start, it is over
Switch(a, i, before) ==
    /\ index' = SetIndex(i)
    /\ active' = 0 /\ detached' = FALSE
    /\ \/ /\ players' = before
          /\ starting' = starting
       \/ /\ Len(players) < MaxPlayers
          /\ \E t \in At(items, SetIndex(i)) : players' = Begin(t, before)
          /\ starting' = [starting EXCEPT ![a] = Len(players) + 1]

\* the socket has not come, or the process has gone: NewTrack fails, and leaves alone
\* what still runs
NewTrackFails(a) ==
    /\ starting[a] # 0
    /\ starting' = [starting EXCEPT ![a] = 0]
    /\ UNCHANGED <<queueVars, active, players, intent, switching, overlapped, detached>>

\* The new player becomes the active one.  After a skip that finds the last one playing
\* the handler calls Start, unless the position could not be set.
NewTrack(a) ==
    /\ starting[a] # 0 /\ Running(starting[a])
    /\ active' = starting[a] /\ detached' = FALSE
    /\ players' = [players EXCEPT ![starting[a]].returned = TRUE]
    /\ starting' = [starting EXCEPT ![a] = 0]
    /\ switching' \in {switching, switching \/ (a = "handler" /\ intent = "resume")}
    /\ UNCHANGED <<queueVars, intent, overlapped>>

-----------------------------------------------------------------------------
(* The requests *)

\* a request is taken when the handler is free, whatever the switcher does
Request ==
    /\ starting["handler"] = 0
    /\ overlapped' = (overlapped \/ starting["switcher"] # 0)

Add(t) ==
    /\ Request
    /\ Len(items) < MaxItems
    /\ items' = Append(items, t) /\ index' = AddedIndex
    /\ UNCHANGED <<active, players, starting, intent, switching, detached>>

Clear ==
    /\ Request
    /\ items' = <<>> /\ index' = -1
    /\ active' = 0 /\ players' = CloseActive /\ detached' = FALSE
    /\ UNCHANGED <<starting, intent, switching>>

\* Clear, then Add
Set(t) ==
    /\ Request
    /\ items' = <<t>> /\ index' = 0
    /\ active' = 0 /\ players' = CloseActive /\ detached' = FALSE
    /\ UNCHANGED <<starting, intent, switching>>

\* the playing track is paused when its item goes, but stays the active one
RemoveItem(i) ==
    LET rest == RemoveAt(items, i + 1)
    IN  /\ Request
        /\ players' = IF IsPlaying /\ index = i THEN SetMode(active, "paused") ELSE players
        /\ items' = rest /\ index' = IndexByID(rest)
        /\ detached' = (detached \/ (active # 0 /\ IndexByID(rest) = -1))
        /\ UNCHANGED <<active, starting, intent, switching>>

Shuffle ==
    /\ Request
    /\ Len(items) > 1
    /\ \E f \in {g \in [1..Len(items) -> 1..Len(items)] : IsInjective(g)} :
          items' = [i \in 1..Len(items) |-> items[f[i]]]
    /\ index' = IndexByID(items')
    /\ UNCHANGED <<active, players, starting, intent, switching, detached>>

Stop ==
    /\ Request
    /\ active # 0 /\ players' = SetMode(active, "paused")
    /\ UNCHANGED <<queueVars, active, starting, intent, switching, detached>>

StartActive ==
    /\ Request
    /\ active # 0 /\ players' = SetMode(active, "playing")
    /\ switching' = TRUE
    /\ UNCHANGED <<queueVars, active, starting, intent, detached>>

StartCurrent ==
    /\ Request
    /\ active = 0 /\ items # <<>>
    /\ Switch("handler", index, players)
    /\ intent' = "start" /\ switching' = TRUE
    /\ UNCHANGED items

\* within the active track; it stays paused if the position could not be set
SkipWithin ==
    /\ Request
    /\ active # 0
    /\ \/ IsPlaying /\ players' = SetMode(active, "paused") /\ UNCHANGED switching
       \/ players' = players /\ switching' = (switching \/ IsPlaying)
    /\ UNCHANGED <<queueVars, active, starting, intent, detached>>

SkipTo(i) ==
    /\ Request
    /\ active = 0 \/ i # index
    /\ Switch("handler", i, CloseActive)
    /\ intent' = IF IsPlaying THEN "resume" ELSE "stay"
    /\ UNCHANGED <<items, switching>>

-----------------------------------------------------------------------------
\* trackSwitcher takes a signal, whichever track it is of, and closes the active one
Receive(p) ==
    /\ switching /\ starting["switcher"] = 0
    /\ players[p].signals
    /\ overlapped' = (overlapped \/ starting["handler"] # 0)
    /\ LET before == [CloseActive EXCEPT ![p].signals = FALSE]
       IN  \/ /\ IsAtLastElement
              /\ active' = 0 /\ players' = before /\ detached' = FALSE
              /\ UNCHANGED <<index, starting>>
           \/ ~IsAtLastElement /\ Switch("switcher", index + 1, before)
    /\ UNCHANGED <<items, intent, switching>>

Next ==
    \/ \E t \in Tracks : Add(t) \/ Set(t)
    \/ \E i \in 0..(Len(items) - 1) : RemoveItem(i) \/ SkipTo(i)
    \/ Clear \/ Shuffle \/ Stop \/ StartActive \/ StartCurrent \/ SkipWithin
    \/ \E a \in Actors : NewTrack(a) \/ NewTrackFails(a)
    \/ \E p \in DOMAIN players : PlayerEnds(p) \/ Receive(p)

Spec == Init /\ [][Next]_vars

-----------------------------------------------------------------------------
\* The variables have their types, and the index is within the queue.
TypeOK ==
    /\ items \in Seq(Tracks) /\ index \in -1..Larger(0, Len(items) - 1)
    /\ players \in Seq(Player) /\ active \in 0..Len(players)
    /\ starting \in [Actors -> 0..Len(players)]
    /\ intent \in Intents
    /\ {switching, overlapped, detached} \subseteq BOOLEAN

\* The track that plays is the one the queue shows as current, unless its item was
\* removed or a request met a switch of tracks.
ActiveIsCurrent ==
    active # 0 /\ ~detached /\ ~overlapped => Current = {players[active].track}

\* Nothing plays beside the active track unless a request met a switch of tracks, or
\* NewTrack gave up on an mpv that had started: a track that is replaced has been closed.
OnePlayer ==
    ~overlapped => \A p \in DOMAIN players :
        players[p].returned /\ Running(p) => p = active

\* A signal that trackSwitcher takes for the end of the active track is of that track,
\* or of one that a request closed after its end.
SignalsAreTimely ==
    ~overlapped => \A p \in DOMAIN players :
        players[p].signals => p = active \/ players[p].closed
=============================================================================
