------------------------------ MODULE Listening ------------------------------
(***************************************************************************)
(* What is kept of what users play: the buffer of plays to submit, and a   *)
(* playlist.                                                               *)
(* They share no state here: a behaviour is one of the component that its  *)
(* initial state picks, while the other rests.                             *)
(***************************************************************************)
EXTENDS BufferedScrobbler

CONSTANTS Clients, MaxTracks, MaxRequests, MaxCrashes      \* Lists

VARIABLES
    component,
    id, songCount, missing, deleted, at, local, used, requests, crashes,
    wanted, outdated, crossed, gapped, miscounted, misled

Lists == INSTANCE Playlists

ASSUME ListsAssumption == Lists!PlaylistsAssumption

listVars == <<id, songCount, missing, deleted, at, local, used, requests, crashes, wanted,
              outdated, crossed, gapped, miscounted, misled>>

ListeningInit ==
    /\ component \in {"scrobbler", "lists"}
    /\ Init /\ Lists!Init

ListeningNext ==
    /\ UNCHANGED component
    /\ \/ component = "scrobbler" /\ Next /\ UNCHANGED listVars
       \/ component = "lists" /\ Lists!Next /\ UNCHANGED vars

\* nothing is fair to the requests on a playlist
ListeningSpec ==
    ListeningInit /\ [][ListeningNext]_<<component, vars, listVars>> /\ Fairness

-----------------------------------------------------------------------------
(* Properties *)

\* The variables of both have their types, and no two tracks of a playlist one position.
TypesOK == TypeOK /\ Lists!TypeOK

\* Whatever requests, scans, deletions and crashes meet, a playlist has its tracks in
\* the order they ask for, at positions 1, 2, 3 and so on, counts them right, and has
\* the track removed that the index shows, but for the exceptions Playlists names.
PlaylistIsAsAsked == Lists!PlaylistIsAsAsked
=============================================================================
