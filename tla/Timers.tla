-------------------------------- MODULE Timers --------------------------------
(***************************************************************************)
(* What is put off until a timer ends, and must be done then: the watcher  *)
(* that scans after a change, the session of a player, the schedules of a  *)
(* plugin, and the delay of a failed task.                                 *)
(* They share no state here: a behaviour is one of the component that its  *)
(* initial state picks; the others rest, and none of their fair actions is *)
(* enabled.                                                                *)
(***************************************************************************)
EXTENDS Naturals, Sequences

CONSTANTS
    Folders, Others, Selective, MaxChanges, MaxOthers, MaxFailures,     \* Watcher
    Handlers, Tracks, MaxRequests,                          \* Tracker
    Ids, MaxJobs,                                           \* Scheduler
    Width, MaxBackoff, Default, MaxAttempts                 \* Backoff

VARIABLES
    component,
    dirty, events, targets, timer, loop, asked, running, todo, own, changes, others, failures,
    refused, missed, stuck,
    current, expired, track, sessions, requests, pc, held, op, evicted,
    prQueue, prSignal, batch, delivered, again, superseded, raced,
    schedules, id, recurring, jobs, armed, stopping, firing, unloaded, called, cancelled, lost,
    late, config, attempt, backoff

Watcher == INSTANCE ScanWatcher

Tracker == INSTANCE PlaySessions

Scheduler == INSTANCE SchedulerService

Backoff == INSTANCE TaskBackoff

ASSUME TimersAssumption ==
    /\ Watcher!WatcherAssumption /\ Tracker!SessionsAssumption
    /\ Scheduler!SchedulerAssumption /\ Backoff!BackoffAssumption

watcherVars == <<dirty, events, targets, timer, loop, asked, running, todo, own, changes, others,
                 failures, refused, missed, stuck>>
trackerVars == <<current, expired, track, sessions, requests, pc, held, op, evicted,
                 prQueue, prSignal, batch, delivered, again, superseded, raced>>
schedulerVars == <<schedules, id, recurring, jobs, armed, stopping, firing, unloaded,
                   called, cancelled, lost, late>>
backoffVars == <<config, attempt, backoff>>
vars == <<component, watcherVars, trackerVars, schedulerVars, backoffVars>>

\* a component that rests is in one initial state
Init ==
    /\ component \in {"watcher", "tracker", "scheduler", "backoff"}
    /\ Watcher!Init /\ Tracker!Init /\ Scheduler!Init /\ Backoff!Init
    /\ component # "backoff" => config = 1

Next ==
    /\ UNCHANGED component
    /\ \/ /\ component = "watcher" /\ Watcher!Next
          /\ UNCHANGED <<trackerVars, schedulerVars, backoffVars>>
       \/ /\ component = "tracker" /\ Tracker!Next
          /\ UNCHANGED <<watcherVars, schedulerVars, backoffVars>>
       \/ /\ component = "scheduler" /\ Scheduler!Next
          /\ UNCHANGED <<watcherVars, trackerVars, backoffVars>>
       \/ /\ component = "backoff" /\ Backoff!Next
          /\ UNCHANGED <<watcherVars, trackerVars, schedulerVars>>

Spec ==
    /\ Init /\ [][Next]_vars
    /\ Watcher!Fairness /\ Tracker!Fairness /\ Scheduler!Fairness

-----------------------------------------------------------------------------
\* The variables of the component that runs have their types.
TypeOK ==
    /\ component = "watcher" => Watcher!TypeOK
    /\ component = "tracker" => Tracker!TypeOK
    /\ component = "scheduler" => Scheduler!TypeOK
    /\ component = "backoff" => Backoff!TypeOK

\* ScanWatcher: a change is scanned in the end, however timers and scans meet and
\* whatever scans of others fail, unless the scan it was asked of refused or left it.
EventuallyScanned == Watcher!EventuallyScanned

\* PlaySessions: scrobblers learn of the end of every session.
SessionsAreClosed == Tracker!SessionsAreClosed

\* PlaySessions, SchedulerService and TaskBackoff: nothing is reported of a session
\* after its end, what may still fire can be cancelled, and the delays of a task
\* double up to their limit.
TimersAreRight ==
    Tracker!EndedStaysEnded /\ Scheduler!ArmedIsRegistered /\ Backoff!DelaysDouble

\* SchedulerService: a schedule is called back in the end.
EventuallyCalled == Scheduler!EventuallyCalled
=============================================================================
