--------------------------- MODULE SchedulerService ---------------------------
(***************************************************************************)
(* The schedules of one plugin (plugins/host_scheduler.go): one-time and   *)
(* recurring ones, cancelled by their id, fired by timers and by the cron  *)
(* scheduler, and given up when the plugin is unloaded.                    *)
(*                                                                         *)
(* A job is a timer or a cron entry; the k-th one made is job k.  The map  *)
(* holds one job for an id.  What holds the lock is one step; a job that   *)
(* was taken out of the map is stopped in a later one.                     *)
(***************************************************************************)
EXTENDS Naturals, FiniteSets

CONSTANTS
    Ids,
    MaxJobs        \* bound: schedules made

\* what the constants satisfy
SchedulerAssumption == Ids # {} /\ MaxJobs \in Nat

VARIABLES
    schedules,          \* id |-> its job (None: no entry)
    id, recurring,      \* of a job
    jobs,               \* jobs made so far
    armed,              \* jobs whose timer runs or whose cron entry exists
    stopping,           \* jobs out of the map that are still to be stopped
    firing,             \* where a job that has fired is
    unloaded,           \* the plugin has left the manager's map, and Close ran
    \* history: jobs whose callback was called; cancelled or closed ones; jobs
    \* whose entry the clean-up of another job deleted; jobs made after Close
    called, cancelled, lost, late

jobVars == <<id, recurring, jobs>>
history == <<called, cancelled, lost, late>>
vars    == <<schedules, jobVars, armed, stopping, firing, unloaded, history>>

None == 0
Jobs == 1 .. MaxJobs
Made == 1 .. jobs
Stages == {"no", "lookup", "calling", "cleanup"}

Init ==
    /\ schedules = [i \in Ids |-> None]
    /\ id = [j \in Jobs |-> CHOOSE i \in Ids : TRUE] /\ recurring = {} /\ jobs = 0
    /\ armed = {} /\ stopping = {}
    /\ firing = [j \in Jobs |-> "no"]
    /\ unloaded = FALSE
    /\ called = {} /\ cancelled = {} /\ lost = {} /\ late = {}

-----------------------------------------------------------------------------
(* Calls of the plugin; one that runs when the plugin is unloaded goes on *)

Schedule(i) ==
    /\ schedules[i] = None /\ jobs < MaxJobs
    /\ jobs' = jobs + 1
    /\ id' = [id EXCEPT ![jobs'] = i]
    /\ schedules' = [schedules EXCEPT ![i] = jobs']
    /\ armed' = armed \cup {jobs'}
    /\ late' = IF unloaded THEN late \cup {jobs'} ELSE late
    /\ UNCHANGED <<stopping, firing, unloaded, called, cancelled, lost>>

ScheduleOneTime(i)   == Schedule(i) /\ UNCHANGED recurring
ScheduleRecurring(i) == Schedule(i) /\ recurring' = recurring \cup {jobs'}

CancelSchedule(i) ==
    /\ schedules[i] # None
    /\ schedules' = [schedules EXCEPT ![i] = None]
    /\ stopping' = stopping \cup {schedules[i]}
    /\ cancelled' = cancelled \cup {schedules[i]}
    /\ UNCHANGED <<jobVars, armed, firing, unloaded, called, lost, late>>

Stop(j) ==
    /\ j \in stopping
    /\ stopping' = stopping \ {j}
    /\ armed' = armed \ {j}
    /\ UNCHANGED <<schedules, jobVars, firing, unloaded, history>>

MutClosed == {j \in Made : schedules[id[j]] = j /\ j \notin recurring}   \* mutant: only timers
Closed == {schedules[i] : i \in Ids} \ {None}

Close ==
    /\ ~unloaded
    /\ unloaded' = TRUE
    /\ schedules' = [i \in Ids |-> None]
    /\ stopping' = stopping \cup Closed
    /\ cancelled' = cancelled \cup Closed
    /\ UNCHANGED <<jobVars, armed, firing, called, lost, late>>

-----------------------------------------------------------------------------
(* A job that fires *)

MutUponFiring(j) ==    \* mutant: the entry of a one-time job is deleted before the callback
    IF j \in recurring THEN schedules ELSE [schedules EXCEPT ![id[j]] = None]
UponFiring(j) == schedules

\* a recurring job may fire again when its last callback has come to its end
Fire(j) ==
    /\ j \in armed /\ firing[j] = "no"
    /\ firing' = [firing EXCEPT ![j] = "lookup"]
    /\ schedules' = UponFiring(j)
    /\ armed' = IF j \in recurring THEN armed ELSE armed \ {j}
    /\ UNCHANGED <<jobVars, stopping, unloaded, history>>

After(j) == IF j \in recurring THEN "no" ELSE "cleanup"

Found(j) == schedules[id[j]] # None /\ ~unloaded

\* the entry of the id, whichever job it is of by now
Lookup(j) ==
    /\ firing[j] = "lookup"
    /\ firing' = [firing EXCEPT ![j] = IF Found(j) THEN "calling" ELSE After(j)]
    /\ called' = IF Found(j) THEN called \cup {schedules[id[j]]} ELSE called
    /\ UNCHANGED <<schedules, jobVars, armed, stopping, unloaded, cancelled, lost, late>>

\* what the plugin asks for meanwhile are actions of their own
CallbackEnds(j) ==
    /\ firing[j] = "calling"
    /\ firing' = [firing EXCEPT ![j] = After(j)]
    /\ UNCHANGED <<schedules, jobVars, armed, stopping, unloaded, history>>

Cleanup(j) ==
    /\ firing[j] = "cleanup"
    /\ firing' = [firing EXCEPT ![j] = "no"]
    /\ schedules' = [schedules EXCEPT ![id[j]] = None]
    /\ lost' = lost \cup ({schedules[id[j]]} \ {None, j})
    /\ UNCHANGED <<jobVars, armed, stopping, unloaded, called, cancelled, late>>

-----------------------------------------------------------------------------
Run(j) == Fire(j) \/ Lookup(j) \/ CallbackEnds(j) \/ Cleanup(j)

Next ==
    \/ \E i \in Ids : ScheduleOneTime(i) \/ ScheduleRecurring(i) \/ CancelSchedule(i)
    \/ \E j \in Jobs : Stop(j) \/ Run(j)
    \/ Close

Spec == Init /\ [][Next]_vars

\* Timers end, callbacks return, and calls that have begun to cancel go on.
Fairness == \A j \in Jobs : WF_vars(Run(j)) /\ WF_vars(Stop(j))

-----------------------------------------------------------------------------
(* Properties *)

\* The variables have their types, and an entry is of a job of its id.
TypeOK ==
    /\ jobs \in 0 .. MaxJobs
    /\ schedules \in [Ids -> Made \cup {None}]
    /\ \A i \in Ids : schedules[i] # None => id[schedules[i]] = i
    /\ id \in [Jobs -> Ids] /\ recurring \subseteq Made
    /\ armed \subseteq Made /\ stopping \subseteq Made
    /\ firing \in [Jobs -> Stages] /\ \A j \in Jobs : firing[j] # "no" => j \in Made
    /\ unloaded \in BOOLEAN
    /\ called \cup cancelled \cup lost \cup late \subseteq Made

\* A timer or cron entry can be reached: it is the one the map has for its id,
\* so that CancelSchedule and Close stop it, or it is about to be stopped,
\* unless the clean-up of an earlier job of the same id deleted its entry.
ArmedIsRegistered ==
    \A j \in armed : schedules[id[j]] = j \/ j \in stopping \/ j \in lost

\* A schedule is called back in the end, unless it was cancelled, the plugin
\* was unloaded, or the clean-up of an earlier job of the same id deleted it.
EventuallyCalled ==
    \A j \in Jobs : j \in Made ~> j \in called \cup cancelled \cup lost \cup late \/ unloaded
=============================================================================
