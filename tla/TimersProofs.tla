----------------------------- MODULE TimersProofs -----------------------------
(***************************************************************************)
(* Proofs of Timers: types, and that timers are right, for any folders,    *)
(* requests, tracks, schedules and attempts, and integers of any width.    *)
(*                                                                         *)
(* The components share no variable, so each has an invariant of its own,  *)
(* which a step of another leaves alone.                                   *)
(***************************************************************************)
EXTENDS Timers, WellFoundedInduction, TLAPS

-----------------------------------------------------------------------------
(* The watcher *)

LEMMA WatcherFacts ==
  Others \subseteq SUBSET Folders /\ MaxChanges \in Nat /\ MaxOthers \in Nat /\ MaxFailures \in Nat
BY TimersAssumption DEF Watcher!WatcherAssumption

LEMMA InitWatcher == Watcher!Init => Watcher!TypeOK
<1> SUFFICES ASSUME Watcher!Init PROVE Watcher!TypeOK
  OBVIOUS
<1>1. changes \in 0 .. MaxChanges /\ others \in 0 .. MaxOthers /\ failures \in 0 .. MaxFailures
  BY WatcherFacts DEF Watcher!Init
<1>2. /\ running \in BOOLEAN /\ stuck \in BOOLEAN /\ (todo # {} => running)
      /\ own \in BOOLEAN /\ (own => running)
  BY DEF Watcher!Init
<1> QED
  BY <1>1, <1>2 DEF Watcher!Init, Watcher!TypeOK

LEMMA NextWatcher ==
  ASSUME Watcher!TypeOK, Watcher!Next
  PROVE  Watcher!TypeOK'
<1> USE WatcherFacts DEF Watcher!TypeOK, Watcher!scan, Watcher!bounds, Watcher!excuses
<1>1. CASE Watcher!Loop
  <2>1. ASSUME NEW f \in Folders, Watcher!Notified(f)
        PROVE  Watcher!TypeOK'
    BY <2>1 DEF Watcher!Notified
  <2>2. CASE Watcher!TimerEnds
    BY <2>2 DEF Watcher!TimerEnds
  <2>3. CASE Watcher!Launch
    BY <2>3 DEF Watcher!Launch, Watcher!Request
  <2>4. CASE Watcher!AlreadyScanning
    BY <2>4 DEF Watcher!AlreadyScanning, Watcher!Retry, Watcher!Kept
  <2>5. CASE Watcher!StatusFails
    BY <2>5 DEF Watcher!StatusFails
  <2> QED
    BY <1>1, <2>1, <2>2, <2>3, <2>4, <2>5 DEF Watcher!Loop
<1>2. ASSUME NEW request \in asked, Watcher!Begin(request)
      PROVE  Watcher!TypeOK'
  <2>1. Watcher!Wanted(request) \subseteq Folders
    BY DEF Watcher!Wanted
  <2>2. CASE running
    <3>1. running' = running /\ todo' = todo /\ own' = own
      BY <1>2, <2>2 DEF Watcher!Begin
    <3> QED
      BY <1>2, <2>1, <2>2, <3>1 DEF Watcher!Begin
  <2>3. CASE ~running
    <3>1. /\ running' \in BOOLEAN /\ own' \in BOOLEAN /\ (own' => running')
          /\ (todo' # {} => running')
      BY <1>2, <2>3 DEF Watcher!Begin
    <3> QED
      BY <1>2, <2>1, <2>3, <3>1 DEF Watcher!Begin
  <2> QED
    BY <2>2, <2>3
<1>3. ASSUME NEW request \in Others, Watcher!BeginOther(request)
      PROVE  Watcher!TypeOK'
  <2>1. Watcher!Wanted(request) \subseteq Folders
    BY DEF Watcher!Wanted
  <2> QED
    BY <1>3, <2>1 DEF Watcher!BeginOther
<1>4. ASSUME NEW f \in Folders, Watcher!Visit(f) \/ Watcher!Change(f)
      PROVE  Watcher!TypeOK'
  BY <1>4 DEF Watcher!Visit, Watcher!Change
<1>5. CASE Watcher!End
  BY <1>5 DEF Watcher!End, Watcher!Finished
<1>6. ASSUME NEW left \in SUBSET Folders, Watcher!Leave(left)
      PROVE  missed' \subseteq Folders /\ failures' \in 0 .. MaxFailures
  <2>1. missed' \subseteq missed \cup left
    BY <1>6 DEF Watcher!Leave
  <2>2. failures' = failures + 1 /\ failures < MaxFailures
    BY <1>6 DEF Watcher!Leave
  <2> QED
    BY <2>1, <2>2
<1>7. ASSUME NEW f \in Folders, Watcher!PassOver(f)
      PROVE  Watcher!TypeOK'
  <2>1. Watcher!Leave({f})
    BY <1>7 DEF Watcher!PassOver
  <2> QED
    BY <1>7, <2>1, <1>6 DEF Watcher!PassOver, Watcher!Leave
<1>8. CASE Watcher!EndOnError
  <2>1. Watcher!Leave(todo)
    BY <1>8 DEF Watcher!EndOnError
  <2> QED
    BY <1>8, <2>1, <1>6 DEF Watcher!EndOnError, Watcher!Leave
<1> QED
  BY <1>1, <1>2, <1>3, <1>4, <1>5, <1>7, <1>8 DEF Watcher!Next, Watcher!Scan

-----------------------------------------------------------------------------
(* Sessions of a player *)

AtReport(h) == pc[h] \in {"store", "report"}

\* Of a session on which nothing has raced: one request at most holds it; one that has still
\* to report it holds a session that has not ended; the cache calls back about a session
\* nobody has; and one that has ended is only in the map while its request removes it.
Unraced(s) ==
    /\ \A h, g \in Handlers : held[h] = s /\ held[g] = s => h = g
    /\ \A h \in Handlers : held[h] = s /\ AtReport(h) => s \notin Tracker!Ended
    /\ s \in evicted => /\ s # current /\ s \notin Tracker!Ended
                        /\ \A h \in Handlers : held[h] # s
    /\ s = current /\ s \in Tracker!Ended => \E h \in Handlers : held[h] = s

TrackerInv ==
    /\ Tracker!TypeOK /\ sessions <= requests
    /\ \A s \in 1 .. sessions \ raced : Unraced(s)
    /\ Tracker!EndedStaysEnded

LEMMA TrackerFacts == MaxRequests \in Nat /\ Tracker!None = 0
BY TimersAssumption DEF Tracker!SessionsAssumption, Tracker!None

LEMMA InitTracker == Tracker!Init => TrackerInv
<1> SUFFICES ASSUME Tracker!Init PROVE TrackerInv
  OBVIOUS
<1> USE TrackerFacts DEF Tracker!Init
<1>1. track \in Seq(Tracks) /\ Len(track) = sessions /\ 1 .. sessions = {}
  OBVIOUS
<1>2. Tracker!Ended = {}
  BY DEF Tracker!Ended
<1>3. /\ held \in [Handlers -> 0 .. sessions] /\ op \in [Handlers -> {"playing", "stopped"}]
      /\ pc \in [Handlers -> {"idle", "store", "report", "remove"}]
  OBVIOUS
<1>4. expired \in BOOLEAN /\ (expired => current # 0) /\ prSignal \in BOOLEAN
  OBVIOUS
<1>5. Tracker!TypeOK
  BY <1>1, <1>2, <1>3, <1>4 DEF Tracker!TypeOK
<1> QED
  BY <1>1, <1>5 DEF TrackerInv, Tracker!EndedStaysEnded

LEMMA NextTracker ==
  ASSUME TrackerInv, Tracker!Next
  PROVE  TrackerInv'
<1> USE TrackerFacts
    DEF TrackerInv, Tracker!TypeOK, Tracker!EndedStaysEnded, Tracker!Ended, AtReport,
        Tracker!playMap, Tracker!handler, Tracker!queue, Tracker!history, Tracker!HeldBy,
        Tracker!Goto, Tracker!Live
<1>1. ASSUME NEW h \in Handlers, NEW t \in Tracks, Tracker!Starting(h, t)
      PROVE  TrackerInv'
  <2>1. /\ sessions' = sessions + 1 /\ requests' = requests + 1 /\ requests < MaxRequests
        /\ track' = Append(track, t) /\ pc[h] = "idle" /\ pc' = [pc EXCEPT ![h] = "store"]
        /\ held' = [held EXCEPT ![h] = sessions'] /\ op' = [op EXCEPT ![h] = "playing"]
        /\ UNCHANGED <<current, expired, evicted, prQueue, prSignal, batch, delivered,
                       again, superseded, raced>>
    BY <1>1 DEF Tracker!Starting, Tracker!NewSession
  <2>2. Tracker!TypeOK' /\ (sessions <= requests)'
    BY <2>1
  <2>3. ASSUME NEW s \in 1 .. sessions' \ raced' PROVE Unraced(s)'
    BY <2>1, <2>3 DEF Unraced
  <2> QED
    BY <2>1, <2>2, <2>3
<1>2. ASSUME NEW h \in Handlers, NEW t \in Tracks, Tracker!Playing(h, t)
      PROVE  TrackerInv'
  <2>1. /\ requests' = requests + 1 /\ requests < MaxRequests
        /\ pc[h] = "idle" /\ pc' = [pc EXCEPT ![h] = "store"]
        /\ op' = [op EXCEPT ![h] = "playing"]
        /\ held' = [held EXCEPT ![h] = held'[h]]
        /\ \/ /\ sessions' = sessions /\ track' = track
              /\ held'[h] = current /\ current # 0 /\ ~expired
           \/ /\ sessions' = sessions + 1 /\ track' = Append(track, t)
              /\ held'[h] = sessions'
        /\ raced' = raced \cup ({held'[h]} \cap ({held[g] : g \in Handlers} \ {0}))
        /\ UNCHANGED <<current, expired, evicted, prQueue, prSignal, batch, delivered,
                       again, superseded>>
    BY <1>2 DEF Tracker!Playing, Tracker!NewSession, Tracker!SameTrack, Tracker!Overlap
  <2>2. Tracker!TypeOK' /\ (sessions <= requests)'
    <3>1. /\ held'[h] \in 0 .. sessions' /\ 0 .. sessions \subseteq 0 .. sessions'
          /\ 1 .. sessions \subseteq 1 .. sessions'
      <4>1. sessions \in Nat /\ sessions' \in {sessions, sessions + 1} /\ current \in 0 .. sessions
        BY <2>1
      <4>2. held'[h] = sessions' \/ held'[h] = current
        BY <2>1
      <4> QED
        BY <4>1, <4>2
    <3>2. /\ sessions' \in 0 .. MaxRequests /\ (sessions <= requests)' /\ requests' \in 0 .. MaxRequests
          /\ track' \in Seq(Tracks) /\ Len(track') = sessions'
      <4>1. CASE sessions' = sessions /\ track' = track
        BY <2>1, <4>1
      <4>2. CASE sessions' = sessions + 1 /\ track' = Append(track, t)
        BY <2>1, <4>2
      <4> QED
        BY <2>1, <4>1, <4>2
    <3>3. held' \in [Handlers -> 0 .. sessions'] /\ raced' \subseteq 1 .. sessions'
      BY <2>1, <3>1, <3>2
    <3>4. /\ pc' \in [Handlers -> {"idle", "store", "report", "remove"}]
          /\ op' \in [Handlers -> {"playing", "stopped"}]
          /\ \A g \in Handlers : pc'[g] = "idle" => held'[g] = 0
      BY <2>1
    <3>5. current' \in 0 .. sessions' /\ evicted' \subseteq 1 .. sessions'
      BY <2>1, <3>1
    <3>6. (Tracker!Ended \cup again \cup superseded \cup raced)' \subseteq 1 .. sessions'
      BY <2>1, <3>1, <3>3
    <3> QED
      BY <2>1, <3>1, <3>2, <3>3, <3>4, <3>5, <3>6
  <2>3. ASSUME NEW s \in 1 .. sessions' \ raced' PROVE Unraced(s)'
    BY <2>1, <2>3 DEF Unraced
  <2> QED
    BY <2>1, <2>2, <2>3
<1>3. ASSUME NEW h \in Handlers, Tracker!Stopped(h)
      PROVE  TrackerInv'
  <2>1. /\ requests' = requests + 1 /\ requests < MaxRequests
        /\ pc[h] = "idle" /\ pc' = [pc EXCEPT ![h] = "report"]
        /\ op' = [op EXCEPT ![h] = "stopped"]
        /\ held' = [held EXCEPT ![h] = held'[h]]
        /\ held'[h] \in {0, current}
        /\ raced' = raced \cup ({held'[h]} \cap ({held[g] : g \in Handlers} \ {0}))
        /\ UNCHANGED <<current, expired, sessions, track, evicted, prQueue, prSignal, batch,
                       delivered, again, superseded>>
    BY <1>3 DEF Tracker!Stopped, Tracker!Overlap
  <2>2. Tracker!TypeOK' /\ (sessions <= requests)'
    BY <2>1
  <2>3. ASSUME NEW s \in 1 .. sessions' \ raced' PROVE Unraced(s)'
    BY <2>1, <2>3 DEF Unraced
  <2> QED
    BY <2>1, <2>2, <2>3
<1>4. ASSUME NEW h \in Handlers, Tracker!Store(h)
      PROVE  TrackerInv'
  <2>0. Tracker!Lost(h) \subseteq 1 .. sessions /\ current' \in 0 .. sessions
    BY <1>4 DEF Tracker!Store, Tracker!Lost
  <2>1. Tracker!TypeOK' /\ (sessions <= requests)'
    <3>1. held[h] # 0 \/ (held[h] = 0 /\ ~expired')
      BY <1>4 DEF Tracker!Store
    <3> QED
      BY <1>4, <2>0, <3>1 DEF Tracker!Store
  <2>2. ASSUME NEW s \in 1 .. sessions' \ raced' PROVE Unraced(s)'
    BY <1>4, <2>2 DEF Unraced, Tracker!Store, Tracker!Lost, Tracker!HeldElsewhere
  <2> QED
    BY <1>4, <2>1, <2>2 DEF Tracker!Store
<1>5. ASSUME NEW h \in Handlers, Tracker!Report(h)
      PROVE  TrackerInv'
  <2>1. Tracker!TypeOK' /\ (sessions <= requests)'
    BY <1>5 DEF Tracker!Report, Tracker!Enqueue, Tracker!Signal, Tracker!AfterReport
  <2>2. ASSUME NEW s \in 1 .. sessions' \ raced' PROVE Unraced(s)'
    BY <1>5, <2>2 DEF Unraced, Tracker!Report, Tracker!Enqueue, Tracker!AfterReport
  <2>3. Tracker!EndedStaysEnded'
    BY <1>5 DEF Unraced, Tracker!Report, Tracker!Enqueue
  <2> QED
    BY <2>1, <2>2, <2>3
<1>6. ASSUME NEW h \in Handlers, Tracker!Remove(h)
      PROVE  TrackerInv'
  <2>0. Tracker!Lost(h) \subseteq 1 .. sessions
    BY <1>6 DEF Tracker!Remove, Tracker!Lost
  <2>1. Tracker!TypeOK' /\ (sessions <= requests)'
    <3>1. /\ held' \in [Handlers -> 0 .. sessions] /\ op' \in [Handlers -> {"playing", "stopped"}]
          /\ pc' \in [Handlers -> {"idle", "store", "report", "remove"}]
          /\ \A g \in Handlers : pc'[g] = "idle" => held'[g] = 0
      BY <1>6 DEF Tracker!Remove
    <3>2. (Tracker!Ended \cup again \cup superseded \cup raced)' \subseteq 1 .. sessions
      BY <1>6, <2>0 DEF Tracker!Remove
    <3> QED
      BY <1>6, <3>1, <3>2 DEF Tracker!Remove
  <2>2. ASSUME NEW s \in 1 .. sessions' \ raced' PROVE Unraced(s)'
    BY <1>6, <2>2 DEF Unraced, Tracker!Remove, Tracker!Lost, Tracker!HeldElsewhere
  <2> QED
    BY <1>6, <2>1, <2>2 DEF Tracker!Remove
<1>7. ASSUME Tracker!Expire \/ Tracker!Swap \/ Tracker!Dispatch
      PROVE  TrackerInv'
  <2>0. /\ UNCHANGED <<current, track, sessions, requests, pc, held, op, evicted, again,
                       superseded, raced>>
        /\ prQueue' \cup batch' \cup delivered' = prQueue \cup batch \cup delivered
    BY <1>7 DEF Tracker!Expire, Tracker!Swap, Tracker!Dispatch
  <2>1. Tracker!TypeOK' /\ (sessions <= requests)'
    <3>1. expired' \in BOOLEAN /\ (expired' => current' # 0) /\ prSignal' \in BOOLEAN
      <4>1. CASE Tracker!Expire
        BY <4>1 DEF Tracker!Expire
      <4>2. CASE Tracker!Swap
        BY <4>2 DEF Tracker!Swap
      <4>3. CASE Tracker!Dispatch
        BY <4>3 DEF Tracker!Dispatch
      <4> QED
        BY <1>7, <4>1, <4>2, <4>3
    <3>2. (Tracker!Ended \cup again \cup superseded \cup raced)' \subseteq 1 .. sessions
      BY <2>0
    <3> QED
      BY <2>0, <3>1, <3>2
  <2>2. ASSUME NEW s \in 1 .. sessions' \ raced' PROVE Unraced(s)'
    BY <2>0, <2>2 DEF Unraced
  <2> QED
    BY <2>0, <2>1, <2>2
<1>8. ASSUME Tracker!Evict
      PROVE  TrackerInv'
  <2>0. current \in 1 .. sessions /\ raced' \subseteq 1 .. sessions
    BY <1>8 DEF Tracker!Evict
  <2>1. Tracker!TypeOK' /\ (sessions <= requests)'
    <3>1. (Tracker!Ended \cup again \cup superseded \cup raced)' \subseteq 1 .. sessions
      BY <1>8, <2>0 DEF Tracker!Evict
    <3>2. evicted' \subseteq 1 .. sessions /\ current' \in 0 .. sessions
      BY <1>8, <2>0 DEF Tracker!Evict
    <3>3. expired' \in BOOLEAN /\ (expired' => current' # 0)
      BY <1>8 DEF Tracker!Evict
    <3> QED
      BY <1>8, <3>1, <3>2, <3>3 DEF Tracker!Evict
  <2>2. ASSUME NEW s \in 1 .. sessions' \ raced' PROVE Unraced(s)'
    BY <1>8, <2>2 DEF Unraced, Tracker!Evict
  <2> QED
    BY <1>8, <2>1, <2>2 DEF Tracker!Evict
<1>9. ASSUME NEW s \in evicted, Tracker!OnExpiration(s)
      PROVE  TrackerInv'
  <2>1. Tracker!TypeOK' /\ (sessions <= requests)'
    BY <1>9 DEF Tracker!OnExpiration, Tracker!Enqueue, Tracker!Signal
  <2>2. ASSUME NEW r \in 1 .. sessions' \ raced' PROVE Unraced(r)'
    BY <1>9, <2>2 DEF Unraced, Tracker!OnExpiration, Tracker!Enqueue
  <2>3. Tracker!EndedStaysEnded'
    BY <1>9 DEF Unraced, Tracker!OnExpiration, Tracker!Enqueue
  <2> QED
    BY <2>1, <2>2, <2>3
<1> QED
  BY <1>1, <1>2, <1>3, <1>4, <1>5, <1>6, <1>7, <1>8, <1>9 DEF Tracker!Next, Tracker!Handle

-----------------------------------------------------------------------------
(* Schedules of a plugin *)

\* A one-time job that fires is no longer armed, and only such a job is cleaned up.
FiredOnce ==
    \A j \in Scheduler!Jobs :
        /\ firing[j] # "no" => j \in recurring \/ j \notin armed
        /\ firing[j] = "cleanup" => j \notin recurring

SchedulerInv == Scheduler!TypeOK /\ FiredOnce /\ Scheduler!ArmedIsRegistered

LEMMA SchedulerFacts ==
  ASSUME TRUE
  PROVE  MaxJobs \in Nat /\ Ids # {} /\ Scheduler!None = 0
BY TimersAssumption DEF Scheduler!SchedulerAssumption, Scheduler!None

LEMMA InitScheduler == Scheduler!Init => SchedulerInv
<1> SUFFICES ASSUME Scheduler!Init PROVE SchedulerInv
  OBVIOUS
<1>1. (CHOOSE i \in Ids : TRUE) \in Ids
  BY SchedulerFacts
<1>2. /\ schedules = [i \in Ids |-> 0] /\ jobs = 0 /\ recurring = {} /\ unloaded = FALSE
      /\ id = [j \in 1 .. MaxJobs |-> CHOOSE i \in Ids : TRUE]
      /\ firing = [j \in 1 .. MaxJobs |-> "no"]
      /\ armed = {} /\ stopping = {}
      /\ called = {} /\ cancelled = {} /\ lost = {} /\ late = {}
  BY SchedulerFacts DEF Scheduler!Init, Scheduler!Jobs
<1>3. id \in [1 .. MaxJobs -> Ids]
  BY <1>1, <1>2
<1>4. Scheduler!TypeOK
  <2>1. /\ jobs \in 0 .. MaxJobs /\ \A j \in Scheduler!Jobs : firing[j] = "no"
        /\ \A i \in Ids : schedules[i] = Scheduler!None
    BY <1>2, SchedulerFacts DEF Scheduler!Jobs
  <2>2. /\ schedules \in [Ids -> Scheduler!Made \cup {Scheduler!None}]
        /\ firing \in [Scheduler!Jobs -> Scheduler!Stages]
    BY <1>2, SchedulerFacts DEF Scheduler!Jobs, Scheduler!Stages
  <2> QED
    BY <1>2, <1>3, <2>1, <2>2 DEF Scheduler!TypeOK, Scheduler!Jobs
<1> QED
  BY <1>2, <1>4 DEF SchedulerInv, FiredOnce, Scheduler!ArmedIsRegistered

LEMMA NextScheduler ==
  ASSUME SchedulerInv, Scheduler!Next
  PROVE  SchedulerInv'
<1> USE SchedulerFacts
    DEF Scheduler!Made, Scheduler!Jobs, Scheduler!Stages, Scheduler!jobVars, Scheduler!history
<1> USE DEF SchedulerInv, Scheduler!TypeOK, FiredOnce, Scheduler!ArmedIsRegistered
<1>1. ASSUME NEW i \in Ids, Scheduler!Schedule(i),
             recurring' \in {recurring, recurring \cup {jobs'}}
      PROVE  SchedulerInv'
  <2> DEFINE j == jobs + 1
  <2>1. /\ schedules[i] = 0 /\ jobs' = j /\ j \in 1 .. MaxJobs /\ j \notin 1 .. jobs
        /\ id' = [id EXCEPT ![j] = i] /\ schedules' = [schedules EXCEPT ![i] = j]
        /\ armed' = armed \cup {j} /\ late' \in {late, late \cup {j}}
        /\ UNCHANGED <<stopping, firing, unloaded, called, cancelled, lost>>
    BY <1>1 DEF Scheduler!Schedule
  <2>2. 1 .. jobs \subseteq 1 .. j /\ j # 0
    BY <2>1
  <2>3. Scheduler!TypeOK'
    <3>1. \A x \in Ids : schedules'[x] # 0 => id'[schedules'[x]] = x
      <4> SUFFICES ASSUME NEW x \in Ids, schedules'[x] # 0
                   PROVE  id'[schedules'[x]] = x
        OBVIOUS
      <4>1. CASE x = i
        BY <2>1, <4>1
      <4>2. CASE x # i
        <5>1. schedules'[x] = schedules[x] /\ schedules[x] \in 1 .. jobs
          BY <2>1, <4>2
        <5> QED
          BY <2>1, <5>1
      <4> QED
        BY <4>1, <4>2
    <3>2. schedules' \in [Ids -> 1 .. j \cup {0}] /\ id' \in [1 .. MaxJobs -> Ids]
      BY <2>1, <2>2
    <3> QED
      BY <1>1, <2>1, <2>2, <3>1, <3>2
  <2> HIDE DEF j
  <2>4. FiredOnce'
    BY <1>1, <2>1
  <2>5. Scheduler!ArmedIsRegistered'
    BY <2>1
  <2> QED
    BY <2>3, <2>4, <2>5
<1>2. ASSUME NEW i \in Ids, Scheduler!CancelSchedule(i)
      PROVE  SchedulerInv'
  <2>0. schedules[i] \in 1 .. jobs /\ schedules' \in [Ids -> 1 .. jobs \cup {0}]
    BY <1>2 DEF Scheduler!CancelSchedule
  <2>1. Scheduler!TypeOK'
    BY <1>2, <2>0 DEF Scheduler!CancelSchedule
  <2>2. FiredOnce'
    BY <1>2 DEF Scheduler!CancelSchedule
  <2>3. Scheduler!ArmedIsRegistered'
    BY <1>2 DEF Scheduler!CancelSchedule
  <2> QED
    BY <2>1, <2>2, <2>3
<1>3. ASSUME NEW j \in Scheduler!Jobs, Scheduler!Stop(j)
      PROVE  SchedulerInv'
  BY <1>3 DEF Scheduler!Stop
<1>4. ASSUME NEW j \in Scheduler!Jobs, Scheduler!Fire(j)
      PROVE  SchedulerInv'
  <2>1. Scheduler!TypeOK'
    BY <1>4 DEF Scheduler!Fire, Scheduler!UponFiring
  <2>2. FiredOnce'
    BY <1>4 DEF Scheduler!Fire, Scheduler!UponFiring
  <2>3. Scheduler!ArmedIsRegistered'
    BY <1>4 DEF Scheduler!Fire, Scheduler!UponFiring
  <2> QED
    BY <2>1, <2>2, <2>3
<1>5. ASSUME NEW j \in Scheduler!Jobs, Scheduler!Lookup(j)
      PROVE  SchedulerInv'
  <2>1. Scheduler!TypeOK'
    BY <1>5 DEF Scheduler!Lookup, Scheduler!Found, Scheduler!After
  <2>2. FiredOnce'
    BY <1>5 DEF Scheduler!Lookup, Scheduler!Found, Scheduler!After
  <2>3. Scheduler!ArmedIsRegistered'
    BY <1>5 DEF Scheduler!Lookup, Scheduler!Found, Scheduler!After
  <2> QED
    BY <2>1, <2>2, <2>3
<1>6. ASSUME NEW j \in Scheduler!Jobs, Scheduler!CallbackEnds(j)
      PROVE  SchedulerInv'
  <2>1. Scheduler!TypeOK'
    BY <1>6 DEF Scheduler!CallbackEnds, Scheduler!After
  <2>2. FiredOnce'
    BY <1>6 DEF Scheduler!CallbackEnds, Scheduler!After
  <2>3. Scheduler!ArmedIsRegistered'
    BY <1>6 DEF Scheduler!CallbackEnds, Scheduler!After
  <2> QED
    BY <2>1, <2>2, <2>3
<1>7. ASSUME NEW j \in Scheduler!Jobs, Scheduler!Cleanup(j)
      PROVE  SchedulerInv'
  <2>1. Scheduler!TypeOK'
    BY <1>7 DEF Scheduler!Cleanup
  <2>2. FiredOnce'
    BY <1>7 DEF Scheduler!Cleanup
  <2>3. Scheduler!ArmedIsRegistered'
    BY <1>7 DEF Scheduler!Cleanup
  <2> QED
    BY <2>1, <2>2, <2>3
<1>8. ASSUME Scheduler!Close
      PROVE  SchedulerInv'
  <2>0. Scheduler!Closed \subseteq 1 .. jobs /\ schedules' \in [Ids -> 1 .. jobs \cup {0}]
    BY <1>8 DEF Scheduler!Close, Scheduler!Closed
  <2>1. Scheduler!TypeOK'
    BY <1>8, <2>0 DEF Scheduler!Close
  <2>2. FiredOnce'
    BY <1>8 DEF Scheduler!Close, Scheduler!Closed
  <2>3. Scheduler!ArmedIsRegistered'
    BY <1>8 DEF Scheduler!Close, Scheduler!Closed
  <2> QED
    BY <2>1, <2>2, <2>3
<1> QED
  BY <1>1, <1>2, <1>3, <1>4, <1>5, <1>6, <1>7, <1>8
     DEF Scheduler!Next, Scheduler!Run, Scheduler!ScheduleOneTime, Scheduler!ScheduleRecurring

-----------------------------------------------------------------------------
(* Delays of a failed task *)

\* A set of natural numbers that has an element has a least one.
LEMMA HasLeast ==
  ASSUME NEW S \in SUBSET Nat, S # {}
  PROVE  \E x \in S : \A y \in S : x <= y
<1> DEFINE R == OpToRel(<, Nat)
<1>1. IsWellFoundedOn(R, Nat)
  BY NatLessThanWellFounded
<1>2. \A x, y \in S : <<y, x>> \notin R => x <= y
  BY DEF OpToRel
<1> HIDE DEF R
<1>3. PICK x \in S : \A y \in S : ~(<<y, x>> \in R)
  BY <1>1, WFMin, Zenon
<1> QED
  BY <1>2, <1>3

\* The powers of two up to the n-th, as a function of their own.
ArePowers(g, n) ==
    /\ g \in [0 .. n -> Nat]
    /\ g[0] = 1 /\ \A k \in 1 .. n : g[k] = 2 * g[k - 1]

LEMMA PowersExist ==
  ASSUME NEW n \in Nat
  PROVE  \E g : ArePowers(g, n)
<1> DEFINE bad == {m \in Nat : ~ \E g : ArePowers(g, m)}
<1> SUFFICES ASSUME bad # {} PROVE FALSE
  OBVIOUS
<1>1. PICK m \in bad : \A k \in bad : m <= k
  BY HasLeast
<1>2. m # 0
  <2>1. ArePowers([k \in 0 .. 0 |-> 1], 0)
    BY DEF ArePowers
  <2> QED
    BY <2>1
<1>3. m - 1 \in Nat /\ m - 1 \notin bad
  BY <1>1, <1>2
<1>4. PICK g : ArePowers(g, m - 1)
  BY <1>3
<1> DEFINE h == [k \in 0 .. m |-> IF k = m THEN 2 * g[m - 1] ELSE g[k]]
<1>5. ArePowers(h, m)
  <2>1. m \in Nat \ {0} /\ m - 1 \in 0 .. m - 1
    BY <1>2
  <2>2. \A k \in 0 .. m : h[k] \in Nat
    <3> SUFFICES ASSUME NEW k \in 0 .. m PROVE h[k] \in Nat
      OBVIOUS
    <3>1. CASE k = m
      BY <1>4, <2>1, <3>1 DEF ArePowers
    <3>2. CASE k # m
      BY <1>4, <2>1, <3>2 DEF ArePowers
    <3> QED
      BY <3>1, <3>2
  <2>3. h[0] = 1
    BY <1>4, <2>1 DEF ArePowers
  <2>4. ASSUME NEW k \in 1 .. m PROVE h[k] = 2 * h[k - 1]
    <3>1. k - 1 \in 0 .. m /\ k - 1 # m /\ h[k - 1] = g[k - 1]
      BY <2>1
    <3>2. CASE k = m
      BY <2>1, <3>1, <3>2
    <3>3. CASE k # m
      <4>1. k \in 1 .. m - 1 /\ k \in 0 .. m
        BY <2>1, <3>3
      <4> QED
        BY <1>4, <3>1, <3>3, <4>1 DEF ArePowers
    <3> QED
      BY <3>2, <3>3
  <2>5. h \in [0 .. m -> Nat]
    BY <2>2
  <2> QED
    BY <2>3, <2>4, <2>5 DEF ArePowers
<1> QED
  BY <1>5

LEMMA PowersAgree ==
  ASSUME NEW m \in Nat, NEW n \in Nat, NEW g, NEW h, ArePowers(g, m), ArePowers(h, n),
         NEW k \in 0 .. m, k <= n
  PROVE  g[k] = h[k]
<1> DEFINE bad == {i \in Nat : i <= m /\ i <= n /\ g[i] # h[i]}
<1> SUFFICES ASSUME bad # {} PROVE FALSE
  OBVIOUS
<1>1. PICK i \in bad : \A j \in bad : i <= j
  BY HasLeast
<1>2. i # 0
  BY DEF ArePowers
<1>3. i - 1 \in Nat /\ i - 1 \notin bad
  BY <1>1, <1>2
<1>4. g[i - 1] = h[i - 1]
  BY <1>3
<1>5. i \in 1 .. m /\ i \in 1 .. n
  BY <1>2
<1> QED
  BY <1>4, <1>5 DEF ArePowers

\* What the recursive definition of Pow2 says of it.
LEMMA Pow2Def ==
  /\ Backoff!Pow2 \in [Nat -> Nat]
  /\ Backoff!Pow2[0] = 1
  /\ \A n \in Nat : Backoff!Pow2[n + 1] = 2 * Backoff!Pow2[n]
<1> DEFINE powers(n) == CHOOSE g : ArePowers(g, n)
           P == [n \in Nat |-> powers(n)[n]]
<1>1. \A n \in Nat : ArePowers(powers(n), n)
  BY PowersExist
<1> HIDE DEF powers
<1>2. P \in [Nat -> Nat] /\ P[0] = 1
  BY <1>1 DEF ArePowers
<1>3. ASSUME NEW n \in Nat PROVE P[n + 1] = 2 * P[n]
  <2>1. n + 1 \in Nat /\ n \in 0 .. n /\ n + 1 \in 1 .. n + 1
    OBVIOUS
  <2>2. powers(n)[n] = powers(n + 1)[n]
    BY <1>1, <2>1, PowersAgree
  <2>3. powers(n + 1)[n + 1] = 2 * powers(n + 1)[n + 1 - 1]
    BY <1>1, <2>1 DEF ArePowers
  <2> QED
    BY <2>1, <2>2, <2>3
<1>4. ASSUME NEW n \in Nat PROVE P[n] = IF n = 0 THEN 1 ELSE 2 * P[n - 1]
  <2>1. CASE n = 0
    BY <1>2, <2>1
  <2>2. CASE n # 0
    <3>1. n - 1 \in Nat /\ (n - 1) + 1 = n
      BY <2>2
    <3> HIDE DEF P
    <3> QED
      BY <1>3, <2>2, <3>1
  <2> QED
    BY <2>1, <2>2
<1> DEFINE F(f) == [n \in Nat |-> IF n = 0 THEN 1 ELSE 2 * f[n - 1]]
<1>5. P = F(P)
  <2> HIDE DEF P
  <2>1. P = [n \in Nat |-> P[n]]
    BY <1>2
  <2> QED
    BY <1>4, <2>1
<1> HIDE DEF P
<1>6. Backoff!Pow2 = F(Backoff!Pow2)
  BY <1>5 DEF Backoff!Pow2
<1>7. /\ DOMAIN Backoff!Pow2 = Nat /\ Backoff!Pow2[0] = 1
      /\ \A n \in Nat : Backoff!Pow2[n + 1] = 2 * Backoff!Pow2[n]
  <2> DEFINE f == Backoff!Pow2
  <2>1. f = [n \in Nat |-> IF n = 0 THEN 1 ELSE 2 * f[n - 1]]
    BY <1>6
  <2> HIDE DEF f
  <2>2. /\ DOMAIN f = Nat /\ f[0] = 1
        /\ \A n \in Nat : f[n + 1] = 2 * f[n]
    BY <2>1
  <2> QED
    BY <2>2 DEF f
<1>8. \A n \in Nat : Backoff!Pow2[n] \in Nat
  <2> DEFINE bad == {n \in Nat : Backoff!Pow2[n] \notin Nat}
  <2> SUFFICES ASSUME bad # {} PROVE FALSE
    OBVIOUS
  <2>1. PICK n \in bad : \A k \in bad : n <= k
    BY HasLeast
  <2>2. n # 0
    BY <1>7
  <2>3. n - 1 \in Nat /\ n - 1 \notin bad /\ (n - 1) + 1 = n
    BY <2>1, <2>2
  <2>4. Backoff!Pow2[n - 1] \in Nat /\ Backoff!Pow2[n] = 2 * Backoff!Pow2[n - 1]
    BY <1>7, <2>3
  <2> QED
    BY <2>4
<1>9. Backoff!Pow2 = [n \in Nat |-> Backoff!Pow2[n]]
  BY <1>6
<1> QED
  BY <1>7, <1>8, <1>9

LEMMA Pow2Sum ==
  ASSUME NEW m \in Nat, NEW n \in Nat
  PROVE  Backoff!Pow2[m + n] = Backoff!Pow2[m] * Backoff!Pow2[n]
<1> DEFINE bad == {k \in Nat : Backoff!Pow2[m + k] # Backoff!Pow2[m] * Backoff!Pow2[k]}
<1> SUFFICES ASSUME bad # {} PROVE FALSE
  OBVIOUS
<1>1. PICK k \in bad : \A j \in bad : k <= j
  BY HasLeast
<1>2. k # 0
  BY Pow2Def
<1>3. k - 1 \in Nat /\ k - 1 \notin bad /\ (k - 1) + 1 = k /\ m + k - 1 \in Nat
  BY <1>1, <1>2
<1>4. Backoff!Pow2[m + (k - 1)] = Backoff!Pow2[m] * Backoff!Pow2[k - 1]
  BY <1>3
<1>5. /\ Backoff!Pow2[k] = 2 * Backoff!Pow2[k - 1]
      /\ Backoff!Pow2[m + k] = 2 * Backoff!Pow2[m + (k - 1)]
  BY <1>3, Pow2Def
<1>6. Backoff!Pow2[m] \in Nat /\ Backoff!Pow2[k - 1] \in Nat
  BY <1>3, Pow2Def
<1> QED
  BY <1>4, <1>5, <1>6

LEMMA Pow2Positive ==
  ASSUME NEW n \in Nat
  PROVE  Backoff!Pow2[n] \in Nat \ {0}
<1> DEFINE bad == {k \in Nat : Backoff!Pow2[k] = 0}
<1> SUFFICES ASSUME bad # {} PROVE FALSE
  BY Pow2Def
<1>1. PICK k \in bad : \A j \in bad : k <= j
  BY HasLeast
<1>2. k # 0
  BY Pow2Def
<1>3. k - 1 \in Nat /\ k - 1 \notin bad /\ (k - 1) + 1 = k
  BY <1>1, <1>2
<1>4. Backoff!Pow2[k] = 2 * Backoff!Pow2[k - 1] /\ Backoff!Pow2[k - 1] \in Nat
  BY <1>3, Pow2Def
<1> QED
  BY <1>3, <1>4

LEMMA BackoffFacts ==
  /\ Width \in Nat \ {0} /\ Width - 1 \in Nat /\ MaxAttempts \in Nat
  /\ MaxBackoff \in Nat /\ Default \in 1 .. MaxBackoff
  /\ MaxBackoff * MaxBackoff < Backoff!Limit
  /\ Backoff!Limit \in Nat \ {0} /\ Backoff!Limit = Backoff!Pow2[Width - 1]
<1>1. /\ Width \in Nat \ {0} /\ MaxAttempts \in Nat
      /\ MaxBackoff \in Nat /\ Default \in 1 .. MaxBackoff
      /\ MaxBackoff * MaxBackoff < Backoff!Limit
  BY TimersAssumption DEF Backoff!BackoffAssumption, Backoff!Limit
<1>2. Width - 1 \in Nat
  BY <1>1
<1>3. Backoff!Limit \in Nat \ {0} /\ Backoff!Limit = Backoff!Pow2[Width - 1]
  BY <1>2, Pow2Positive DEF Backoff!Limit
<1> QED
  BY <1>1, <1>2, <1>3

\* A number that fits is shifted as it is.
LEMMA WrappedFits ==
  ASSUME NEW x \in Nat, x < Backoff!Limit
  PROVE  Backoff!Wrapped(x) = x
<1> DEFINE L == Backoff!Limit
<1>1. L \in Nat \ {0} /\ x < L
  BY BackoffFacts
<1> HIDE DEF L
<1>2. (x + L) % (2 * L) = x + L
  BY <1>1
<1>3. Backoff!Wrapped(x) = ((x + L) % (2 * L)) - L
  BY DEF Backoff!Wrapped, L
<1> QED
  BY <1>1, <1>2, <1>3

\* What is left of a product with a power of two is a multiple of the power, negative or not.
LEMMA WrappedDivides ==
  ASSUME NEW c \in Nat, NEW n \in Nat
  PROVE  \E k \in Int : Backoff!ShiftedLeft(c, n) = Backoff!Pow2[n] * k
<1> DEFINE L == Backoff!Limit
           p == Backoff!Pow2[n]
           x == c * p
           q == (x + L) \div (2 * L)
<1>1. L \in Nat \ {0} /\ p \in Nat \ {0} /\ Width - 1 \in Nat
  BY BackoffFacts, Pow2Positive
<1>2. Backoff!ShiftedLeft(c, n) = ((x + L) % (2 * L)) - L
  BY DEF Backoff!ShiftedLeft, Backoff!Wrapped
<1>3. CASE n < Width
  <2>1. PICK m \in Nat : n + m = Width - 1
    <3>1. Width - 1 - n \in Nat /\ n + (Width - 1 - n) = Width - 1
      BY <1>1, <1>3, BackoffFacts
    <3> QED
      BY <3>1
  <2> DEFINE r == Backoff!Pow2[m]
  <2>2. L = p * r /\ r \in Nat
    <3>1. Backoff!Pow2[n + m] = Backoff!Pow2[n] * Backoff!Pow2[m] /\ r \in Nat
      BY Pow2Sum, Pow2Def
    <3> QED
      BY <2>1, <3>1, BackoffFacts
  <2> HIDE DEF L, p, r
  <2>3. x \in Nat /\ x + L \in Nat /\ 2 * L \in Nat \ {0}
    BY <1>1
  <2>4. q \in Int /\ x + L = (2 * L) * q + ((x + L) % (2 * L))
    <3> HIDE DEF x
    <3> DEFINE y == x + L
               N == 2 * L
    <3>1. y \in Int /\ N \in Nat \ {0}
      BY <2>3
    <3> HIDE DEF y, N
    <3>2. y = N * (y \div N) + (y % N) /\ y \div N \in Int
      BY <3>1
    <3> QED
      BY <3>2 DEF y, N
  <2>5. Backoff!ShiftedLeft(c, n) = x - (2 * L) * q
    <3> DEFINE t == (x + L) % (2 * L)
               u == (2 * L) * q
    <3>1. t \in Int /\ u \in Int /\ x + L = u + t /\ x \in Int /\ L \in Int
      <4> HIDE DEF x
      <4>1. t \in Int
        BY <2>3
      <4>2. u \in Int
        BY <1>1, <2>4
      <4> QED
        BY <1>1, <2>3, <2>4, <4>1, <4>2
    <3>2. Backoff!ShiftedLeft(c, n) = t - L
      BY <1>2
    <3> HIDE DEF t, u, x
    <3>3. Backoff!ShiftedLeft(c, n) = x - u
      BY <3>1, <3>2
    <3> QED
      BY <3>3 DEF u
  <2> HIDE DEF q
  <2>6. x - (2 * L) * q = p * (c - (2 * r) * q) /\ c - (2 * r) * q \in Int
    BY <1>1, <2>2, <2>4
  <2>7. Backoff!ShiftedLeft(c, n) = p * (c - (2 * r) * q)
    BY <2>5, <2>6
  <2> QED
    BY <2>6, <2>7 DEF p
<1>4. CASE n >= Width
  <2>1. PICK m \in Nat : n = Width + m
    <3>1. n - Width \in Nat /\ n = Width + (n - Width)
      BY <1>4, BackoffFacts
    <3> QED
      BY <3>1
  <2>2. Backoff!Pow2[Width] = 2 * L
    <3>1. Width = (Width - 1) + 1
      BY BackoffFacts
    <3> QED
      BY <3>1, BackoffFacts, Pow2Def
  <2> DEFINE r == Backoff!Pow2[m]
  <2>3. p = (2 * L) * r /\ r \in Nat
    <3>1. Width \in Nat /\ Backoff!Pow2[Width + m] = Backoff!Pow2[Width] * Backoff!Pow2[m]
      BY BackoffFacts, Pow2Sum
    <3> QED
      BY <2>1, <2>2, <3>1, Pow2Def
  <2> DEFINE s == c * r
  <2>4. s \in Nat
    BY <2>3
  <2> HIDE DEF L, p, r
  <2>5. x = (2 * L) * s
    BY <1>1, <2>3
  <2> HIDE DEF x, s
  <2>6. (x + L) % (2 * L) = L
    <3> DEFINE N == 2 * L
               y == x + L
    <3>1. /\ N \in Nat \ {0} /\ L \in 0 .. N - 1 /\ y = N * s + L /\ y \in Int
      BY <1>1, <2>4, <2>5
    <3> HIDE DEF N, y
    <3>2. y % N = L
      BY <2>4, <3>1
    <3> QED
      BY <3>2 DEF N, y
  <2>7. Backoff!ShiftedLeft(c, n) = p * 0
    BY <1>1, <1>2, <2>6
  <2> QED
    BY <2>7 DEF p
<1> QED
  BY <1>3, <1>4, BackoffFacts

LEMMA ClampedRange ==
  ASSUME NEW x \in Int
  PROVE  Backoff!Clamped(x) \in 1 .. MaxBackoff
BY BackoffFacts DEF Backoff!Clamped

LEMMA InitBackoff == Backoff!Init => Backoff!TypeOK /\ Backoff!DelaysDouble
<1> SUFFICES ASSUME Backoff!Init PROVE Backoff!TypeOK /\ Backoff!DelaysDouble
  OBVIOUS
<1>1. PICK given \in -1 .. (Backoff!Limit - 1) : config = IF given <= 0 THEN Default ELSE given
  BY DEF Backoff!Init
<1>2. Default \in 1 .. (Backoff!Limit - 1)
  <2>1. MaxBackoff <= MaxBackoff * MaxBackoff
    BY BackoffFacts
  <2> QED
    BY <2>1, BackoffFacts
<1>3. config \in 1 .. (Backoff!Limit - 1)
  BY <1>1, <1>2, BackoffFacts
<1> QED
  BY <1>3, BackoffFacts DEF Backoff!Init, Backoff!TypeOK, Backoff!DelaysDouble

LEMMA NextBackoff ==
  ASSUME Backoff!TypeOK, Backoff!DelaysDouble, Backoff!Next
  PROVE  Backoff!TypeOK' /\ Backoff!DelaysDouble'
<1> DEFINE M == MaxBackoff
           L == Backoff!Limit
           p == Backoff!Pow2[attempt]
           w == Backoff!ShiftedLeft(config, attempt)
<1>1. /\ attempt \in Nat /\ attempt < MaxAttempts /\ attempt' = attempt + 1 /\ config' = config
      /\ config \in Nat \ {0} /\ config < L /\ backoff' = Backoff!Clamped(w)
  BY BackoffFacts DEF Backoff!TypeOK, Backoff!Next, Backoff!HandleTaskFailure
<1>2. p \in Nat \ {0} /\ L \in Nat \ {0} /\ M \in Nat \ {0} /\ M * M < L
  BY <1>1, Pow2Positive, BackoffFacts
<1>3. PICK k \in Int : w = p * k
  BY <1>1, WrappedDivides
<1>4. w \in Int
  BY <1>2, <1>3
<1>5. backoff' \in 1 .. M
  BY <1>1, <1>4, ClampedRange
<1>6. Backoff!TypeOK'
  BY <1>1, <1>2, <1>5, BackoffFacts DEF Backoff!TypeOK
<1>7. config * p \in Nat \ {0}
  BY <1>1, <1>2
<1>8. CASE config <= M
  <2>1. backoff' = IF config * p > M THEN M ELSE config * p
    <3>1. CASE config * p < L
      <4>1. w = config * p
        BY <1>7, <3>1, WrappedFits DEF Backoff!ShiftedLeft
      <4> QED
        BY <1>1, <1>2, <1>7, <4>1 DEF Backoff!Clamped
    <3>2. CASE config * p >= L
      <4>1. p > M
        <5> SUFFICES ASSUME p <= M PROVE FALSE
          BY <1>2
        <5> HIDE DEF p, M, L
        <5>1. config * p <= M * M
          BY <1>1, <1>2, <1>8
        <5> QED
          BY <1>2, <1>7, <3>2, <5>1
      <4>2. config * p > M
        <5> HIDE DEF p, M, L
        <5>1. config * p >= p
          BY <1>1, <1>2
        <5> QED
          BY <1>2, <1>7, <4>1, <5>1
      <4>3. w <= 0 \/ w > M
        <5> HIDE DEF p, M, w
        <5>1. CASE k <= 0
          BY <1>2, <1>3, <5>1
        <5>2. CASE k >= 1
          <6>1. p * k >= p
            BY <1>2, <5>2
          <6> QED
            BY <1>2, <1>3, <1>4, <4>1, <6>1
        <5> QED
          BY <5>1, <5>2
      <4> QED
        BY <1>1, <4>2, <4>3 DEF Backoff!Clamped
    <3> QED
      BY <1>2, <1>7, <3>1, <3>2
  <2>2. attempt' - 1 = attempt
    BY <1>1
  <2> QED
    BY <1>1, <1>6, <1>8, <2>1, <2>2 DEF Backoff!DelaysDouble
<1>9. CASE config > M
  <2>1. attempt' = 1 => backoff' = M
    <3> SUFFICES ASSUME attempt' = 1 PROVE backoff' = M
      OBVIOUS
    <3>1. attempt = 0
      BY <1>1
    <3>2. p = 1
      BY <3>1, Pow2Def
    <3>3. w = config
      BY <1>1, <3>2, WrappedFits DEF Backoff!ShiftedLeft
    <3> QED
      BY <1>1, <1>9, <3>3 DEF Backoff!Clamped
  <2>2. backoff' > 0 /\ ~ (config' <= M)
    BY <1>1, <1>2, <1>5, <1>9
  <2> QED
    BY <1>6, <2>1, <2>2 DEF Backoff!DelaysDouble
<1> QED
  BY <1>1, <1>2, <1>8, <1>9

-----------------------------------------------------------------------------
(* The composition *)

\* Of every component, also of one that rests.
TimersInv ==
    /\ component \in {"watcher", "tracker", "scheduler", "backoff"}
    /\ Watcher!TypeOK /\ TrackerInv /\ SchedulerInv
    /\ Backoff!TypeOK /\ Backoff!DelaysDouble

LEMMA RestingWatcher ==
  ASSUME Watcher!TypeOK, UNCHANGED watcherVars
  PROVE  Watcher!TypeOK'
BY DEF Watcher!TypeOK, watcherVars

LEMMA RestingTracker ==
  ASSUME TrackerInv, UNCHANGED trackerVars
  PROVE  TrackerInv'
<1> USE DEF trackerVars, TrackerInv
<1>1. Tracker!TypeOK' /\ Tracker!EndedStaysEnded'
  BY DEF Tracker!TypeOK, Tracker!EndedStaysEnded, Tracker!Ended
<1>2. ASSUME NEW s \in 1 .. sessions \ raced PROVE Unraced(s)'
  BY <1>2 DEF Unraced, AtReport, Tracker!Ended
<1> QED
  BY <1>1, <1>2

LEMMA RestingScheduler ==
  ASSUME SchedulerInv, UNCHANGED schedulerVars
  PROVE  SchedulerInv'
<1> USE DEF schedulerVars, SchedulerInv
<1>1. Scheduler!TypeOK'
  BY DEF Scheduler!TypeOK, Scheduler!Made
<1> QED
  BY <1>1 DEF FiredOnce, Scheduler!ArmedIsRegistered

LEMMA RestingBackoff ==
  ASSUME Backoff!TypeOK, Backoff!DelaysDouble, UNCHANGED backoffVars
  PROVE  Backoff!TypeOK' /\ Backoff!DelaysDouble'
BY DEF Backoff!TypeOK, Backoff!DelaysDouble, backoffVars

\* What holds of the timers after every step, of whichever component.
THEOREM TimersInvariant == Spec => []TimersInv
<1>1. Init => TimersInv
  BY InitWatcher, InitTracker, InitScheduler, InitBackoff DEF Init, TimersInv
<1>2. TimersInv /\ [Next]_vars => TimersInv'
  <2> SUFFICES ASSUME TimersInv, [Next]_vars PROVE TimersInv'
    OBVIOUS
  <2> USE DEF TimersInv
  <2>1. CASE component = "watcher" /\ Watcher!Next /\ component' = component
             /\ UNCHANGED <<trackerVars, schedulerVars, backoffVars>>
    BY <2>1, NextWatcher, RestingTracker, RestingScheduler, RestingBackoff
  <2>2. CASE component = "tracker" /\ Tracker!Next /\ component' = component
             /\ UNCHANGED <<watcherVars, schedulerVars, backoffVars>>
    BY <2>2, NextTracker, RestingWatcher, RestingScheduler, RestingBackoff
  <2>3. CASE component = "scheduler" /\ Scheduler!Next /\ component' = component
             /\ UNCHANGED <<watcherVars, trackerVars, backoffVars>>
    BY <2>3, NextScheduler, RestingWatcher, RestingTracker, RestingBackoff
  <2>4. CASE component = "backoff" /\ Backoff!Next /\ component' = component
             /\ UNCHANGED <<watcherVars, trackerVars, schedulerVars>>
    BY <2>4, NextBackoff, RestingWatcher, RestingTracker, RestingScheduler
  <2>5. CASE UNCHANGED vars
    <3>1. /\ component' = component
          /\ UNCHANGED watcherVars /\ UNCHANGED trackerVars
          /\ UNCHANGED schedulerVars /\ UNCHANGED backoffVars
      BY <2>5 DEF vars
    <3> QED
      BY <3>1, RestingWatcher, RestingTracker, RestingScheduler, RestingBackoff
  <2> QED
    BY <2>1, <2>2, <2>3, <2>4, <2>5 DEF Next
<1> QED
  BY <1>1, <1>2, PTL DEF Spec

\* The variables of the watcher's loop, of a player's sessions, of a plugin's schedules and of
\* a failed task have their types.
THEOREM TypeCorrect == Spec => []TypeOK
<1>1. TimersInv => TypeOK
  BY DEF TimersInv, TypeOK, TrackerInv, SchedulerInv
<1> QED
  BY <1>1, TimersInvariant, PTL

\* Nothing is reported of a session after its end unless two requests met, or one met the
\* eviction; a timer that runs can be cancelled unless the clean-up of an earlier job of its id
\* deleted its entry; and the delays of a failed task double up to their limit, whatever the
\* shift of the integer loses.
THEOREM TimersAreRightAlways == Spec => []TimersAreRight
<1>1. TimersInv => TimersAreRight
  BY DEF TimersInv, TimersAreRight, TrackerInv, SchedulerInv
<1> QED
  BY <1>1, TimersInvariant, PTL
=============================================================================
