--------------------------- MODULE ResourcesProofs ---------------------------
(***************************************************************************)
(* What is proved of the components of Resources, for every value of their *)
(* constants.  A behaviour is one of the component its initial state picks *)
(* (component never changes), so that each has an inductive invariant of   *)
(* its own.                                                                *)
(***************************************************************************)
EXTENDS Resources, FiniteSetTheorems, WellFoundedInduction, TLAPS

-----------------------------------------------------------------------------
(* Counting those at a stage *)

\* One joins a finite set, leaves it, or neither.
LEMMA Counted ==
  ASSUME NEW before, NEW after, NEW r, IsFiniteSet(before),
         after \in {before \cup {r}, before \ {r}}
  PROVE  /\ IsFiniteSet(after)
         /\ Cardinality(before) \in Nat /\ Cardinality(after) \in Nat
         /\ (r \in before <=> r \in after) => Cardinality(after) = Cardinality(before)
         /\ r \in before /\ r \notin after => /\ Cardinality(after) = Cardinality(before) - 1
                                              /\ Cardinality(before) > 0
         /\ r \notin before /\ r \in after => Cardinality(after) = Cardinality(before) + 1
  <1>1. Cardinality(before) \in Nat
    BY FS_CardinalityType
  <1>2. /\ IsFiniteSet(before \ {r})
        /\ Cardinality(before \ {r}) =
               IF r \in before THEN Cardinality(before) - 1 ELSE Cardinality(before)
    BY FS_RemoveElement
  <1>3. /\ IsFiniteSet(before \cup {r})
        /\ Cardinality(before \cup {r}) =
               IF r \in before THEN Cardinality(before) ELSE Cardinality(before) + 1
    BY FS_AddElement
  <1>4. r \in before => Cardinality(before) > 0
    BY <1>1, FS_EmptySet
  <1>5. Cardinality(after) \in Nat
    BY <1>2, <1>3, FS_CardinalityType
  <1>6. CASE after = before \cup {r}
    <2>1. r \in after
      BY <1>6
    <2> QED
      BY <1>1, <1>3, <1>5, <1>6, <2>1
  <1>7. CASE after = before \ {r}
    <2>1. r \notin after
      BY <1>7
    <2> QED
      BY <1>1, <1>2, <1>4, <1>5, <1>7, <2>1
  <1> QED
    BY <1>6, <1>7

-----------------------------------------------------------------------------
(* The throttle *)

\* The sets of an instance are counted as others are.
LEMMA ThrottleCardinality == \A S : Throttle!Cardinality(S) = Cardinality(S)
  BY DEF Throttle!Cardinality, Cardinality

Owing == {"admitted", "waiting", "handled", "flushing", "givingUp"}

ThrottleInv ==
    /\ Throttle!TypeOK /\ Throttle!TokensAreHeld
    /\ IsFiniteSet(Throttle!At({"handled"})) /\ IsFiniteSet(Throttle!At(Owing))

LEMMA ThrottleStep ==
  ASSUME ThrottleInv, Throttle!Next
  PROVE  ThrottleInv'
  <1>1. PICK r \in ArtworkRequests :
            \/ Throttle!Admit(r) \/ Throttle!Refuse(r) \/ Throttle!TakeToken(r) \/ Throttle!Wait(r)
            \/ Throttle!GiveUp(r) \/ Throttle!ReturnBacklog(r) \/ Throttle!Release(r)
            \/ Throttle!ReleaseBacklog(r) \/ Throttle!Again(r)
    BY DEF Throttle!Next
  <1>2. Limit \in Nat /\ BacklogLimit \in Nat
    BY ResourcesAssumption DEF Throttle!ThrottleAssumption
  <1>3. PICK s \in Throttle!Stages : Throttle!Goto(r, s)
    BY <1>1 DEF Throttle!Admit, Throttle!Refuse, Throttle!TakeToken, Throttle!Wait, Throttle!GiveUp,
         Throttle!ReturnBacklog, Throttle!Release, Throttle!ReleaseBacklog, Throttle!Again,
         Throttle!Goto, Throttle!Stages
  <1> DEFINE handled == Throttle!At({"handled"})
             held    == Cardinality(handled)
             debtors == Throttle!At(Owing)
             owing   == Cardinality(debtors)
  <1>0. IsFiniteSet(handled) /\ IsFiniteSet(debtors)
    BY DEF ThrottleInv
  <1>3a. /\ \A q \in ArtworkRequests \ {r} : handling'[q] = handling[q]
         /\ handling'[r] = s
    BY <1>3 DEF ThrottleInv, Throttle!TypeOK, Throttle!Goto
  <1>3b. handled' = IF s = "handled" THEN handled \cup {r} ELSE handled \ {r}
    BY <1>3a DEF Throttle!At
  <1>3c. debtors' = IF s \in Owing THEN debtors \cup {r} ELSE debtors \ {r}
    BY <1>3a DEF Throttle!At
  <1>3d. /\ r \in handled <=> handling[r] = "handled"
         /\ r \in debtors <=> handling[r] \in Owing
    BY DEF Throttle!At
  <1> HIDE DEF handled, debtors
  <1>4. /\ IsFiniteSet(handled') /\ held \in Nat /\ held' \in Nat
        /\ (handling[r] = "handled" <=> s = "handled") => held' = held
        /\ handling[r] = "handled" /\ s # "handled" => held' = held - 1
        /\ handling[r] # "handled" /\ s = "handled" => held' = held + 1
    BY <1>0, <1>3b, <1>3d, Counted
  <1>5. /\ IsFiniteSet(debtors') /\ owing \in Nat /\ owing' \in Nat
        /\ (handling[r] \in Owing <=> s \in Owing) => owing' = owing
        /\ handling[r] \in Owing /\ s \notin Owing => owing' = owing - 1
        /\ handling[r] \notin Owing /\ s \in Owing => owing' = owing + 1
    BY <1>0, <1>3c, <1>3d, Counted
  <1>6. /\ tokens + held = Limit /\ backlogTokens + owing = Limit + BacklogLimit
        /\ tokens \in Nat /\ backlogTokens \in Nat
        /\ handling \in [ArtworkRequests -> Throttle!Stages]
    <2>1. tokens + held = Limit /\ backlogTokens + owing = Limit + BacklogLimit
      BY ThrottleCardinality DEF ThrottleInv, Throttle!TokensAreHeld, handled, debtors, Owing
    <2> QED
      BY <1>2, <2>1 DEF ThrottleInv, Throttle!TypeOK
  <1>7. handling' \in [ArtworkRequests -> Throttle!Stages] /\ handling'[r] = s
    BY <1>3, <1>6 DEF Throttle!Goto
  <1> HIDE DEF held, owing
  <1> DEFINE Kept == tokens' + held' = Limit /\ backlogTokens' + owing' = Limit + BacklogLimit
                     /\ tokens' \in Nat /\ backlogTokens' \in Nat
  <1>a. ASSUME Throttle!Admit(r) \/ Throttle!Refuse(r)
        PROVE  Kept
    BY <1>a, <1>2, <1>4, <1>5, <1>6, <1>7
       DEF Throttle!Admit, Throttle!Refuse, Throttle!Goto, Owing
  <1>b. ASSUME Throttle!TakeToken(r) \/ Throttle!Wait(r) \/ Throttle!GiveUp(r)
        PROVE  Kept
    BY <1>b, <1>2, <1>4, <1>5, <1>6, <1>7
       DEF Throttle!TakeToken, Throttle!Wait, Throttle!GiveUp, Throttle!Goto, Owing
  <1>c. ASSUME Throttle!ReturnBacklog(r) \/ Throttle!Release(r) \/ Throttle!ReleaseBacklog(r)
        PROVE  Kept
    BY <1>c, <1>2, <1>4, <1>5, <1>6, <1>7
       DEF Throttle!ReturnBacklog, Throttle!Returned, Throttle!Release, Throttle!ReleaseBacklog,
           Throttle!Goto, Owing
  <1>d. ASSUME Throttle!Again(r)
        PROVE  Kept
    BY <1>d, <1>2, <1>4, <1>5, <1>6, <1>7 DEF Throttle!Again, Throttle!Goto, Owing
  <1>8. Kept
    BY <1>1, <1>a, <1>b, <1>c, <1>d
  <1> USE DEF Kept
  <1>9. tokens' \in 0 .. Limit /\ backlogTokens' \in 0 .. Limit + BacklogLimit
    <2>1. held' \in Nat /\ owing' \in Nat
      BY <1>4, <1>5
    <2>2. /\ tokens' + held' = Limit /\ backlogTokens' + owing' = Limit + BacklogLimit
          /\ tokens' \in Nat /\ backlogTokens' \in Nat
      BY <1>8
    <2>3. \A a, b, c \in Nat : a + b = c => a \in 0 .. c
      OBVIOUS
    <2>4. Limit + BacklogLimit \in Nat
      BY <1>2
    <2> QED
      BY <1>2, <2>1, <2>2, <2>3, <2>4
  <1>10. Throttle!TokensAreHeld'
    BY <1>8, ThrottleCardinality DEF Throttle!TokensAreHeld, handled, held, debtors, owing, Owing
  <1> QED
    BY <1>4, <1>5, <1>7, <1>9, <1>10 DEF ThrottleInv, Throttle!TypeOK, handled, debtors

-----------------------------------------------------------------------------
(* The limiter *)

LEMMA LimiterCardinality == \A S : Limiter!Cardinality(S) = Cardinality(S)
  BY DEF Limiter!Cardinality, Cardinality

Holding == Limiter!Stages \ {"idle"}

\* The slots, and that a transcode that is closing has no process any more.
LimiterInv ==
    /\ Limiter!TypeOK /\ Limiter!SlotsAreHeld
    /\ IsFiniteSet(Limiter!At(Limiter!Running)) /\ IsFiniteSet(Limiter!At(Holding))
    /\ \A r \in ffmpeg : transcode[r] # "closing"

\* The slots of the server, when a request moves on.
LEMMA GlobalStep ==
  ASSUME LimiterInv, NEW r \in Transcodes, NEW s \in Limiter!Stages, Limiter!Goto(r, s),
         MaxConcurrent \in Nat,
         \/ /\ global' = IF MaxConcurrent > 0 THEN global + 1 ELSE global
            /\ transcode[r] \notin Limiter!Running /\ s \in Limiter!Running
            /\ MaxConcurrent > 0 => global < MaxConcurrent
         \/ /\ global' = IF MaxConcurrent > 0 THEN global - 1 ELSE global
            /\ transcode[r] \in Limiter!Running /\ s \notin Limiter!Running
         \/ global' = global /\ (transcode[r] \in Limiter!Running <=> s \in Limiter!Running)
  PROVE  /\ global' \in Nat /\ IsFiniteSet(Limiter!At(Limiter!Running)')
         /\ MaxConcurrent > 0 => /\ global' = Cardinality(Limiter!At(Limiter!Running)')
                                 /\ global' <= MaxConcurrent
  <1> DEFINE running == Limiter!At(Limiter!Running)
             slots   == Cardinality(running)
  <1>1. /\ global \in Nat /\ IsFiniteSet(running)
        /\ MaxConcurrent > 0 => global = slots /\ global <= MaxConcurrent
    BY LimiterCardinality DEF LimiterInv, Limiter!TypeOK, Limiter!SlotsAreHeld
  <1>2. /\ \A q \in Transcodes \ {r} : transcode'[q] = transcode[q]
        /\ transcode'[r] = s
    BY DEF LimiterInv, Limiter!TypeOK, Limiter!Goto
  <1>3. running' = IF s \in Limiter!Running THEN running \cup {r} ELSE running \ {r}
    BY <1>2 DEF Limiter!At
  <1>4. r \in running <=> transcode[r] \in Limiter!Running
    BY DEF Limiter!At
  <1> HIDE DEF running
  <1>5. /\ IsFiniteSet(running') /\ slots \in Nat /\ slots' \in Nat
        /\ (transcode[r] \in Limiter!Running <=> s \in Limiter!Running) => slots' = slots
        /\ transcode[r] \in Limiter!Running /\ s \notin Limiter!Running => slots' = slots - 1
        /\ transcode[r] \notin Limiter!Running /\ s \in Limiter!Running => slots' = slots + 1
    BY <1>1, <1>3, <1>4, Counted
  <1> HIDE DEF slots
  <1>6. MaxConcurrent > 0 => global' = slots' /\ global' <= MaxConcurrent
    BY <1>1, <1>5
  <1>7. global' \in Nat
    BY <1>1, <1>5, <1>6
  <1> QED
    BY <1>5, <1>6, <1>7 DEF running, slots

\* The slots of a user.
LEMMA UserStep ==
  ASSUME LimiterInv, NEW r \in Transcodes, NEW s \in Limiter!Stages, Limiter!Goto(r, s),
         MaxPerUser \in Nat, DOMAIN TranscodeUser = Transcodes,
         \/ /\ perUser' = IF Limiter!PerUserActive(r)
                          THEN [perUser EXCEPT ![TranscodeUser[r]] = @ + 1] ELSE perUser
            /\ transcode[r] = "idle" /\ s # "idle"
            /\ Limiter!PerUserActive(r) => perUser[TranscodeUser[r]] < MaxPerUser
         \/ /\ Limiter!ReleasePerUser(r)
            /\ transcode[r] # "idle" /\ s = "idle"
         \/ perUser' = perUser /\ (transcode[r] = "idle" <=> s = "idle")
  PROVE  /\ perUser' \in [Limiter!Users -> Nat] /\ IsFiniteSet(Limiter!At(Holding)')
         /\ MaxPerUser > 0 => \A u \in Limiter!Users :
                /\ perUser'[u] = Cardinality({q \in Limiter!At(Holding)' : TranscodeUser[q] = u})
                /\ perUser'[u] <= MaxPerUser
  <1> DEFINE holders == Limiter!At(Holding)
             of(u)   == {q \in holders : TranscodeUser[q] = u}
             after(u) == {q \in holders' : TranscodeUser[q] = u}
  <1>1. /\ perUser \in [Limiter!Users -> Nat] /\ IsFiniteSet(holders)
        /\ MaxPerUser > 0 => \A u \in Limiter!Users :
               perUser[u] = Cardinality(of(u)) /\ perUser[u] <= MaxPerUser
    BY LimiterCardinality DEF LimiterInv, Limiter!TypeOK, Limiter!SlotsAreHeld, Holding
  <1>2. /\ \A q \in Transcodes \ {r} : transcode'[q] = transcode[q]
        /\ transcode'[r] = s /\ transcode[r] \in Limiter!Stages
    BY DEF LimiterInv, Limiter!TypeOK, Limiter!Goto
  <1>3. holders' = IF s # "idle" THEN holders \cup {r} ELSE holders \ {r}
    BY <1>2 DEF Limiter!At, Holding
  <1>4. r \in holders <=> transcode[r] # "idle"
    BY <1>2 DEF Limiter!At, Holding
  <1> HIDE DEF holders
  <1>5. IsFiniteSet(holders')
    BY <1>1, <1>3, Counted
  <1>6. ASSUME MaxPerUser > 0, NEW u \in Limiter!Users
        PROVE  /\ perUser'[u] = Cardinality(after(u)) /\ perUser'[u] <= MaxPerUser
               /\ perUser'[u] \in Nat
    <2>1. IsFiniteSet(of(u))
      BY <1>1, FS_Subset
    <2>2. perUser[u] = Cardinality(of(u)) /\ perUser[u] <= MaxPerUser /\ perUser[u] \in Nat
      BY <1>1, <1>6
    <2>3. CASE TranscodeUser[r] = u
      <3>1. after(u) = IF s # "idle" THEN of(u) \cup {r} ELSE of(u) \ {r}
        BY <1>3, <2>3
      <3>2. r \in of(u) <=> transcode[r] # "idle"
        BY <1>4, <2>3
      <3>3. r \in after(u) <=> s # "idle"
        BY <3>1
      <3> HIDE DEF of, after
      <3>4. /\ Cardinality(after(u)) \in Nat
            /\ (transcode[r] # "idle" <=> s # "idle") => Cardinality(after(u)) = Cardinality(of(u))
            /\ transcode[r] # "idle" /\ s = "idle" => Cardinality(after(u)) = Cardinality(of(u)) - 1
            /\ transcode[r] = "idle" /\ s # "idle" => Cardinality(after(u)) = Cardinality(of(u)) + 1
        BY <2>1, <3>1, <3>2, <3>3, Counted
      <3>5. Limiter!PerUserActive(r)
        BY <1>6, <2>3 DEF Limiter!PerUserActive, Limiter!Users
      <3>6. \/ perUser'[u] = perUser[u] + 1 /\ transcode[r] = "idle" /\ s # "idle"
               /\ perUser[u] < MaxPerUser
            \/ perUser'[u] = perUser[u] - 1 /\ transcode[r] # "idle" /\ s = "idle"
            \/ perUser'[u] = perUser[u] /\ (transcode[r] = "idle" <=> s = "idle")
        BY <1>1, <2>3, <3>5 DEF Limiter!ReleasePerUser
      <3> QED
        BY <2>2, <3>4, <3>6
    <2>4. CASE TranscodeUser[r] # u
      <3>1. after(u) = of(u)
        BY <1>3, <2>4
      <3>2. perUser'[u] = perUser[u]
        BY <1>1, <2>4 DEF Limiter!ReleasePerUser
      <3> QED
        BY <2>2, <3>1, <3>2
    <2> QED
      BY <2>3, <2>4
  <1>7. perUser' \in [Limiter!Users -> Nat]
    <2>1. CASE MaxPerUser > 0
      <3>1. perUser' = [u \in Limiter!Users |-> perUser'[u]]
        BY <1>1 DEF Limiter!ReleasePerUser
      <3> QED
        BY <1>6, <2>1, <3>1
    <2>2. CASE ~(MaxPerUser > 0)
      BY <1>1, <2>2 DEF Limiter!PerUserActive, Limiter!ReleasePerUser
    <2> QED
      BY <2>1, <2>2
  <1> QED
    BY <1>5, <1>6, <1>7 DEF holders

LEMMA LimiterStep ==
  ASSUME LimiterInv, Limiter!Next
  PROVE  LimiterInv'
  <1>1. PICK r \in Transcodes :
            \/ Limiter!Reserve(r) \/ Limiter!Take(r) \/ Limiter!Refuse(r) \/ Limiter!Transcode(r)
            \/ Limiter!Alive(r) \/ Limiter!StartFails(r) \/ Limiter!CloseReader(r)
            \/ Limiter!ReleaseGlobal(r) \/ Limiter!ReleaseUser(r)
    BY DEF Limiter!Next
  <1>2. /\ MaxConcurrent \in Nat /\ MaxPerUser \in Nat /\ DOMAIN TranscodeUser = Transcodes
    BY ResourcesAssumption DEF Limiter!LimiterAssumption
  <1>3. transcode \in [Transcodes -> Limiter!Stages] /\ ffmpeg \subseteq Transcodes
    BY DEF LimiterInv, Limiter!TypeOK
  \* what is left to show of an action: the stages it relates, and the slots
  <1>a. ASSUME NEW s \in Limiter!Stages, Limiter!Goto(r, s),
               \/ /\ global' = IF MaxConcurrent > 0 THEN global + 1 ELSE global
                  /\ transcode[r] \notin Limiter!Running /\ s \in Limiter!Running
                  /\ MaxConcurrent > 0 => global < MaxConcurrent
               \/ /\ global' = IF MaxConcurrent > 0 THEN global - 1 ELSE global
                  /\ transcode[r] \in Limiter!Running /\ s \notin Limiter!Running
               \/ global' = global /\ (transcode[r] \in Limiter!Running <=> s \in Limiter!Running),
               \/ /\ perUser' = IF Limiter!PerUserActive(r)
                                THEN [perUser EXCEPT ![TranscodeUser[r]] = @ + 1] ELSE perUser
                  /\ transcode[r] = "idle" /\ s # "idle"
                  /\ Limiter!PerUserActive(r) => perUser[TranscodeUser[r]] < MaxPerUser
               \/ /\ Limiter!ReleasePerUser(r)
                  /\ transcode[r] # "idle" /\ s = "idle"
               \/ perUser' = perUser /\ (transcode[r] = "idle" <=> s = "idle"),
               ffmpeg' \subseteq ffmpeg \cup {r},
               r \in ffmpeg' => s \in Limiter!Running \ {"closing"}
        PROVE  LimiterInv'
    <2>1. /\ global' \in Nat /\ IsFiniteSet(Limiter!At(Limiter!Running)')
          /\ MaxConcurrent > 0 => /\ global' = Cardinality(Limiter!At(Limiter!Running)')
                                  /\ global' <= MaxConcurrent
      BY <1>2, <1>a, GlobalStep
    <2>2. /\ perUser' \in [Limiter!Users -> Nat] /\ IsFiniteSet(Limiter!At(Holding)')
          /\ MaxPerUser > 0 => \A u \in Limiter!Users :
                 /\ perUser'[u] = Cardinality({q \in Limiter!At(Holding)' : TranscodeUser[q] = u})
                 /\ perUser'[u] <= MaxPerUser
      BY <1>2, <1>a, UserStep
    <2>3. /\ \A q \in Transcodes \ {r} : transcode'[q] = transcode[q]
          /\ transcode'[r] = s /\ transcode' \in [Transcodes -> Limiter!Stages]
      BY <1>3, <1>a DEF Limiter!Goto
    <2>4. ffmpeg' \subseteq Transcodes
      BY <1>3, <1>a
    <2>5. \A q \in ffmpeg : transcode[q] \in Limiter!Running \ {"closing"}
      BY DEF LimiterInv, Limiter!SlotsAreHeld, Limiter!At
    <2>6. \A q \in ffmpeg' : transcode'[q] \in Limiter!Running \ {"closing"}
      BY <1>3, <1>a, <2>3, <2>5
    <2>7. ffmpeg' \subseteq Limiter!At(Limiter!Running)'
      BY <2>4, <2>6 DEF Limiter!At
    <2>8. Limiter!TypeOK'
      BY <2>1, <2>2, <2>3, <2>4 DEF Limiter!TypeOK
    <2>9. Limiter!SlotsAreHeld'
      BY <2>1, <2>2, <2>7, LimiterCardinality DEF Limiter!SlotsAreHeld, Holding
    <2> QED
      BY <2>1, <2>2, <2>6, <2>8, <2>9 DEF LimiterInv
  <1>b. \A q \in ffmpeg : transcode[q] \in Limiter!Running \ {"closing"}
    BY DEF LimiterInv, Limiter!SlotsAreHeld, Limiter!At
  <1> USE DEF Limiter!Running, Limiter!Stages
  <1>4. CASE Limiter!Reserve(r)
    BY <1>3, <1>4, <1>a, <1>b DEF Limiter!Reserve
  <1>5. CASE Limiter!Take(r)
    BY <1>3, <1>5, <1>a, <1>b DEF Limiter!Take, Limiter!Free
  <1>6. CASE Limiter!Refuse(r)
    BY <1>3, <1>6, <1>a, <1>b DEF Limiter!Refuse, Limiter!Rollback
  <1>7. CASE Limiter!Transcode(r)
    <2>1. CASE r \in RemoteTranscodes
      <3>1. Limiter!Goto(r, transcode[r])
        BY <1>3, <1>7, <2>1 DEF Limiter!Transcode, Limiter!Goto
      <3> QED
        BY <1>3, <1>7, <1>a, <1>b, <2>1, <3>1 DEF Limiter!Transcode
    <2>2. CASE r \notin RemoteTranscodes
      BY <1>3, <1>7, <1>a, <1>b, <2>2 DEF Limiter!Transcode
    <2> QED
      BY <2>1, <2>2
  <1>8. CASE Limiter!Alive(r)
    BY <1>3, <1>8, <1>a, <1>b DEF Limiter!Alive
  <1>9. CASE Limiter!StartFails(r)
    BY <1>3, <1>9, <1>a, <1>b DEF Limiter!StartFails, Limiter!AfterFailure
  <1>10. CASE Limiter!CloseReader(r)
    BY <1>3, <1>10, <1>a, <1>b DEF Limiter!CloseReader
  <1>11. CASE Limiter!ReleaseGlobal(r)
    BY <1>3, <1>11, <1>a, <1>b DEF Limiter!ReleaseGlobal
  <1>12. CASE Limiter!ReleaseUser(r)
    BY <1>3, <1>12, <1>a, <1>b DEF Limiter!ReleaseUser
  <1> QED
    BY <1>1, <1>4, <1>5, <1>6, <1>7, <1>8, <1>9, <1>10, <1>11, <1>12

-----------------------------------------------------------------------------
(* Capacity *)

LEMMA InitCapacity ==
  ASSUME Init
  PROVE  ThrottleInv /\ LimiterInv
  <1>0. Limit \in Nat /\ BacklogLimit \in Nat /\ MaxConcurrent \in Nat /\ MaxPerUser \in Nat
    BY ResourcesAssumption DEF Throttle!ThrottleAssumption, Limiter!LimiterAssumption
  <1>1. Throttle!Init /\ Limiter!Init
    BY DEF Init
  <1>2. Throttle!At({"handled"}) = {} /\ Throttle!At(Owing) = {}
    BY <1>1 DEF Throttle!Init, Throttle!At, Owing
  <1>3. Limiter!At(Limiter!Running) = {} /\ Limiter!At(Holding) = {}
    BY <1>1 DEF Limiter!Init, Limiter!At, Limiter!Running, Holding
  <1>4. IsFiniteSet({}) /\ Cardinality({}) = 0
    BY FS_EmptySet
  <1>5. Throttle!TypeOK
    BY <1>0, <1>1 DEF Throttle!Init, Throttle!TypeOK, Throttle!Stages
  <1>6. Throttle!TokensAreHeld
    BY <1>0, <1>1, <1>2, <1>4, ThrottleCardinality DEF Throttle!Init, Throttle!TokensAreHeld, Owing
  <1>7. Limiter!TypeOK
    BY <1>1 DEF Limiter!Init, Limiter!TypeOK, Limiter!Stages
  <1>8. ASSUME NEW u \in Limiter!Users
        PROVE  {r \in Limiter!At(Holding) : TranscodeUser[r] = u} = {}
    BY <1>3
  <1>9. Limiter!SlotsAreHeld
    BY <1>0, <1>1, <1>3, <1>4, <1>8, LimiterCardinality
       DEF Limiter!Init, Limiter!SlotsAreHeld, Holding
  <1> QED
    BY <1>1, <1>2, <1>3, <1>4, <1>5, <1>6, <1>7, <1>9 DEF ThrottleInv, LimiterInv, Limiter!Init

CapacityInv ==
    /\ component = "throttle" => ThrottleInv
    /\ component = "limiter" => LimiterInv

LEMMA CapacityHolds == Spec => []CapacityInv
  <1> USE DEF CapacityInv
  <1>1. Init => CapacityInv
    BY InitCapacity
  <1>2. CapacityInv /\ [Next]_vars => CapacityInv'
    <2> SUFFICES ASSUME CapacityInv, [Next]_vars
                 PROVE  CapacityInv'
      OBVIOUS
    <2>1. component' = component
      BY DEF Next, vars
    <2>2. CASE component = "throttle"
      <3>1. CASE Next
        <4>1. Throttle!Next
          BY <2>2, <3>1 DEF Next
        <4> QED
          BY <2>1, <2>2, <4>1, ThrottleStep
      <3>2. CASE UNCHANGED vars
        <4>1. UNCHANGED throttleVars
          BY <3>2 DEF vars, streaming, limits
        <4> QED
          BY <2>1, <2>2, <4>1
             DEF throttleVars, ThrottleInv, Throttle!TypeOK, Throttle!TokensAreHeld, Throttle!At
      <3> QED
        BY <3>1, <3>2
    <2>3. CASE component = "limiter"
      <3>1. CASE Next
        <4>1. Limiter!Next
          BY <2>3, <3>1 DEF Next
        <4> QED
          BY <2>1, <2>3, <4>1, LimiterStep
      <3>2. CASE UNCHANGED vars
        <4>1. UNCHANGED limiterVars
          BY <3>2 DEF vars, streaming, limits
        <4> QED
          BY <2>1, <2>3, <4>1
             DEF limiterVars, LimiterInv, Limiter!TypeOK, Limiter!SlotsAreHeld, Limiter!At
      <3> QED
        BY <3>1, <3>2
    <2> QED
      BY <2>1, <2>2, <2>3
  <1> QED
    BY <1>1, <1>2, PTL DEF Spec

\* Slots and tokens are neither lost nor given twice: whatever requests are refused, fail,
\* retry, give up or are closed, those missing are held by requests under way, and no cap is
\* exceeded (transcodeLimiter and requestThrottle).
THEOREM CapacityIsHeldHolds == Spec => []CapacityIsHeld
  <1>1. CapacityInv => CapacityIsHeld
    BY DEF CapacityInv, CapacityIsHeld, ThrottleInv, LimiterInv
  <1> QED
    BY <1>1, CapacityHolds, PTL

-----------------------------------------------------------------------------
(* The cache *)

\* Streams are used in turn: the newest is the only one the entry, or the file, can be of.
StreamsInTurn ==
    /\ \A s \in Cache!Streams : s > last => stage[s] = "unused" /\ written[s] = 0
    /\ entry \in {Cache!None, last} /\ onDisk \in {Cache!None, last}
    /\ ~ready => /\ last = 0 /\ onDisk = Cache!None
                 /\ \A c \in CacheClients : client[c] = Cache!Nothing

\* What has been written of a stream: the file at the path is its own, and a source that
\* has not failed has yielded everything, but for a file that was adopted.
StreamsWhole ==
    /\ onDisk # Cache!None => data = written[onDisk]
    /\ \A s \in Cache!Streams :
           /\ stage[s] = "closed" /\ s \notin failed => written[s] = EntrySize
           /\ stage[s] = "settled" /\ s \notin failed => written[s] = EntrySize \/ s = 1
    /\ entry # Cache!None /\ stage[entry] = "settled" =>
           /\ entry \notin failed
           /\ data # Cache!Absent => written[entry] = EntrySize \/ misplaced

\* What a client holds is a stream in use; one whose size it was told has come to its end.
ClientsHold ==
    \A c \in CacheClients :
        /\ client[c].leads => client[c].stream # Cache!None
        /\ client[c].final => /\ client[c].stream # Cache!None
                              /\ stage[client[c].stream] \in {"closed", "settled"}

CacheInv ==
    /\ Cache!TypeOK /\ StreamsInTurn /\ StreamsWhole /\ ClientsHold
    /\ Cache!MarkedIsWhole /\ Cache!HitsAreWhole

LEMMA CacheFacts ==
  ASSUME TRUE
  PROVE  /\ EntrySize \in Nat \ {0} /\ MaxStreams \in Nat \ {0} /\ MaxStarts \in Nat
         /\ Cache!Outcomes \subseteq BOOLEAN
         /\ Cache!None = 0 /\ Cache!Absent = EntrySize + 1 /\ Cache!Streams = 1 .. MaxStreams
         /\ Cache!Sizes = 0 .. EntrySize
         /\ Cache!Absent \notin Cache!Sizes
  <1>1. EntrySize \in Nat \ {0} /\ MaxStreams \in Nat \ {0} /\ MaxStarts \in Nat
    BY ResourcesAssumption DEF Cache!CacheAssumption
  <1>2. Cache!Outcomes \subseteq BOOLEAN
    BY DEF Cache!Outcomes
  <1> QED
    BY <1>1, <1>2 DEF Cache!None, Cache!Absent, Cache!Streams, Cache!Sizes

\* The types of what a client holds.
Holds(n) == [stream : 0 .. n, leads : BOOLEAN, final : BOOLEAN, excused : BOOLEAN]

LEMMA HoldsMore ==
  ASSUME NEW m \in Nat, NEW n \in Nat, m <= n
  PROVE  Holds(m) \subseteq Holds(n) /\ Cache!Nothing \in Holds(m)
  BY DEF Holds, Cache!Nothing, Cache!None

\* The types of the cache's variables.
LEMMA CacheTypes ==
  ASSUME CacheInv
  PROVE  /\ data \in Cache!Sizes \cup {Cache!Absent} /\ marker \in BOOLEAN /\ sentinel \in BOOLEAN
         /\ starts \in 0 .. MaxStarts /\ ready \in BOOLEAN
         /\ entry \in Cache!Streams \cup {Cache!None} /\ last \in 0 .. MaxStreams
         /\ stage \in [Cache!Streams -> Cache!Stages] /\ written \in [Cache!Streams -> Cache!Sizes]
         /\ failed \subseteq 1 .. last /\ removing \subseteq 1 .. last
         /\ onDisk \in {Cache!None} \cup 1 .. last
         /\ client \in [CacheClients -> Holds(last)]
         /\ misplaced \in BOOLEAN
  BY DEF CacheInv, Cache!TypeOK, Holds

\* What is forgotten in a crash is nothing that the disk knows.
LEMMA CrashKeeps ==
  ASSUME CacheInv, Cache!Crash
  PROVE  CacheInv'
  <1> USE CacheFacts
  <1>1. /\ data' = data /\ marker' = marker /\ sentinel' = sentinel /\ misplaced' = misplaced
        /\ starts' = starts /\ ready' = FALSE
        /\ entry' = Cache!None /\ last' = 0 /\ failed' = {} /\ removing' = {}
        /\ onDisk' = Cache!None
        /\ stage' = [s \in Cache!Streams |-> "unused"] /\ written' = [s \in Cache!Streams |-> 0]
        /\ client' = [c \in CacheClients |-> Cache!Nothing]
    BY DEF Cache!Crash, Cache!NoStreams, Cache!disk
  <1>2. /\ client' \in [CacheClients -> Holds(last')]
        /\ stage' \in [Cache!Streams -> Cache!Stages] /\ written' \in [Cache!Streams -> Cache!Sizes]
    BY <1>1, HoldsMore DEF Cache!Stages
  <1>a. /\ last' \in 0 .. MaxStreams /\ failed' \subseteq 1 .. last' /\ removing' \subseteq 1 .. last'
        /\ entry' \in Cache!Streams \cup {Cache!None} /\ onDisk' \in {Cache!None} \cup 1 .. last'
        /\ ready' \in BOOLEAN
    <2>1. last' = 0 /\ entry' = 0 /\ onDisk' = 0
      BY <1>1
    <2>2. 0 \in 0 .. MaxStreams
      OBVIOUS
    <2> QED
      BY <1>1, <2>1, <2>2
  <1>b. /\ data' \in Cache!Sizes \cup {Cache!Absent} /\ marker' \in BOOLEAN /\ sentinel' \in BOOLEAN
        /\ starts' \in 0 .. MaxStarts /\ misplaced' \in BOOLEAN
    BY <1>1, CacheTypes
  <1>3. Cache!TypeOK'
    BY <1>2, <1>a, <1>b DEF Cache!TypeOK, Holds
  <1>4. StreamsInTurn'
    BY <1>1 DEF StreamsInTurn
  <1>5. StreamsWhole'
    BY <1>1 DEF StreamsWhole
  <1>6. ClientsHold' /\ Cache!HitsAreWhole'
    BY <1>1 DEF ClientsHold, Cache!HitsAreWhole, Cache!Nothing
  <1>7. Cache!MarkedIsWhole'
    BY <1>1 DEF CacheInv, Cache!MarkedIsWhole
  <1> QED
    BY <1>3, <1>4, <1>5, <1>6, <1>7 DEF CacheInv

\* A start adopts a whole file, or one whose marker was not its own.
LEMMA StartKeeps ==
  ASSUME CacheInv, Cache!Start
  PROVE  CacheInv'
  <1> USE CacheFacts
  <1>0. /\ ~ready /\ ready' = TRUE /\ starts' \in 0 .. MaxStarts /\ client' = client
        /\ sentinel' \in BOOLEAN
    BY CacheTypes DEF Cache!Start
  <1>1. /\ last = 0 /\ onDisk = Cache!None /\ entry = Cache!None
        /\ \A c \in CacheClients : client[c] = Cache!Nothing
        /\ \A s \in Cache!Streams : stage[s] = "unused" /\ written[s] = 0
        /\ failed = {} /\ removing = {}
    BY <1>0, CacheTypes DEF CacheInv, StreamsInTurn
  <1>2. ClientsHold' /\ Cache!HitsAreWhole'
    BY <1>0, <1>1 DEF ClientsHold, Cache!HitsAreWhole, Cache!Nothing
  <1>3. client' \in [CacheClients -> Holds(0)] /\ client' \in [CacheClients -> Holds(1)]
    BY <1>0, <1>1, CacheTypes, HoldsMore
  <1>4. CASE data = Cache!Absent \/ ~\E marked \in BOOLEAN : Cache!Adopt(marked)
    <2>1. \/ data' = Cache!Absent /\ marker' = FALSE /\ misplaced' = FALSE
          \/ data' = data /\ marker' = marker /\ misplaced' = misplaced
      BY <1>4 DEF Cache!Start, Cache!Reload, Cache!Discard, Cache!Skip
    <2>2. /\ entry' = entry /\ last' = last /\ stage' = stage /\ written' = written
          /\ failed' = failed /\ removing' = removing /\ onDisk' = onDisk
      BY <1>4 DEF Cache!Start, Cache!Reload, Cache!Discard, Cache!Skip, Cache!streams
    <2>3. Cache!TypeOK'
      BY <1>0, <1>1, <1>3, <2>1, <2>2, CacheTypes DEF Cache!TypeOK, Holds
    <2>4. StreamsInTurn' /\ StreamsWhole'
      BY <1>0, <1>1, <2>1, <2>2 DEF StreamsInTurn, StreamsWhole
    <2>5. Cache!MarkedIsWhole'
      BY <2>1 DEF CacheInv, Cache!MarkedIsWhole
    <2> QED
      BY <1>2, <2>3, <2>4, <2>5 DEF CacheInv
  <1>5. ASSUME NEW marked \in BOOLEAN, Cache!Adopt(marked), data # Cache!Absent
        PROVE  CacheInv'
    <2>1. /\ marker' = marked /\ data' = data /\ entry' = 1 /\ last' = 1 /\ onDisk' = 1
          /\ failed' = failed /\ removing' = removing
          /\ stage' = [stage EXCEPT ![1] = "settled"] /\ written' = [written EXCEPT ![1] = data]
      BY <1>5 DEF Cache!Adopt
    <2>2. data \in Cache!Sizes /\ (marker => data = EntrySize \/ misplaced)
      BY <1>5, CacheTypes DEF CacheInv, Cache!MarkedIsWhole
    <2>3. misplaced' \in BOOLEAN
      <3>1. (data < EntrySize) \in BOOLEAN /\ misplaced \in BOOLEAN
        BY CacheTypes
      <3>2. misplaced' = misplaced \/ misplaced' = (data < EntrySize)
        BY <1>5 DEF Cache!Adopt
      <3> QED
        BY <3>1, <3>2
    <2>4. data = EntrySize \/ misplaced'
      <3>1. CASE marker
        BY <1>5, <2>2, <3>1 DEF Cache!Adopt
      <3>2. CASE ~marker
        <4>1. misplaced' = (data < EntrySize)
          BY <1>5, <3>2 DEF Cache!Adopt
        <4>2. data = EntrySize \/ data < EntrySize
          BY <2>2
        <4> QED
          BY <4>1, <4>2
      <3> QED
        BY <3>1, <3>2
    <2>5. /\ stage' \in [Cache!Streams -> Cache!Stages] /\ stage'[1] = "settled"
          /\ written' \in [Cache!Streams -> Cache!Sizes] /\ written'[1] = data
          /\ \A s \in Cache!Streams \ {1} : stage'[s] = "unused" /\ written'[s] = 0
      BY <1>1, <2>1, <2>2, CacheTypes DEF Cache!Stages
    <2>6. Cache!TypeOK'
      BY <1>0, <1>1, <1>3, <2>1, <2>2, <2>3, <2>5 DEF Cache!TypeOK, Holds
    <2>7. StreamsInTurn'
      BY <1>0, <2>1, <2>5 DEF StreamsInTurn
    <2>8. StreamsWhole'
      BY <1>1, <2>1, <2>4, <2>5 DEF StreamsWhole
    <2>9. Cache!MarkedIsWhole'
      BY <2>1, <2>4 DEF Cache!MarkedIsWhole
    <2> QED
      BY <1>2, <2>6, <2>7, <2>8, <2>9 DEF CacheInv
  <1> QED
    BY <1>4, <1>5

\* A client that joins is told the size of a stream that has ended.
LEMMA JoinKeeps ==
  ASSUME CacheInv, NEW c \in CacheClients, Cache!Join(c)
  PROVE  CacheInv'
  <1> USE CacheFacts
  <1>1. /\ data' = data /\ marker' = marker /\ sentinel' = sentinel /\ misplaced' = misplaced
        /\ starts' = starts /\ ready' = ready /\ entry' = entry /\ last' = last
        /\ stage' = stage /\ written' = written /\ failed' = failed /\ removing' = removing
        /\ onDisk' = onDisk
    BY DEF Cache!Join, Cache!disk, Cache!server, Cache!streams
  <1> DEFINE joined == [stream |-> entry, leads |-> FALSE,
                        final |-> stage[entry] \in {"closed", "settled"},
                        excused |-> stage[entry] = "closed" \/ misplaced]
  <1>2. /\ ready /\ entry # Cache!None /\ data # Cache!Absent
        /\ client' = [client EXCEPT ![c] = joined]
    BY DEF Cache!Join
  <1>3. entry = last /\ entry \in Cache!Streams
    BY <1>2, CacheTypes DEF CacheInv, StreamsInTurn
  <1>4. joined \in Holds(last)
    BY <1>3 DEF Holds
  <1>5. /\ client' \in [CacheClients -> Holds(last)] /\ client'[c] = joined
        /\ \A d \in CacheClients \ {c} : client'[d] = client[d]
    BY <1>2, <1>4, CacheTypes
  <1>6. Cache!TypeOK'
    BY <1>1, <1>5, CacheTypes DEF Cache!TypeOK, Holds
  <1>7. StreamsInTurn' /\ StreamsWhole' /\ Cache!MarkedIsWhole'
    BY <1>1, <1>2 DEF CacheInv, StreamsInTurn, StreamsWhole, Cache!MarkedIsWhole
  <1>8. ClientsHold'
    BY <1>1, <1>2, <1>5 DEF CacheInv, ClientsHold
  <1>9. joined.final => written[joined.stream] = EntrySize \/ joined.excused
    BY <1>2, <1>3 DEF CacheInv, StreamsWhole
  <1>10. Cache!HitsAreWhole'
    BY <1>1, <1>5, <1>9 DEF CacheInv, Cache!HitsAreWhole
  <1> QED
    BY <1>6, <1>7, <1>8, <1>10 DEF CacheInv

\* A miss is the next stream, and what it says of the marker it finds is true.
LEMMA MissKeeps ==
  ASSUME CacheInv, NEW c \in CacheClients, Cache!Miss(c)
  PROVE  CacheInv'
  <1> USE CacheFacts
  <1> DEFINE missed == [stream |-> last', leads |-> TRUE, final |-> FALSE, excused |-> FALSE]
  <1>1. /\ data' = 0 /\ marker' = marker /\ sentinel' = sentinel /\ misplaced' = marker
        /\ starts' = starts /\ ready' = ready /\ ready /\ last < MaxStreams
        /\ last' = last + 1 /\ entry' = last' /\ onDisk' = last'
        /\ stage' = [stage EXCEPT ![last'] = "opening"] /\ written' = written
        /\ failed' = failed /\ removing' = removing
        /\ client' = [client EXCEPT ![c] = missed]
    BY DEF Cache!Miss, Cache!server
  <1>2. last \in 0 .. MaxStreams /\ last' \in Cache!Streams /\ last' \in 1 .. MaxStreams
    BY <1>1, CacheTypes
  <1>3. stage[last'] = "unused" /\ written[last'] = 0
    BY <1>1, <1>2 DEF CacheInv, StreamsInTurn
  <1>4. /\ stage' \in [Cache!Streams -> Cache!Stages] /\ stage'[last'] = "opening"
        /\ \A s \in Cache!Streams \ {last'} : stage'[s] = stage[s]
    BY <1>1, <1>2, CacheTypes DEF Cache!Stages
  <1>5. missed \in Holds(last')
    <2>1. last' \in 0 .. last'
      BY <1>2
    <2> QED
      BY <2>1 DEF Holds
  <1>6. client \in [CacheClients -> Holds(last')]
    BY <1>1, <1>2, CacheTypes, HoldsMore
  <1>7. /\ client' \in [CacheClients -> Holds(last')]
        /\ \A d \in CacheClients \ {c} : client'[d] = client[d]
        /\ client'[c].stream = last' /\ client'[c].final = FALSE
    BY <1>1, <1>5, <1>6
  <1>8. Cache!TypeOK'
    <2>1. 1 .. last \subseteq 1 .. last' /\ failed' \subseteq 1 .. last' /\ removing' \subseteq 1 .. last'
      BY <1>1, <1>2, CacheTypes
    <2>2. /\ onDisk' \in 1 .. last' /\ last' \in 0 .. MaxStreams
          /\ data' \in Cache!Sizes /\ misplaced' \in BOOLEAN
      BY <1>1, <1>2, CacheTypes
    <2> QED
      BY <1>1, <1>2, <1>4, <1>7, <2>1, <2>2, CacheTypes DEF Cache!TypeOK, Holds
  <1>9. StreamsInTurn'
    BY <1>1, <1>2, <1>4 DEF CacheInv, StreamsInTurn
  <1>10. StreamsWhole'
    BY <1>1, <1>2, <1>3, <1>4 DEF CacheInv, StreamsWhole
  <1>11. ASSUME NEW d \in CacheClients, client[d].final
         PROVE  stage'[client[d].stream] = stage[client[d].stream]
    <2>1. client[d].stream \in 0 .. last /\ client[d].stream # Cache!None
      BY <1>11, CacheTypes DEF CacheInv, ClientsHold, Holds
    <2> QED
      BY <1>1, <1>2, <1>4, <2>1
  <1>12. ClientsHold'
    BY <1>1, <1>2, <1>7, <1>11 DEF CacheInv, ClientsHold
  <1>13. Cache!HitsAreWhole'
    BY <1>1, <1>7 DEF CacheInv, Cache!HitsAreWhole
  <1>14. Cache!MarkedIsWhole'
    BY <1>1 DEF Cache!MarkedIsWhole
  <1> QED
    BY <1>8, <1>9, <1>10, <1>12, <1>13, <1>14 DEF CacheInv

\* A stream that is opened, or whose source fails to open, is nobody's whose size is known.
LEMMA OpeningKeeps ==
  ASSUME CacheInv, NEW c \in CacheClients, Cache!Opened(c) \/ Cache!OpenFails(c)
  PROVE  CacheInv'
  <1> USE CacheFacts
  <1> DEFINE s == client[c].stream
  <1>1. /\ data' = data /\ marker' = marker /\ sentinel' = sentinel /\ misplaced' = misplaced
        /\ starts' = starts /\ ready' = ready /\ entry' = entry /\ last' = last
        /\ written' = written /\ removing' = removing /\ onDisk' = onDisk
    BY DEF Cache!Opened, Cache!OpenFails, Cache!disk, Cache!server
  <1>2. client[c].leads /\ stage[s] = "opening"
    BY DEF Cache!Opened, Cache!OpenFails, Cache!Opening
  <1>3. s \in Cache!Streams /\ s \in 1 .. last
    BY <1>2, CacheTypes DEF CacheInv, ClientsHold, Holds
  <1>4. \/ /\ stage' = [stage EXCEPT ![s] = "copying"] /\ failed' = failed /\ client' = client
        \/ /\ stage' = [stage EXCEPT ![s] = "closed"] /\ failed' = failed \cup {s}
           /\ client' = [client EXCEPT ![c] = Cache!Nothing]
    BY DEF Cache!Opened, Cache!OpenFails
  <1>5. /\ stage' \in [Cache!Streams -> Cache!Stages]
        /\ stage'[s] = "copying" \/ (stage'[s] = "closed" /\ s \in failed')
        /\ \A t \in Cache!Streams \ {s} : stage'[t] = stage[t] /\ (t \in failed' <=> t \in failed)
        /\ failed' \subseteq 1 .. last
    <2>1. stage \in [Cache!Streams -> Cache!Stages] /\ failed \subseteq 1 .. last
      BY CacheTypes
    <2> HIDE DEF s
    <2>2. CASE stage' = [stage EXCEPT ![s] = "copying"] /\ failed' = failed
      BY <1>3, <2>1, <2>2 DEF Cache!Stages
    <2>3. CASE stage' = [stage EXCEPT ![s] = "closed"] /\ failed' = failed \cup {s}
      BY <1>3, <2>1, <2>3 DEF Cache!Stages
    <2> QED
      BY <1>4, <2>2, <2>3
  <1>6. client' \in [CacheClients -> Holds(last)]
    <2>1. last \in Nat /\ client \in [CacheClients -> Holds(last)]
      BY CacheTypes
    <2>2. Cache!Nothing \in Holds(last)
      BY <2>1, HoldsMore
    <2>3. client' = client \/ client' = [client EXCEPT ![c] = Cache!Nothing]
      BY <1>4
    <2> QED
      BY ONLY <2>1, <2>2, <2>3
  <1>7. \A d \in CacheClients : client'[d] = client[d] \/ client'[d] = Cache!Nothing
    BY <1>4, CacheTypes
  <1>8. Cache!TypeOK'
    BY <1>1, <1>5, <1>6, CacheTypes DEF Cache!TypeOK, Holds
  <1>9. StreamsInTurn'
    <2>1. ~(s > last) /\ last > 0
      BY <1>3, CacheTypes
    <2> QED
      BY <1>1, <1>5, <1>7, <2>1 DEF CacheInv, StreamsInTurn
  <1>10. StreamsWhole'
    BY <1>1, <1>2, <1>3, <1>5, CacheTypes DEF CacheInv, StreamsWhole
  <1>11. ASSUME NEW d \in CacheClients, client'[d].final
         PROVE  /\ client'[d] = client[d] /\ client[d].final
                /\ stage'[client[d].stream] = stage[client[d].stream]
    <2>1. client'[d] = client[d] /\ client[d].final
      BY <1>7, <1>11 DEF Cache!Nothing
    <2>2. client[d].stream \in 0 .. last /\ client[d].stream # Cache!None
      BY <2>1, CacheTypes DEF CacheInv, ClientsHold, Holds
    <2>3. stage[client[d].stream] \in {"closed", "settled"}
      BY <2>1 DEF CacheInv, ClientsHold
    <2>4. client[d].stream # s
      BY <1>2, <2>3
    <2>5. client[d].stream \in Cache!Streams
      BY <2>2, CacheTypes
    <2> QED
      BY <1>5, <2>1, <2>4, <2>5
  <1>12. ClientsHold'
    BY <1>7, <1>11 DEF CacheInv, ClientsHold, Cache!Nothing
  <1>13. Cache!HitsAreWhole' /\ Cache!MarkedIsWhole'
    BY <1>1, <1>11 DEF CacheInv, Cache!HitsAreWhole, Cache!MarkedIsWhole
  <1> QED
    BY <1>8, <1>9, <1>10, <1>12, <1>13 DEF CacheInv

LEMMA CloseKeeps ==
  ASSUME CacheInv, NEW c \in CacheClients, Cache!Close(c)
  PROVE  CacheInv'
  <1> USE CacheFacts
  <1>1. /\ data' = data /\ marker' = marker /\ sentinel' = sentinel /\ misplaced' = misplaced
        /\ starts' = starts /\ ready' = ready /\ entry' = entry /\ last' = last
        /\ stage' = stage /\ written' = written /\ failed' = failed /\ removing' = removing
        /\ onDisk' = onDisk /\ client' = [client EXCEPT ![c] = Cache!Nothing]
    BY DEF Cache!Close, Cache!disk, Cache!server, Cache!streams
  <1>2. client' \in [CacheClients -> Holds(last)]
    BY <1>1, CacheTypes, HoldsMore
  <1>3. \A d \in CacheClients : client'[d] = client[d] \/ client'[d] = Cache!Nothing
    BY <1>1, CacheTypes
  <1>4. Cache!TypeOK'
    BY <1>1, <1>2, CacheTypes DEF Cache!TypeOK, Holds
  <1>5. StreamsInTurn' /\ StreamsWhole' /\ Cache!MarkedIsWhole'
    BY <1>1, <1>3 DEF CacheInv, StreamsInTurn, StreamsWhole, Cache!MarkedIsWhole
  <1>6. ClientsHold' /\ Cache!HitsAreWhole'
    BY <1>1, <1>3 DEF CacheInv, ClientsHold, Cache!HitsAreWhole, Cache!Nothing
  <1> QED
    BY <1>4, <1>5, <1>6 DEF CacheInv

\* What the source yields goes to the stream's own file; its end closes the writer.
LEMMA WriterKeeps ==
  ASSUME CacheInv, NEW s \in Cache!Streams, Cache!Write(s) \/ Cache!CloseWriter(s)
  PROVE  CacheInv'
  <1> USE CacheFacts
  <1>1. /\ marker' = marker /\ sentinel' = sentinel /\ misplaced' = misplaced
        /\ starts' = starts /\ ready' = ready /\ entry' = entry /\ last' = last
        /\ removing' = removing /\ onDisk' = onDisk /\ client' = client
    BY DEF Cache!Write, Cache!CloseWriter, Cache!disk, Cache!server
  <1>2. stage[s] = "copying" /\ s \in 1 .. last /\ ~(s > last) /\ last > 0
    <2>1. stage[s] = "copying"
      BY DEF Cache!Write, Cache!CloseWriter
    <2>2. s > last => stage[s] = "unused"
      BY DEF CacheInv, StreamsInTurn
    <2>3. last \in Nat
      BY CacheTypes
    <2>4. s \in Nat \ {0}
      OBVIOUS
    <2> QED
      BY ONLY <2>1, <2>2, <2>3, <2>4
  <1>3. ASSUME NEW d \in CacheClients, client[d].final
        PROVE  client[d].stream \in Cache!Streams \ {s}
    <2>1. client[d].stream \in 0 .. last /\ client[d].stream # Cache!None
      BY <1>3, CacheTypes DEF CacheInv, ClientsHold, Holds
    <2>2. stage[client[d].stream] # "copying"
      BY <1>3 DEF CacheInv, ClientsHold
    <2>3. last \in 0 .. MaxStreams
      BY CacheTypes
    <2>4. client[d].stream \in Cache!Streams
      BY <2>1, <2>3
    <2> QED
      BY <1>2, <2>2, <2>4
  <1>4. CASE Cache!Write(s)
    <2>1. /\ stage' = stage /\ failed' = failed /\ written[s] < EntrySize
          /\ written' = [written EXCEPT ![s] = @ + 1]
          /\ data' = IF onDisk = s THEN written'[s] ELSE data
      BY <1>4 DEF Cache!Write, Cache!AtPath
    <2>2. /\ written' \in [Cache!Streams -> Cache!Sizes] /\ written'[s] \in Cache!Sizes
          /\ \A t \in Cache!Streams \ {s} : written'[t] = written[t]
      BY <2>1, CacheTypes
    <2>3. data' \in Cache!Sizes \cup {Cache!Absent}
      BY <2>1, <2>2, CacheTypes
    <2>4. onDisk = s => data = written[s] /\ data # Cache!Absent
      BY CacheTypes DEF CacheInv, StreamsWhole
    <2>5. data' # Cache!Absent => data # Cache!Absent
      BY <2>1, <2>4
    <2>6. Cache!TypeOK'
      BY <1>1, <2>1, <2>2, <2>3, CacheTypes DEF Cache!TypeOK, Holds
    <2>7. StreamsInTurn'
      BY <1>1, <1>2, <2>1, <2>2 DEF CacheInv, StreamsInTurn
    <2>8. StreamsWhole'
      <3>1. onDisk' # Cache!None => data' = written'[onDisk']
        <4>1. onDisk # Cache!None => onDisk \in Cache!Streams /\ data = written[onDisk]
          BY CacheTypes DEF CacheInv, StreamsWhole
        <4> QED
          BY <1>1, <2>1, <2>2, <4>1
      <3>2. \A t \in Cache!Streams :
                /\ stage'[t] = "closed" /\ t \notin failed' => written'[t] = EntrySize
                /\ stage'[t] = "settled" /\ t \notin failed' => written'[t] = EntrySize \/ t = 1
        BY <1>2, <2>1, <2>2 DEF CacheInv, StreamsWhole
      <3>3. entry' # Cache!None /\ stage'[entry'] = "settled" =>
                /\ entry' \notin failed'
                /\ data' # Cache!Absent => written'[entry'] = EntrySize \/ misplaced'
        <4>1. SUFFICES ASSUME entry # Cache!None, stage[entry] = "settled"
                       PROVE  /\ entry \notin failed
                              /\ data' # Cache!Absent => written'[entry] = EntrySize \/ misplaced
          BY <1>1, <2>1
        <4>2. entry \in Cache!Streams \ {s}
          BY <1>2, <4>1, CacheTypes
        <4>3. /\ entry \notin failed
              /\ data # Cache!Absent => written[entry] = EntrySize \/ misplaced
          BY <4>1 DEF CacheInv, StreamsWhole
        <4> QED
          BY <2>2, <2>5, <4>2, <4>3
      <3> QED
        BY <3>1, <3>2, <3>3 DEF StreamsWhole
    <2>9. ClientsHold' /\ Cache!HitsAreWhole'
      BY <1>1, <1>3, <2>1, <2>2 DEF CacheInv, ClientsHold, Cache!HitsAreWhole
    <2>10. Cache!MarkedIsWhole'
      BY <1>1, <2>1, <2>4, CacheTypes DEF CacheInv, Cache!MarkedIsWhole
    <2> QED
      BY <2>6, <2>7, <2>8, <2>9, <2>10 DEF CacheInv
  <1>5. CASE Cache!CloseWriter(s)
    <2>1. /\ stage' = [stage EXCEPT ![s] = "closed"] /\ written' = written /\ data' = data
          /\ (written[s] = EntrySize /\ failed' = failed) \/ failed' = failed \cup {s}
      BY <1>5 DEF Cache!CloseWriter, Cache!disk
    <2>2. /\ stage' \in [Cache!Streams -> Cache!Stages] /\ stage'[s] = "closed"
          /\ \A t \in Cache!Streams \ {s} : stage'[t] = stage[t] /\ (t \in failed' <=> t \in failed)
          /\ failed' \subseteq 1 .. last
      BY <1>2, <2>1, CacheTypes DEF Cache!Stages
    <2>3. s \in failed' \/ written[s] = EntrySize
      BY <2>1
    <2>4. Cache!TypeOK'
      BY <1>1, <2>1, <2>2, CacheTypes DEF Cache!TypeOK, Holds
    <2>5. StreamsInTurn'
      BY <1>1, <1>2, <2>1, <2>2 DEF CacheInv, StreamsInTurn
    <2>6. StreamsWhole'
      BY <1>1, <1>2, <2>1, <2>2, <2>3, CacheTypes DEF CacheInv, StreamsWhole
    <2>7. ClientsHold' /\ Cache!HitsAreWhole'
      BY <1>1, <1>3, <2>1, <2>2 DEF CacheInv, ClientsHold, Cache!HitsAreWhole
    <2>8. Cache!MarkedIsWhole'
      BY <1>1, <2>1 DEF CacheInv, Cache!MarkedIsWhole
    <2> QED
      BY <2>4, <2>5, <2>6, <2>7, <2>8 DEF CacheInv
  <1> QED
    BY <1>4, <1>5

\* A file goes with its entry, or after it.
LEMMA RemovalKeeps ==
  ASSUME CacheInv, Cache!Scrub \/ \E s \in Cache!Streams : Cache!Unlink(s)
  PROVE  CacheInv'
  <1> USE CacheFacts
  <1>1. /\ sentinel' = sentinel /\ starts' = starts /\ ready' = ready /\ last' = last
        /\ stage' = stage /\ written' = written /\ failed' = failed /\ client' = client
        /\ entry' \in {entry, Cache!None} /\ removing' \subseteq removing
    BY DEF Cache!Scrub, Cache!Unlink, Cache!server
  <1>2. data' = Cache!Absent /\ onDisk' = Cache!None
    BY DEF Cache!Scrub, Cache!Unlink, Cache!Gone
  <1>3. marker' \in BOOLEAN /\ misplaced' \in BOOLEAN
    BY DEF Cache!Scrub, Cache!Unlink, Cache!Gone
  <1>4. Cache!TypeOK'
    BY <1>1, <1>2, <1>3, CacheTypes DEF Cache!TypeOK, Holds
  <1>5. StreamsInTurn' /\ StreamsWhole'
    BY <1>1, <1>2 DEF CacheInv, StreamsInTurn, StreamsWhole
  <1>6. ClientsHold' /\ Cache!HitsAreWhole'
    BY <1>1 DEF CacheInv, ClientsHold, Cache!HitsAreWhole
  <1>7. Cache!MarkedIsWhole'
    BY <1>2 DEF Cache!MarkedIsWhole
  <1> QED
    BY <1>4, <1>5, <1>6, <1>7 DEF CacheInv

\* A stream that has ended is marked, or its entry goes: it is whole or it has failed.
LEMMA SettleKeeps ==
  ASSUME CacheInv, NEW s \in Cache!Streams, Cache!Settle(s)
  PROVE  CacheInv'
  <1> USE CacheFacts
  <1>1. /\ sentinel' = sentinel /\ starts' = starts /\ ready' = ready /\ last' = last
        /\ written' = written /\ failed' = failed /\ client' = client
        /\ stage[s] = "closed" /\ stage' = [stage EXCEPT ![s] = "settled"]
    BY DEF Cache!Settle, Cache!server
  <1>2. s \in 1 .. last /\ ~(s > last) /\ last > 0
    BY <1>1, CacheTypes DEF CacheInv, StreamsInTurn
  <1>3. /\ stage' \in [Cache!Streams -> Cache!Stages] /\ stage'[s] = "settled"
        /\ \A t \in Cache!Streams \ {s} : stage'[t] = stage[t]
    BY <1>1, CacheTypes DEF Cache!Stages
  <1>4. ClientsHold' /\ Cache!HitsAreWhole'
    BY <1>1, <1>3, CacheTypes DEF CacheInv, ClientsHold, Cache!HitsAreWhole, Holds
  <1>5. CASE s \notin failed
    <2>1. /\ data' = data /\ entry' = entry /\ removing' = removing /\ onDisk' = onDisk
      BY <1>5 DEF Cache!Settle, Cache!Complete, Cache!MarkComplete
    <2>2. written[s] = EntrySize
      BY <1>1, <1>5 DEF CacheInv, StreamsWhole
    <2>3. PICK created \in Cache!Outcomes :
              /\ marker' = (marker \/ created)
              /\ misplaced' = IF created /\ ~marker THEN onDisk # s ELSE misplaced
      BY <1>5 DEF Cache!Settle, Cache!Complete, Cache!MarkComplete
    <2>4. \/ marker' = marker /\ misplaced' = misplaced
          \/ ~marker /\ marker' = TRUE /\ misplaced' = (onDisk # s)
      BY <2>3, CacheTypes
    <2>5. marker' \in BOOLEAN /\ misplaced' \in BOOLEAN
      BY <2>4, CacheTypes
    <2>6. onDisk = s => data = EntrySize /\ entry \in {Cache!None, s}
      BY <1>2, <2>2 DEF CacheInv, StreamsInTurn, StreamsWhole
    <2>7. Cache!TypeOK'
      BY <1>1, <1>3, <2>1, <2>5, CacheTypes DEF Cache!TypeOK, Holds
    <2>8. StreamsInTurn'
      BY <1>1, <1>2, <1>3, <2>1 DEF CacheInv, StreamsInTurn
    <2>9. entry # Cache!None /\ entry # s /\ misplaced => misplaced'
      BY <2>4, <2>6
    <2>10. StreamsWhole'
      BY <1>1, <1>3, <1>5, <2>1, <2>2, <2>9, CacheTypes DEF CacheInv, StreamsWhole
    <2>11. Cache!MarkedIsWhole'
      <3>1. CASE marker' = marker /\ misplaced' = misplaced
        BY <2>1, <3>1 DEF CacheInv, Cache!MarkedIsWhole
      <3>2. CASE misplaced' = (onDisk # s)
        BY <2>1, <2>6, <3>2 DEF Cache!MarkedIsWhole
      <3> QED
        BY <2>4, <3>1, <3>2
    <2> QED
      BY <1>4, <2>7, <2>8, <2>10, <2>11 DEF CacheInv
  <1>6. CASE s \in failed
    <2>1. Cache!Invalidate
      BY <1>6 DEF Cache!Settle, Cache!Complete
    <2>2. /\ entry' = Cache!None
          /\ \/ /\ data' = data /\ marker' = marker /\ misplaced' = misplaced /\ onDisk' = onDisk
             \/ /\ data' = Cache!Absent /\ onDisk' = Cache!None
                /\ marker' \in BOOLEAN /\ misplaced' \in BOOLEAN
      BY <2>1 DEF Cache!Invalidate, Cache!Gone
    <2>3. removing' \subseteq 1 .. last
      <3>1. entry # Cache!None => entry \in 1 .. last
        BY CacheTypes, <1>2 DEF CacheInv, StreamsInTurn
      <3>2. removing' = removing \/ (entry # Cache!None /\ removing' = removing \cup {entry})
        <4>1. CASE entry = Cache!None
          BY <2>1, <4>1 DEF Cache!Invalidate
        <4>2. CASE entry # Cache!None
          BY <2>1, <4>2 DEF Cache!Invalidate
        <4> QED
          BY <4>1, <4>2
      <3> QED
        BY <3>1, <3>2, CacheTypes
    <2>4. Cache!TypeOK'
      BY <1>1, <1>3, <2>2, <2>3, CacheTypes DEF Cache!TypeOK, Holds
    <2>5. StreamsInTurn'
      BY <1>1, <1>2, <1>3, <2>2 DEF CacheInv, StreamsInTurn
    <2>6. StreamsWhole'
      BY <1>1, <1>3, <1>6, <2>2, CacheTypes DEF CacheInv, StreamsWhole
    <2>7. Cache!MarkedIsWhole'
      BY <2>2 DEF CacheInv, Cache!MarkedIsWhole
    <2> QED
      BY <1>4, <2>4, <2>5, <2>6, <2>7 DEF CacheInv
  <1> QED
    BY <1>5, <1>6

LEMMA CacheStep ==
  ASSUME CacheInv, Cache!Next
  PROVE  CacheInv'
  BY CrashKeeps, StartKeeps, JoinKeeps, MissKeeps, OpeningKeeps, CloseKeeps, WriterKeeps,
     RemovalKeeps, SettleKeeps DEF Cache!Next

LEMMA InitCache ==
  ASSUME Init
  PROVE  CacheInv
  <1> USE CacheFacts
  <1>1. Cache!Init
    BY DEF Init
  <1>2. client \in [CacheClients -> Holds(0)] /\ \A c \in CacheClients : client[c] = Cache!Nothing
    BY <1>1, HoldsMore DEF Cache!Init
  <1>3. /\ last = 0 /\ entry = 0 /\ onDisk = 0 /\ ready = FALSE /\ marker = FALSE
        /\ data \in {Cache!Absent, EntrySize} /\ failed = {} /\ removing = {} /\ starts = 0
        /\ misplaced = FALSE
    BY <1>1 DEF Cache!Init
  <1>4. sentinel \in BOOLEAN
    BY <1>1 DEF Cache!Init
  <1>5. /\ stage \in [Cache!Streams -> Cache!Stages] /\ written \in [Cache!Streams -> Cache!Sizes]
        /\ \A s \in Cache!Streams : stage[s] = "unused" /\ written[s] = 0
    BY <1>1 DEF Cache!Init, Cache!Stages
  <1>6. 0 \in 0 .. MaxStreams /\ 0 \in 0 .. MaxStarts /\ EntrySize \in Cache!Sizes
    OBVIOUS
  <1>7. Cache!TypeOK
    BY <1>2, <1>3, <1>4, <1>5, <1>6 DEF Cache!TypeOK, Holds
  <1>8. StreamsInTurn /\ StreamsWhole
    BY <1>2, <1>3, <1>5 DEF StreamsInTurn, StreamsWhole
  <1>9. ClientsHold /\ Cache!HitsAreWhole /\ Cache!MarkedIsWhole
    BY <1>2, <1>3 DEF ClientsHold, Cache!HitsAreWhole, Cache!MarkedIsWhole, Cache!Nothing
  <1> QED
    BY <1>7, <1>8, <1>9 DEF CacheInv

LEMMA CacheHolds == Spec => [](component = "cache" => CacheInv)
  <1> DEFINE Inv == component = "cache" => CacheInv
  <1>1. Init => Inv
    BY InitCache
  <1>2. Inv /\ [Next]_vars => Inv'
    <2> SUFFICES ASSUME Inv, [Next]_vars, component' = "cache"
                 PROVE  CacheInv'
      OBVIOUS
    <2>1. component = "cache" /\ CacheInv
      BY DEF Next, vars
    <2>2. CASE Next
      <3>1. Cache!Next
        BY <2>1, <2>2 DEF Next
      <3> QED
        BY <2>1, <3>1, CacheStep
    <2>3. CASE UNCHANGED vars
      <3>1. UNCHANGED cacheVars
        BY <2>3 DEF vars, streaming
      <3> QED
        BY <2>1, <3>1
           DEF cacheVars, CacheInv, Cache!TypeOK, StreamsInTurn, StreamsWhole, ClientsHold,
               Cache!MarkedIsWhole, Cache!HitsAreWhole
    <2> QED
      BY <2>2, <2>3
  <1> QED
    BY <1>1, <1>2, PTL DEF Spec

\* What is served as whole is whole, and so is what is marked so for the next start: through
\* failures of the source, of markers and of the sentinel, clean-ups and crashes, but for the
\* markers and the moments the exceptions name (FileCache.Get, spread_fs.go).
THEOREM CacheIsWholeHolds == Spec => []CacheIsWhole
  <1> DEFINE Inv == component = "cache" => CacheInv
  <1>1. Inv => CacheIsWhole
    BY DEF CacheIsWhole, CacheInv
  <1> QED
    BY <1>1, CacheHolds, PTL

-----------------------------------------------------------------------------
(* The plugin manager *)

LocalTypes ==
    /\ pc \in [PluginOps -> Plugins!Steps] /\ kind \in [PluginOps -> Plugins!Kinds]
    /\ copy \in [PluginOps -> Plugins!Rows]
    /\ seen \in [PluginOps -> PluginVersions \cup {Plugins!None}]
    /\ inst \in [PluginOps -> Plugins!Instances \cup {Plugins!None}]

\* The types; that a row without a plugin is empty; and that nothing happens before Start.
PluginTypes ==
    /\ Plugins!TypeOK
    /\ row.present \/ row = Plugins!NoRow
    /\ ~started => /\ stop = "no" /\ loaded = Plugins!None
                   /\ \A o \in PluginOps : pc[o] = "idle"
    /\ \A o \in PluginOps :
           pc[o] \in {"load", "compile", "unload", "close", "put", "delete"} => copy[o].present

HasInstance(o) == pc[o] \in {"compile", "close"}

\* An open instance is what the map holds, what one operation holds, or abandoned.
Owned ==
    /\ loaded \notin abandoned
    /\ \A o \in PluginOps : HasInstance(o) =>
           /\ inst[o] \in open \ (abandoned \cup {loaded})
           /\ \A p \in PluginOps : HasInstance(p) /\ inst[p] = inst[o] => p = o
    /\ \A i \in open \ abandoned : i = loaded \/ \E o \in PluginOps : HasInstance(o) /\ inst[o] = i

\* Once Stop has returned nothing is loaded, and nothing is about to be.
Stopped == stop = "done" => loaded = Plugins!None /\ \A o \in PluginOps : pc[o] # "compile"

\* No two operations overlap, unless the exception is made.
Alone == ~excused => \A o, p \in PluginOps : pc[o] # "idle" /\ pc[p] # "idle" => o = p

NotLoaded == loaded = Plugins!None

\* What the row says is loaded.
Agrees == /\ ~NotLoaded <=> row.enabled
          /\ ~NotLoaded => with[loaded] = row.settings

Syncing == {"start", "rescan", "event"}

SyncAgrees(o) == IF kind[o] = "start" THEN NotLoaded ELSE Agrees

\* What is loaded will be as the row says: as it is, or as it becomes.
LoadFits(o) == \/ kind[o] \in {"boot", "update"} /\ row.enabled /\ copy[o].settings = row.settings
               \/ kind[o] = "enable" /\ ~row.enabled

\* What an operation that is alone has found, and has still to do.
Progress(o) ==
    /\ pc[o] = "rows" => kind[o] \in Syncing /\ SyncAgrees(o)
    /\ pc[o] = "decide" =>
        \/ kind[o] \in Syncing /\ copy[o] = row /\ SyncAgrees(o)
        \/ kind[o] = "boot" /\ NotLoaded
        \/ kind[o] = "deleteUser" /\ ~row.enabled /\ (NotLoaded \/ row.present)
    /\ pc[o] \in {"load", "compile"} => LoadFits(o) /\ NotLoaded
    /\ pc[o] = "compile" => with[inst[o]] = copy[o].settings
    /\ pc[o] \in {"unload", "close"} =>
        /\ kind[o] # "boot"
        /\ kind[o] = "update" /\ copy[o].enabled => LoadFits(o)
        /\ kind[o] \in {"enable", "deleteUser"} => ~row.enabled
    /\ pc[o] = "close" => NotLoaded
    /\ pc[o] = "put" =>
        /\ kind[o] # "deleteUser"
        /\ ~copy[o].enabled => NotLoaded
        /\ copy[o].enabled => kind[o] \in {"enable", "update"}
        /\ kind[o] = "enable" => ~row.enabled
        /\ kind[o] = "enable" /\ copy[o].enabled => ~NotLoaded /\ with[loaded] = copy[o].settings
        /\ kind[o] = "update" /\ copy[o].enabled => Agrees
    /\ pc[o] = "delete" => kind[o] \in Syncing /\ NotLoaded

Calm ==
    stop = "no" /\ ~excused /\ started =>
        /\ \A o \in PluginOps : Progress(o)
        /\ Plugins!AtRest => Agrees

PluginInv == PluginTypes /\ Owned /\ Stopped /\ Alone /\ Calm

LEMMA PluginFacts ==
  ASSUME TRUE
  PROVE  /\ 0 \notin Settings \cup PluginVersions /\ Settings # {} /\ PluginVersions # {}
         /\ MaxPluginRequests \in Nat /\ MaxInstances \in Nat
         /\ Plugins!None = 0 /\ Plugins!Instances = 1 .. MaxInstances
  BY ResourcesAssumption DEF Plugins!ManagerAssumption, Plugins!None, Plugins!Instances

\* Operation o goes on at step with kind k, row r and instance i; the others stay where they are.
Becomes(o, step, k, r, i) ==
    /\ LocalTypes'
    /\ pc'[o] = step /\ kind'[o] = k /\ copy'[o] = r /\ inst'[o] = i
    /\ \A p \in PluginOps \ {o} : /\ pc'[p] = pc[p] /\ kind'[p] = kind[p]
                                  /\ copy'[p] = copy[p] /\ inst'[p] = inst[p]

LEMMA WithBecomes ==
  ASSUME LocalTypes, NEW o \in PluginOps, NEW r \in Plugins!Rows, NEW step \in Plugins!Steps,
         Plugins!With(o, r, step)
  PROVE  Becomes(o, step, kind[o], r, inst[o])
  BY DEF LocalTypes, Becomes, Plugins!With, Plugins!Goto

LEMMA RowParts ==
  ASSUME NEW r \in Plugins!Rows
  PROVE  /\ r.present \in BOOLEAN /\ r.enabled \in BOOLEAN
         /\ r.settings \in Settings \cup {0} /\ r.sha \in PluginVersions \cup {Plugins!None}
         /\ Plugins!NoRow \in Plugins!Rows
         /\ Plugins!Disabled(r) \in Plugins!Rows
         /\ Plugins!Disabled(r).enabled = FALSE /\ Plugins!Disabled(r).present = r.present
         /\ Plugins!Disabled(r).settings = r.settings /\ Plugins!Disabled(r).sha = r.sha
         /\ Plugins!NoRow.present = FALSE /\ Plugins!NoRow.enabled = FALSE
         /\ Plugins!NoRow.settings = 0
  BY DEF Plugins!Rows, Plugins!NoRow, Plugins!Disabled

LEMMA EndedBecomes ==
  ASSUME LocalTypes, NEW o \in PluginOps, Plugins!Ended(o)
  PROVE  /\ kind[o] = "start" => Becomes(o, "decide", "boot", Plugins!NoRow, Plugins!None)
         /\ kind[o] # "start" => Becomes(o, "idle", "start", Plugins!NoRow, Plugins!None)
  <1>1. Plugins!NoRow \in Plugins!Rows
    BY DEF Plugins!Rows, Plugins!NoRow
  <1> QED
    BY <1>1 DEF LocalTypes, Becomes, Plugins!Ended, Plugins!Goto, Plugins!Steps, Plugins!Kinds

LEMMA ContinueBecomes ==
  ASSUME LocalTypes, NEW o \in PluginOps, Plugins!Continue(o)
  PROVE  \/ Plugins!AfterUnload(o) = "idle" /\ Plugins!Ended(o)
         \/ /\ Plugins!AfterUnload(o) = "load"
            /\ Becomes(o, "load", kind[o], copy[o], Plugins!None)
         \/ /\ Plugins!AfterUnload(o) \in {"put", "delete"}
            /\ Becomes(o, Plugins!AfterUnload(o), kind[o], Plugins!Disabled(copy[o]), Plugins!None)
  <1>1. Plugins!AfterUnload(o) \in {"idle", "load", "put", "delete"}
    BY DEF Plugins!AfterUnload
  <1>2. copy[o] \in Plugins!Rows /\ Plugins!Disabled(copy[o]) \in Plugins!Rows
    BY RowParts DEF LocalTypes
  <1>3. CASE Plugins!AfterUnload(o) = "idle"
    BY <1>3 DEF Plugins!Continue
  <1>4. CASE Plugins!AfterUnload(o) = "load"
    BY <1>2, <1>4 DEF Plugins!Continue, LocalTypes, Becomes, Plugins!Goto, Plugins!Steps
  <1>5. CASE Plugins!AfterUnload(o) \in {"put", "delete"}
    BY <1>2, <1>5 DEF Plugins!Continue, LocalTypes, Becomes, Plugins!Goto, Plugins!Steps
  <1> QED
    BY <1>1, <1>3, <1>4, <1>5

\* Of a step of operation o that leaves the instances where they are.
LEMMA OwnedStays ==
  ASSUME Owned, NEW o \in PluginOps, NEW step, NEW k, NEW r, NEW i, Becomes(o, step, k, r, i),
         ~HasInstance(o), step \notin {"compile", "close"},
         UNCHANGED <<loaded, open, abandoned>>
  PROVE  Owned'
  <1>1. \A p \in PluginOps : HasInstance(p)' => HasInstance(p) /\ inst'[p] = inst[p]
    BY DEF HasInstance, Becomes
  <1>2. \A p \in PluginOps : HasInstance(p) => HasInstance(p)' /\ inst'[p] = inst[p]
    BY DEF HasInstance, Becomes
  <1>3. ASSUME NEW j \in open \ abandoned, j # loaded
        PROVE  \E p \in PluginOps : HasInstance(p)' /\ inst'[p] = j
    <2>1. PICK p \in PluginOps : HasInstance(p) /\ inst[p] = j
      BY <1>3 DEF Owned
    <2> QED
      BY <1>2, <2>1
  <1> QED
    BY <1>1, <1>3 DEF Owned

LEMMA StoppedStays ==
  ASSUME Stopped, NEW o \in PluginOps, NEW step, NEW k, NEW r, NEW i, Becomes(o, step, k, r, i),
         step # "compile", stop' = stop, loaded' \in {loaded, Plugins!None}
  PROVE  Stopped'
  BY DEF Stopped, Becomes

\* The operation that goes on is the only one, unless the exception is made.
LEMMA CalmStays ==
  ASSUME Alone, NEW o \in PluginOps, NEW step, NEW k, NEW r, NEW i, Becomes(o, step, k, r, i),
         ~excused' => ~excused /\ \A p \in PluginOps \ {o} : pc[p] = "idle",
         stop' = "no" /\ ~excused' /\ started' => Progress(o)' /\ (step = "idle" => Agrees')
  PROVE  Alone' /\ Calm'
  <1>1. ~excused' => \A p \in PluginOps \ {o} : pc'[p] = "idle"
    BY DEF Becomes
  <1>2. \A p \in PluginOps : pc'[p] = "idle" => Progress(p)'
    BY DEF Progress
  <1>3. Plugins!AtRest' => step = "idle"
    BY DEF Plugins!AtRest, Becomes
  <1>4. Alone'
    BY <1>1 DEF Alone
  <1>5. Calm'
    BY <1>1, <1>2, <1>3 DEF Calm
  <1> QED
    BY <1>4, <1>5

LEMMA TypesGive ==
  ASSUME Plugins!TypeOK
  PROVE  LocalTypes
  BY DEF Plugins!TypeOK, LocalTypes

\* Of a step of operation o that leaves all instances where they are.
LEMMA GoesOn ==
  ASSUME PluginInv, NEW o \in PluginOps, NEW step, NEW k, NEW r, NEW i, Becomes(o, step, k, r, i),
         ~HasInstance(o), step \notin {"compile", "close"},
         UNCHANGED <<file, loaded, with, open, stop, abandoned>>, started',
         requests' \in 0 .. MaxPluginRequests, excused' \in BOOLEAN,
         row' \in Plugins!Rows, row'.present \/ row' = Plugins!NoRow,
         r.present \/ step \in {"idle", "rows", "decide"},
         ~excused' => ~excused /\ \A p \in PluginOps \ {o} : pc[p] = "idle",
         stop = "no" /\ ~excused' => Progress(o)' /\ (step = "idle" => Agrees')
  PROVE  PluginInv'
  <1> USE DEF PluginInv
  <1>1. Owned'
    BY OwnedStays
  <1>2. Stopped'
    BY StoppedStays
  <1>3. Alone' /\ Calm'
    BY CalmStays
  <1>4. Plugins!TypeOK'
    BY DEF PluginTypes, Plugins!TypeOK, Becomes, LocalTypes
  <1>5. \A p \in PluginOps : pc'[p] \in {"load", "compile", "unload", "close", "put", "delete"} =>
            copy'[p].present
    BY DEF PluginTypes, Becomes
  <1>6. PluginTypes'
    BY <1>4, <1>5 DEF PluginTypes
  <1> QED
    BY <1>1, <1>2, <1>3, <1>6

LEMMA BeginKeeps ==
  ASSUME PluginInv, NEW o \in PluginOps, Plugins!Begins(o)
  PROVE  PluginInv'
  <1> USE PluginFacts DEF PluginInv
  <1>1. LocalTypes /\ copy[o] \in Plugins!Rows /\ row \in Plugins!Rows
    BY TypesGive DEF PluginTypes, Plugins!TypeOK
  <1>2. SUFFICES ASSUME NEW k \in Plugins!Kinds, NEW step \in Plugins!Steps, Plugins!Begin(o, k, step),
                        NEW r \in Plugins!Rows, copy' = [copy EXCEPT ![o] = r],
                        seen' \in [PluginOps -> PluginVersions \cup {Plugins!None}],
                        file' = file, started' = TRUE,
                        \/ k \in Syncing /\ step = "rows" /\ row' = row /\ (k = "start" <=> ~started)
                        \/ /\ k = "deleteUser" /\ step = "decide" /\ started /\ row.settings # 0
                           /\ row' = [row EXCEPT !.settings = 0, !.enabled = FALSE]
                        \/ /\ started /\ row' = row /\ r.present
                           /\ \/ k = "enable" /\ step = "load" /\ ~row.enabled /\ r = row
                              \/ k = "disable" /\ step = "unload" /\ ~r.enabled
                              \/ k = "update" /\ step = "unload" /\ ~r.enabled
                              \/ k = "update" /\ step = "put" /\ r.enabled = row.enabled
                 PROVE  PluginInv'
    <2>1. copy' = copy => copy' = [copy EXCEPT ![o] = copy[o]]
      BY <1>1 DEF LocalTypes
    <2>2. seen' = seen \/ seen' = [seen EXCEPT ![o] = file] =>
             seen' \in [PluginOps -> PluginVersions \cup {Plugins!None}]
      BY <1>1 DEF LocalTypes, PluginTypes, Plugins!TypeOK
    <2>3. CASE Plugins!Start(o)
      BY <1>1, <1>2, <2>1, <2>2, <2>3 DEF Plugins!Start, Plugins!Kinds, Plugins!Steps, Syncing
    <2>4. CASE Plugins!RescanPlugins(o)
      BY <1>1, <1>2, <2>1, <2>2, <2>4 DEF Plugins!RescanPlugins, Plugins!Kinds, Plugins!Steps, Syncing
    <2>5. CASE Plugins!ProcessPluginEvent(o)
      BY <1>1, <1>2, <2>1, <2>2, <2>5
         DEF Plugins!ProcessPluginEvent, Plugins!Kinds, Plugins!Steps, Syncing
    <2>6. CASE Plugins!EnablePlugin(o)
      BY <1>1, <1>2, <2>1, <2>2, <2>6 DEF Plugins!EnablePlugin, Plugins!Kinds, Plugins!Steps
    <2>7. CASE Plugins!DisablePlugin(o)
      <3> DEFINE r == [row EXCEPT !.enabled = FALSE]
      <3>1. r \in Plugins!Rows /\ r.present = row.present /\ ~r.enabled
        BY <1>1 DEF Plugins!Rows
      <3> HIDE DEF r
      <3>2. /\ Plugins!Begin(o, "disable", "unload") /\ copy' = [copy EXCEPT ![o] = r]
            /\ UNCHANGED <<file, row, seen, started>> /\ started /\ row.present
        BY <2>7 DEF Plugins!DisablePlugin, r
      <3> QED
        BY <1>1, <1>2, <2>2, <3>1, <3>2 DEF Plugins!Kinds, Plugins!Steps
    <2>8. CASE Plugins!DeleteUser(o)
      BY <1>1, <1>2, <2>1, <2>2, <2>8 DEF Plugins!DeleteUser, Plugins!Kinds, Plugins!Steps
    <2>9. ASSUME NEW s \in Settings \cup {0}, Plugins!UpdatePluginSettings(o, s)
          PROVE  PluginInv'
      <3>1. PICK lacks \in BOOLEAN :
                /\ lacks => row.enabled
                /\ Plugins!Begin(o, "update", IF lacks THEN "unload" ELSE "put")
                /\ copy' = [copy EXCEPT ![o] = [row EXCEPT !.settings = s, !.enabled = @ /\ ~lacks]]
        BY <1>1, <2>9, RowParts DEF Plugins!UpdatePluginSettings
      <3>2. started /\ row.present /\ UNCHANGED <<file, row, seen, started>>
        BY <2>9 DEF Plugins!UpdatePluginSettings
      <3> DEFINE r == [row EXCEPT !.settings = s, !.enabled = @ /\ ~lacks]
      <3>3. /\ r \in Plugins!Rows /\ r.present = row.present
            /\ r.enabled = (row.enabled /\ ~lacks)
        BY <1>1 DEF Plugins!Rows
      <3>4. copy' = [copy EXCEPT ![o] = r]
        BY <3>1
      <3> HIDE DEF r
      <3>5. CASE lacks
        BY <1>1, <1>2, <2>2, <3>1, <3>2, <3>3, <3>4, <3>5 DEF Plugins!Kinds, Plugins!Steps
      <3>6. CASE ~lacks
        <4>1. Plugins!Begin(o, "update", "put") /\ r.enabled = row.enabled
          BY <1>1, <3>1, <3>3, <3>6, RowParts
        <4> QED
          BY <1>1, <1>2, <2>2, <3>2, <3>3, <3>4, <4>1 DEF Plugins!Kinds, Plugins!Steps
      <3> QED
        BY <3>5, <3>6
    <2> QED
      BY <2>3, <2>4, <2>5, <2>6, <2>7, <2>8, <2>9 DEF Plugins!Begins
  <1>3. /\ pc[o] = "idle" /\ pc' = [pc EXCEPT ![o] = step] /\ kind' = [kind EXCEPT ![o] = k]
        /\ requests' \in 0 .. MaxPluginRequests
        /\ UNCHANGED <<inst, abandoned, loaded, with, open, stop>>
        /\ excused' = (excused \/ \E p \in PluginOps \ {o} : pc[p] # "idle")
    BY <1>2 DEF Plugins!Begin, Plugins!Goto, Plugins!memory, PluginTypes, Plugins!TypeOK
  <1>4. Becomes(o, step, k, r, inst[o])
    BY <1>1, <1>2, <1>3 DEF Becomes, LocalTypes
  <1>5. ~HasInstance(o) /\ step \notin {"compile", "close"}
    BY <1>2, <1>3 DEF HasInstance
  <1>6. /\ row' \in Plugins!Rows /\ (row'.present \/ row' = Plugins!NoRow)
        /\ row'.present = row.present
        /\ (row' # row \/ k = "deleteUser" => row.present /\ ~row'.enabled)
    <2>1. CASE row' = row /\ k # "deleteUser"
      BY <1>1, <2>1, RowParts DEF PluginTypes
    <2>2. CASE row.settings # 0 /\ row' = [row EXCEPT !.settings = 0, !.enabled = FALSE]
      <3>1. row.present
        BY <1>1, <2>2, RowParts DEF PluginTypes
      <3>2. row' \in Plugins!Rows /\ row'.present = row.present /\ ~row'.enabled
        BY <1>1, <2>2 DEF Plugins!Rows
      <3> QED
        BY <3>1, <3>2
    <2> QED
      BY <1>2, <2>1, <2>2 DEF Syncing
  <1>7. ~excused' => ~excused /\ \A p \in PluginOps \ {o} : pc[p] = "idle"
    BY <1>3
  <1>8. ASSUME stop' = "no", ~excused'
         PROVE  Progress(o)' /\ step # "idle"
    <2>1. /\ started => Agrees
          /\ ~started => NotLoaded
      BY <1>3, <1>7, <1>8 DEF Calm, Plugins!AtRest, PluginTypes, NotLoaded
    <2>2. /\ pc'[o] = step /\ kind'[o] = k /\ copy'[o] = r /\ NotLoaded' = NotLoaded
          /\ row' = row => Agrees' = Agrees
      BY <1>3, <1>4 DEF Becomes, NotLoaded, Agrees
    <2>3. CASE k \in Syncing /\ step = "rows" /\ row' = row /\ (k = "start" <=> ~started)
      BY <2>1, <2>2, <2>3 DEF Progress, SyncAgrees, Syncing
    <2>4. CASE k = "deleteUser" /\ step = "decide"
      BY <1>6, <2>2, <2>4 DEF Progress, Syncing
    <2>5. CASE k = "enable" /\ step = "load" /\ ~row.enabled /\ row' = row /\ started
      BY <2>1, <2>2, <2>5 DEF Progress, LoadFits, Agrees
    <2>6. CASE k \in {"disable", "update"} /\ step = "unload" /\ ~r.enabled
      BY <2>2, <2>6 DEF Progress
    <2>7. CASE k = "update" /\ step = "put" /\ r.enabled = row.enabled /\ started /\ row' = row
      BY <2>1, <2>2, <2>7 DEF Progress, Agrees
    <2> QED
      BY <1>2, <2>3, <2>4, <2>5, <2>6, <2>7
  <1>9. r.present \/ step \in {"idle", "rows", "decide"}
    BY <1>2
  <1>10. started' /\ excused' \in BOOLEAN /\ UNCHANGED <<file, loaded, with, open, stop, abandoned>>
    BY <1>2, <1>3 DEF PluginTypes, Plugins!TypeOK
  <1> QED
    BY <1>3, <1>4, <1>5, <1>6, <1>7, <1>8, <1>9, <1>10, GoesOn

\* What is known of an operation that is under way.
LEMMA UnderWay ==
  ASSUME PluginInv, NEW o \in PluginOps, pc[o] # "idle"
  PROVE  /\ LocalTypes /\ started /\ copy[o] \in Plugins!Rows /\ row \in Plugins!Rows
         /\ row.present \/ row = Plugins!NoRow
         /\ excused \in BOOLEAN /\ requests \in 0 .. MaxPluginRequests
         /\ ~excused => \A p \in PluginOps \ {o} : pc[p] = "idle"
         /\ stop = "no" /\ ~excused => Progress(o)
  <1>1. LocalTypes /\ row \in Plugins!Rows /\ excused \in BOOLEAN /\ requests \in 0 .. MaxPluginRequests
    BY TypesGive DEF PluginInv, PluginTypes, Plugins!TypeOK
  <1>2. started /\ copy[o] \in Plugins!Rows
    BY <1>1 DEF PluginInv, PluginTypes, LocalTypes
  <1>3. ~excused => \A p \in PluginOps \ {o} : pc[p] = "idle"
    BY DEF PluginInv, Alone
  <1>4. stop = "no" /\ ~excused => Progress(o)
    BY <1>2 DEF PluginInv, Calm
  <1> QED
    BY <1>1, <1>2, <1>3, <1>4 DEF PluginInv, PluginTypes

\* An operation ends.
LEMMA Ends ==
  ASSUME PluginInv, NEW o \in PluginOps, Plugins!Ended(o), pc[o] # "idle", ~HasInstance(o),
         UNCHANGED <<file, loaded, with, open, stop, started, requests, abandoned>>,
         excused' \in BOOLEAN, excused => excused',
         row' \in Plugins!Rows, row'.present \/ row' = Plugins!NoRow,
         stop = "no" /\ ~excused' => IF kind[o] = "start" THEN NotLoaded ELSE Agrees'
  PROVE  PluginInv'
  <1>1. CASE kind[o] = "start"
    <2>1. Becomes(o, "decide", "boot", Plugins!NoRow, Plugins!None)
      BY <1>1, UnderWay, EndedBecomes
    <2>2. stop = "no" /\ ~excused' => Progress(o)'
      BY <1>1, <2>1 DEF Becomes, Progress, NotLoaded
    <2> QED
      BY <2>1, <2>2, UnderWay, GoesOn
  <1>2. CASE kind[o] # "start"
    <2>1. Becomes(o, "idle", "start", Plugins!NoRow, Plugins!None)
      BY <1>2, UnderWay, EndedBecomes
    <2>2. stop = "no" /\ ~excused' => Progress(o)' /\ Agrees'
      BY <1>2, <2>1 DEF Becomes, Progress, NotLoaded, Agrees
    <2> QED
      BY <2>1, <2>2, UnderWay, GoesOn
  <1> QED
    BY <1>1, <1>2

LEMMA ReadKeeps ==
  ASSUME PluginInv, NEW o \in PluginOps,
         \/ Plugins!ReadRow(o) \/ Plugins!SyncDecides(o)
         \/ Plugins!LoadEnabledPlugins(o) \/ Plugins!UnloadDisabledPlugins(o)
  PROVE  PluginInv'
  <1>1. /\ pc[o] \in {"rows", "decide"}
        /\ UNCHANGED <<file, row, loaded, with, open, stop, started, requests, excused, abandoned>>
    BY DEF Plugins!ReadRow, Plugins!SyncDecides, Plugins!LoadEnabledPlugins,
           Plugins!UnloadDisabledPlugins, Plugins!memory, Plugins!manager, Plugins!history
  <1>2. pc[o] # "idle" /\ ~HasInstance(o)
    BY <1>1 DEF HasInstance
  <1> USE UnderWay, <1>1, <1>2
  <1>3. NotLoaded' = NotLoaded /\ Agrees' = Agrees
    BY DEF NotLoaded, Agrees
  <1>4. ASSUME NEW r \in Plugins!Rows, NEW step \in Plugins!Steps, Plugins!With(o, r, step),
               step \notin {"idle", "compile", "close"}, step = "decide" \/ r.present,
               stop = "no" /\ ~excused => Progress(o)'
        PROVE  PluginInv'
    BY <1>4, WithBecomes, GoesOn
  <1>5. CASE Plugins!ReadRow(o)
    <2>1. pc[o] = "rows" /\ Plugins!With(o, row, "decide")
      BY <1>5 DEF Plugins!ReadRow
    <2>2. Becomes(o, "decide", kind[o], row, inst[o])
      BY <2>1, WithBecomes DEF Plugins!Steps
    <2>3. stop = "no" /\ ~excused => Progress(o)'
      BY <1>3, <2>1, <2>2 DEF Becomes, Progress, SyncAgrees
    <2> QED
      BY <1>4, <2>1, <2>3 DEF Plugins!Steps
  <1>6. CASE Plugins!SyncDecides(o)
    <2>1. pc[o] = "decide" /\ kind[o] \in Syncing
      BY <1>6 DEF Plugins!SyncDecides, Syncing
    <2>2. stop = "no" /\ ~excused => copy[o] = row /\ SyncAgrees(o)
      BY <2>1 DEF Progress, Syncing
    <2>3. CASE Plugins!Ended(o)
      <3>1. stop = "no" /\ ~excused => IF kind[o] = "start" THEN NotLoaded ELSE Agrees'
        BY <1>3, <2>2 DEF SyncAgrees
      <3> QED
        BY <2>3, <3>1, Ends
    <2>4. ASSUME NEW r \in Plugins!Rows, r.present,
                 NEW step \in {"unload", "put", "delete"}, Plugins!With(o, r, step),
                 step = "put" => ~r.enabled,
                 step \in {"put", "delete"} => ~copy[o].enabled
          PROVE  PluginInv'
      <3>1. step \in Plugins!Steps
        BY DEF Plugins!Steps
      <3>2. Becomes(o, step, kind[o], r, inst[o])
        BY <2>4, <3>1, WithBecomes
      <3>3. stop = "no" /\ ~excused /\ step \in {"put", "delete"} => NotLoaded
        BY <2>2, <2>4 DEF SyncAgrees, Agrees
      <3>4. stop = "no" /\ ~excused => Progress(o)'
        BY <1>3, <2>1, <2>4, <3>2, <3>3 DEF Becomes, Progress, Syncing
      <3> QED
        BY <1>4, <2>4, <3>1, <3>4
    <2>5. CASE Plugins!Remove(o) /\ copy[o].present
      <3> DEFINE r == [copy[o] EXCEPT !.sha = Plugins!None]
      <3>1. r \in Plugins!Rows /\ r.present
        BY <2>5 DEF Plugins!Rows
      <3> HIDE DEF r
      <3>2. Plugins!With(o, r, IF copy[o].enabled THEN "unload" ELSE "delete")
        BY <2>5 DEF Plugins!Remove, r
      <3>3. CASE copy[o].enabled
        BY <2>4, <3>1, <3>2, <3>3
      <3>4. CASE ~copy[o].enabled
        BY <2>4, <3>1, <3>2, <3>4
      <3> QED
        BY <3>3, <3>4
    <2>6. ASSUME NEW r \in Plugins!Rows, r.present, ~r.enabled,
                 Plugins!With(o, r, Plugins!Unloading(copy[o]))
          PROVE  PluginInv'
      <3>1. CASE copy[o].enabled
        BY <2>4, <2>6, <3>1 DEF Plugins!Unloading
      <3>2. CASE ~copy[o].enabled
        BY <2>4, <2>6, <3>2 DEF Plugins!Unloading
      <3> QED
        BY <3>1, <3>2
    <2>7. CASE Plugins!Broken(o) /\ copy[o].present
      BY <2>6, <2>7, RowParts DEF Plugins!Broken
    <2>8. CASE Plugins!Changed(o)
      <3> DEFINE r == [Plugins!Disabled(copy[o]) EXCEPT !.present = TRUE, !.sha = file]
      <3>1. file \in PluginVersions \cup {Plugins!None}
        BY DEF PluginInv, PluginTypes, Plugins!TypeOK
      <3>2. r \in Plugins!Rows /\ r.present /\ ~r.enabled
        BY <3>1 DEF Plugins!Rows, Plugins!Disabled
      <3> HIDE DEF r
      <3>3. Plugins!With(o, r, Plugins!Unloading(copy[o]))
        BY <2>8 DEF Plugins!Changed, r
      <3> QED
        BY <2>6, <3>2, <3>3
    <2> QED
      BY <1>6, <2>3, <2>5, <2>7, <2>8
         DEF Plugins!SyncDecides, Plugins!Remove, Plugins!Broken, Plugins!Unchanged
  <1>7. CASE Plugins!LoadEnabledPlugins(o)
    <2>1. pc[o] = "decide" /\ kind[o] = "boot"
      BY <1>7 DEF Plugins!LoadEnabledPlugins
    <2>2. stop = "no" /\ ~excused => NotLoaded
      BY <2>1 DEF Progress, Syncing
    <2>3. CASE row.enabled
      <3>1. Plugins!With(o, row, "load") /\ row.present
        BY <1>7, <2>3, RowParts DEF Plugins!LoadEnabledPlugins
      <3>2. Becomes(o, "load", kind[o], row, inst[o])
        BY <3>1, WithBecomes DEF Plugins!Steps
      <3>3. stop = "no" /\ ~excused => Progress(o)'
        BY <1>3, <2>1, <2>2, <2>3, <3>2 DEF Becomes, Progress, LoadFits
      <3> QED
        BY <1>4, <3>1, <3>3 DEF Plugins!Steps
    <2>4. CASE ~row.enabled
      <3>1. stop = "no" /\ ~excused => Agrees'
        BY <1>3, <2>2, <2>4 DEF Agrees
      <3> QED
        BY <1>7, <2>1, <2>4, <3>1, Ends DEF Plugins!LoadEnabledPlugins
    <2> QED
      BY <2>3, <2>4
  <1>8. CASE Plugins!UnloadDisabledPlugins(o)
    <2>1. pc[o] = "decide" /\ kind[o] = "deleteUser"
      BY <1>8 DEF Plugins!UnloadDisabledPlugins
    <2>2. stop = "no" /\ ~excused => ~row.enabled /\ (NotLoaded \/ row.present)
      BY <2>1 DEF Progress, Syncing
    <2>3. CASE row.present /\ ~row.enabled /\ loaded # Plugins!None
      <3>1. Plugins!With(o, row, "unload")
        BY <1>8, <2>3 DEF Plugins!UnloadDisabledPlugins
      <3>2. Becomes(o, "unload", kind[o], row, inst[o])
        BY <3>1, WithBecomes DEF Plugins!Steps
      <3>3. stop = "no" /\ ~excused => Progress(o)'
        BY <2>1, <2>3, <3>2 DEF Becomes, Progress
      <3> QED
        BY <1>4, <2>3, <3>1, <3>3 DEF Plugins!Steps
    <2>4. CASE ~(row.present /\ ~row.enabled /\ loaded # Plugins!None)
      <3>1. stop = "no" /\ ~excused => Agrees'
        BY <1>3, <2>2, <2>4 DEF Agrees, NotLoaded
      <3> QED
        BY <1>8, <2>1, <2>4, <3>1, Ends DEF Plugins!UnloadDisabledPlugins
    <2> QED
      BY <2>3, <2>4
  <1> QED
    BY <1>5, <1>6, <1>7, <1>8

LEMMA WriteKeeps ==
  ASSUME PluginInv, NEW o \in PluginOps,
         Plugins!Put(o) \/ Plugins!PutFails(o) \/ Plugins!Delete(o)
  PROVE  PluginInv'
  <1>1. /\ pc[o] \in {"put", "delete"}
        /\ UNCHANGED <<file, loaded, with, open, stop, started, requests, abandoned>>
    BY DEF Plugins!Put, Plugins!PutFails, Plugins!Delete, Plugins!memory, Plugins!manager,
           Plugins!history
  <1>2. pc[o] # "idle" /\ ~HasInstance(o) /\ copy[o].present
    BY <1>1 DEF HasInstance, PluginInv, PluginTypes
  <1> USE UnderWay, <1>1, <1>2
  <1>3. NotLoaded' = NotLoaded
    BY DEF NotLoaded
  <1>4. stop = "no" /\ ~excused /\ pc[o] = "put" =>
            /\ kind[o] # "deleteUser"
            /\ ~copy[o].enabled => NotLoaded
            /\ copy[o].enabled => kind[o] \in {"enable", "update"}
            /\ kind[o] = "enable" => ~row.enabled
            /\ kind[o] = "enable" /\ copy[o].enabled =>
                   ~NotLoaded /\ with[loaded] = copy[o].settings
            /\ kind[o] = "update" /\ copy[o].enabled => Agrees
    BY DEF Progress
  <1>5. CASE Plugins!Put(o)
    <2>1. pc[o] = "put" /\ row' = copy[o] /\ excused' = excused
      BY <1>5 DEF Plugins!Put, Plugins!history
    <2>2. CASE kind[o] = "update" /\ copy[o].enabled
      <3>1. Plugins!With(o, copy[o], "unload")
        BY <1>5, <2>2 DEF Plugins!Put
      <3>2. Becomes(o, "unload", kind[o], copy[o], inst[o])
        BY <3>1, WithBecomes DEF Plugins!Steps
      <3>3. stop = "no" /\ ~excused => Progress(o)'
        BY <2>1, <2>2, <3>2 DEF Becomes, Progress, LoadFits
      <3> QED
        BY <2>1, <3>2, <3>3, GoesOn
    <2>3. CASE ~(kind[o] = "update" /\ copy[o].enabled)
      <3>1. stop = "no" /\ ~excused => Agrees'
        BY <1>4, <2>1, <2>3 DEF Agrees, NotLoaded
      <3>2. stop = "no" /\ ~excused /\ kind[o] = "start" => NotLoaded
        BY <1>4, <2>1
      <3> QED
        BY <1>5, <2>1, <2>3, <3>1, <3>2, Ends DEF Plugins!Put
    <2> QED
      BY <2>2, <2>3
  <1>6. CASE Plugins!PutFails(o)
    <2>1. /\ pc[o] = "put" /\ row' = row
          /\ excused' = (excused \/ (kind[o] # "enable" /\ ~copy[o].enabled))
      BY <1>6 DEF Plugins!PutFails
    <2>2. excused' \in BOOLEAN /\ (excused => excused')
      BY <2>1
    <2>3. CASE kind[o] = "enable" /\ copy[o].enabled
      <3>1. Plugins!With(o, copy[o], "unload")
        BY <1>6, <2>3 DEF Plugins!PutFails, Plugins!UponFailure
      <3>2. Becomes(o, "unload", kind[o], copy[o], inst[o])
        BY <3>1, WithBecomes DEF Plugins!Steps
      <3>3. stop = "no" /\ ~excused' => Progress(o)'
        BY <1>4, <2>1, <2>3, <3>2 DEF Becomes, Progress
      <3> QED
        BY <2>1, <2>2, <3>2, <3>3, GoesOn
    <2>4. CASE ~(kind[o] = "enable" /\ copy[o].enabled)
      <3>1. stop = "no" /\ ~excused' => Agrees'
        BY <1>4, <2>1, <2>4 DEF Agrees, NotLoaded
      <3>2. stop = "no" /\ ~excused' /\ kind[o] = "start" => NotLoaded
        BY <1>4, <2>1
      <3>3. Plugins!Ended(o)
        BY <1>6, <2>4 DEF Plugins!PutFails, Plugins!UponFailure
      <3> QED
        BY <2>1, <2>2, <3>1, <3>2, <3>3, Ends
    <2> QED
      BY <2>3, <2>4
  <1>7. CASE Plugins!Delete(o)
    <2>1. pc[o] = "delete" /\ row' = Plugins!NoRow /\ excused' = excused /\ Plugins!Ended(o)
      BY <1>7 DEF Plugins!Delete, Plugins!history
    <2>2. stop = "no" /\ ~excused => NotLoaded
      BY <2>1 DEF Progress
    <2>3. row' \in Plugins!Rows /\ ~row'.enabled
      BY <2>1, RowParts
    <2>4. stop = "no" /\ ~excused => Agrees'
      BY <1>3, <2>2, <2>3 DEF Agrees
    <2> QED
      BY <2>1, <2>2, <2>3, <2>4, Ends
  <1> QED
    BY <1>5, <1>6, <1>7

\* A set of natural numbers that has an element has a least one.
LEMMA LeastInstance ==
  ASSUME NEW S \in SUBSET Nat, S # {}
  PROVE  Plugins!Min(S) \in S
  <1> DEFINE R == OpToRel(<, Nat)
  <1>1. IsWellFoundedOn(R, Nat)
    BY NatLessThanWellFounded
  <1>2. \A x, y \in S : <<y, x>> \notin R => x <= y
    BY DEF OpToRel
  <1> HIDE DEF R
  <1>3. PICK x \in S : \A y \in S : ~(<<y, x>> \in R)
    BY <1>1, WFMin, Zenon
  <1> QED
    BY <1>2, <1>3 DEF Plugins!Min

\* What goes on after an unload.
LEMMA ContinueKeeps ==
  ASSUME PluginInv, NEW o \in PluginOps, pc[o] \in {"unload", "close"}, Plugins!Continue(o)
  PROVE  \E step \in {"idle", "decide", "load", "put", "delete"} : \E k, r, i :
            /\ Becomes(o, step, k, r, i)
            /\ r.present \/ step \in {"idle", "decide"}
            /\ stop = "no" /\ ~excused /\ UNCHANGED row /\ NotLoaded' =>
                   Progress(o)' /\ (step = "idle" => Agrees')
  <1>1. pc[o] # "idle" /\ copy[o].present
    BY DEF PluginInv, PluginTypes
  <1> USE UnderWay, <1>1
  <1>2. stop = "no" /\ ~excused =>
            /\ kind[o] # "boot"
            /\ kind[o] = "update" /\ copy[o].enabled => LoadFits(o)
            /\ kind[o] \in {"enable", "deleteUser"} => ~row.enabled
    BY DEF Progress
  <1>3. CASE Plugins!AfterUnload(o) = "idle" /\ Plugins!Ended(o)
    <2>1. kind[o] \in {"deleteUser", "enable"}
      BY <1>3 DEF Plugins!AfterUnload
    <2>2. Becomes(o, "idle", "start", Plugins!NoRow, Plugins!None)
      BY <1>3, <2>1, EndedBecomes
    <2>3. stop = "no" /\ ~excused /\ UNCHANGED row /\ NotLoaded' => Progress(o)' /\ Agrees'
      BY <1>2, <2>1, <2>2 DEF Becomes, Progress, Agrees
    <2> QED
      BY <2>2, <2>3
  <1>4. CASE Plugins!AfterUnload(o) = "load" /\ Becomes(o, "load", kind[o], copy[o], Plugins!None)
    <2>1. kind[o] = "update" /\ copy[o].enabled
      BY <1>4 DEF Plugins!AfterUnload
    <2>2. stop = "no" /\ ~excused /\ UNCHANGED row /\ NotLoaded' => Progress(o)'
      BY <1>2, <1>4, <2>1 DEF Becomes, Progress, LoadFits
    <2> QED
      BY <1>4, <2>2
  <1>5. CASE /\ Plugins!AfterUnload(o) \in {"put", "delete"}
             /\ Becomes(o, Plugins!AfterUnload(o), kind[o], Plugins!Disabled(copy[o]), Plugins!None)
    <2>1. /\ kind[o] \notin {"deleteUser", "enable"}
          /\ Plugins!AfterUnload(o) = "delete" => kind[o] \in Syncing
      BY <1>5 DEF Plugins!AfterUnload, Syncing
    <2>2. ~Plugins!Disabled(copy[o]).enabled /\ Plugins!Disabled(copy[o]).present
      BY RowParts
    <2>3. stop = "no" /\ ~excused /\ UNCHANGED row /\ NotLoaded' => Progress(o)'
      BY <1>2, <1>5, <2>1, <2>2 DEF Becomes, Progress
    <2> QED
      BY <1>5, <2>2, <2>3
  <1> QED
    BY <1>3, <1>4, <1>5, ContinueBecomes

LEMMA UnloadKeeps ==
  ASSUME PluginInv, NEW o \in PluginOps, Plugins!Unload(o)
  PROVE  PluginInv'
  <1>1. /\ pc[o] = "unload" /\ loaded' = Plugins!None
        /\ UNCHANGED <<file, row, with, open, stop, started, requests, excused, abandoned>>
    BY DEF Plugins!Unload, Plugins!manager, Plugins!history
  <1>2. pc[o] # "idle" /\ ~HasInstance(o) /\ copy[o].present
    BY <1>1 DEF HasInstance, PluginInv, PluginTypes
  <1> USE UnderWay, <1>1, <1>2, PluginFacts
  <1>3. NotLoaded'
    BY DEF NotLoaded
  <1>4. CASE loaded = Plugins!None
    <2>1. Plugins!Continue(o)
      BY <1>4 DEF Plugins!Unload
    <2>2. PICK step \in {"idle", "decide", "load", "put", "delete"} : \E k, r, i :
              /\ Becomes(o, step, k, r, i)
              /\ r.present \/ step \in {"idle", "decide"}
              /\ stop = "no" /\ ~excused /\ UNCHANGED row /\ NotLoaded' =>
                     Progress(o)' /\ (step = "idle" => Agrees')
      BY <2>1, ContinueKeeps
    <2>3. PICK k, r, i :
              /\ Becomes(o, step, k, r, i)
              /\ r.present \/ step \in {"idle", "decide"}
              /\ stop = "no" /\ ~excused /\ UNCHANGED row /\ NotLoaded' =>
                     Progress(o)' /\ (step = "idle" => Agrees')
      BY <2>2
    <2> QED
      BY <1>3, <1>4, <2>3, GoesOn
  <1>5. CASE loaded # Plugins!None
    <2>1. loaded \in Plugins!Instances /\ loaded \in open
      BY <1>5 DEF PluginInv, PluginTypes, Plugins!TypeOK
    <2>2. Becomes(o, "close", kind[o], copy[o], loaded)
      BY <1>5, <2>1 DEF Plugins!Unload, LocalTypes, Becomes, Plugins!Goto, Plugins!Steps
    <2>3. stop = "no" /\ ~excused => Progress(o)'
      BY <1>3, <2>2 DEF Becomes, Progress, LoadFits
    <2>4. Alone' /\ Calm'
      BY <2>2, <2>3, CalmStays DEF PluginInv
    <2>5. Stopped'
      BY <2>2, StoppedStays DEF PluginInv
    <2>6. Plugins!TypeOK'
      BY <2>2 DEF PluginInv, PluginTypes, Plugins!TypeOK, Becomes, LocalTypes
    <2>7. PluginTypes'
      BY <2>2, <2>6 DEF PluginInv, PluginTypes, Becomes
    <2>8. /\ \A p \in PluginOps : HasInstance(p)' <=> HasInstance(p) \/ p = o
          /\ \A p \in PluginOps \ {o} : inst'[p] = inst[p]
          /\ inst'[o] = loaded
      BY <2>2 DEF HasInstance, Becomes
    <2>9. loaded' \notin abandoned'
      BY <2>6 DEF Plugins!TypeOK
    <2>10. ASSUME NEW p \in PluginOps, HasInstance(p)'
           PROVE  /\ inst'[p] \in open \ (abandoned \cup {loaded'})
                  /\ \A q \in PluginOps : HasInstance(q)' /\ inst'[q] = inst'[p] => q = p
      <3>1. loaded' \notin open
        BY DEF PluginInv, PluginTypes, Plugins!TypeOK
      <3>2. /\ loaded \notin abandoned
            /\ \A q \in PluginOps : HasInstance(q) =>
                   /\ inst[q] \in open \ (abandoned \cup {loaded})
                   /\ \A x \in PluginOps : HasInstance(x) /\ inst[x] = inst[q] => x = q
        BY DEF PluginInv, Owned
      <3>3. CASE p = o
        BY <2>1, <2>8, <3>1, <3>2, <3>3
      <3>4. CASE p # o
        BY <2>8, <2>10, <3>1, <3>2, <3>4
      <3> QED
        BY <3>3, <3>4
    <2>11. ASSUME NEW j \in open \ abandoned
           PROVE  \E p \in PluginOps : HasInstance(p)' /\ inst'[p] = j
      <3>1. CASE j = loaded
        BY <2>8, <3>1
      <3>2. CASE j # loaded
        <4>1. PICK p \in PluginOps : HasInstance(p) /\ inst[p] = j
          BY <3>2 DEF PluginInv, Owned
        <4> QED
          BY <2>8, <4>1
      <3> QED
        BY <3>1, <3>2
    <2>12. Owned'
      BY <2>9, <2>10, <2>11 DEF Owned
    <2> QED
      BY <2>4, <2>5, <2>7, <2>12 DEF PluginInv
  <1> QED
    BY <1>4, <1>5

\* Of an operation that has closed its instance.
LEMMA CloseInstanceKeeps ==
  ASSUME PluginInv, NEW o \in PluginOps, Plugins!Close(o)
  PROVE  PluginInv'
  <1>1. /\ pc[o] = "close" /\ Plugins!Continue(o)
        /\ open' = open \ {inst[o]} /\ abandoned' = abandoned \ {inst[o]}
        /\ with' = [j \in Plugins!Instances |-> IF j = inst[o] THEN 0 ELSE with[j]]
        /\ UNCHANGED <<file, row, loaded, stop, started, requests, excused>>
    BY DEF Plugins!Close, Plugins!CloseInstance, Plugins!manager
  <1>2. pc[o] # "idle" /\ HasInstance(o) /\ copy[o].present
    BY <1>1 DEF HasInstance, PluginInv, PluginTypes
  <1> USE UnderWay, <1>1, <1>2, PluginFacts
  <1>3. /\ inst[o] \in open \ (abandoned \cup {loaded})
        /\ \A p \in PluginOps : HasInstance(p) /\ inst[p] = inst[o] => p = o
    BY DEF PluginInv, Owned
  <1>4. abandoned' = abandoned
    BY <1>3
  <1>5. stop = "no" /\ ~excused => NotLoaded'
    BY DEF Progress, NotLoaded
  <1>6. PICK step \in {"idle", "decide", "load", "put", "delete"} : \E k, r, i :
            /\ Becomes(o, step, k, r, i)
            /\ r.present \/ step \in {"idle", "decide"}
            /\ stop = "no" /\ ~excused /\ UNCHANGED row /\ NotLoaded' =>
                   Progress(o)' /\ (step = "idle" => Agrees')
    BY ContinueKeeps
  <1>7. PICK k, r, i :
            /\ Becomes(o, step, k, r, i)
            /\ r.present \/ step \in {"idle", "decide"}
            /\ stop = "no" /\ ~excused /\ UNCHANGED row /\ NotLoaded' =>
                   Progress(o)' /\ (step = "idle" => Agrees')
    BY <1>6
  <1>8. Alone' /\ Calm'
    BY <1>5, <1>7, CalmStays DEF PluginInv
  <1>9. Stopped'
    BY <1>7, StoppedStays DEF PluginInv
  <1>10. Plugins!TypeOK'
    BY <1>3, <1>4, <1>7 DEF PluginInv, PluginTypes, Plugins!TypeOK, Becomes, LocalTypes
  <1>11. PluginTypes'
    BY <1>7, <1>10 DEF PluginInv, PluginTypes, Becomes
  <1>12. /\ ~HasInstance(o)'
         /\ \A p \in PluginOps \ {o} : (HasInstance(p)' <=> HasInstance(p)) /\ inst'[p] = inst[p]
    BY <1>7 DEF HasInstance, Becomes
  <1>13. ASSUME NEW p \in PluginOps, HasInstance(p)'
         PROVE  /\ inst'[p] \in open' \ (abandoned' \cup {loaded'})
                /\ \A q \in PluginOps : HasInstance(q)' /\ inst'[q] = inst'[p] => q = p
    <2>1. p # o /\ HasInstance(p) /\ inst'[p] = inst[p]
      BY <1>12, <1>13
    <2>2. /\ inst[p] \in open \ (abandoned \cup {loaded})
          /\ \A q \in PluginOps : HasInstance(q) /\ inst[q] = inst[p] => q = p
      BY <2>1 DEF PluginInv, Owned
    <2> QED
      BY <1>3, <1>4, <1>12, <2>1, <2>2
  <1>14. ASSUME NEW j \in open' \ abandoned', j # loaded'
         PROVE  \E p \in PluginOps : HasInstance(p)' /\ inst'[p] = j
    <2>1. PICK p \in PluginOps : HasInstance(p) /\ inst[p] = j
      BY <1>4, <1>14 DEF PluginInv, Owned
    <2> QED
      BY <1>12, <1>14, <2>1
  <1>15. Owned'
    BY <1>4, <1>13, <1>14 DEF PluginInv, Owned
  <1> QED
    BY <1>8, <1>9, <1>11, <1>15 DEF PluginInv

\* A load begins, with an instance that is not open, or fails.
LEMMA LoadKeeps ==
  ASSUME PluginInv, NEW o \in PluginOps, Plugins!LoadBegins(o)
  PROVE  PluginInv'
  <1>1. /\ pc[o] = "load"
        /\ UNCHANGED <<file, row, loaded, stop, started, requests, excused, abandoned>>
    BY DEF Plugins!LoadBegins, Plugins!manager, Plugins!history
  <1>2. pc[o] # "idle" /\ ~HasInstance(o) /\ copy[o].present
    BY <1>1 DEF HasInstance, PluginInv, PluginTypes
  <1> USE UnderWay, <1>1, <1>2, PluginFacts
  <1>3. stop = "no" /\ ~excused => LoadFits(o) /\ NotLoaded
    BY DEF Progress
  <1>4. CASE Plugins!LoadFails(o) /\ UNCHANGED <<with, open>>
    <2>1. Becomes(o, "put", kind[o], Plugins!Disabled(copy[o]), inst[o])
      BY <1>4, RowParts, WithBecomes DEF Plugins!LoadFails, Plugins!Steps
    <2>2. ~Plugins!Disabled(copy[o]).enabled /\ Plugins!Disabled(copy[o]).present
      BY RowParts
    <2>3. stop = "no" /\ ~excused => Progress(o)'
      BY <1>3, <2>1, <2>2 DEF Becomes, Progress, LoadFits, NotLoaded
    <2> QED
      BY <1>4, <2>1, <2>2, <2>3, GoesOn
  <1>5. ASSUME stop = "no", open # Plugins!Instances,
               NEW new, new = Plugins!Min(Plugins!Instances \ open),
               with' = [with EXCEPT ![new] = copy[o].settings],
               open' = open \cup {new}, inst' = [inst EXCEPT ![o] = new],
               Plugins!Goto(o, "compile"), UNCHANGED <<kind, copy, seen>>
        PROVE  PluginInv'
    <2>1. new \in Plugins!Instances /\ new \notin open
      <3>1. open \subseteq Plugins!Instances
        BY DEF PluginInv, PluginTypes, Plugins!TypeOK
      <3>2. Plugins!Instances \ open # {}
        BY <1>5, <3>1, Zenon
      <3>3. Plugins!Instances \ open \in SUBSET Nat
        OBVIOUS
      <3> QED
        BY <1>5, <3>2, <3>3, LeastInstance
    <2>2. Becomes(o, "compile", kind[o], copy[o], new)
      BY <1>5, <2>1 DEF LocalTypes, Becomes, Plugins!Goto, Plugins!Steps
    <2>3. with' \in [Plugins!Instances -> Settings \cup {0}] /\ with'[new] = copy[o].settings
      <3>1. with \in [Plugins!Instances -> Settings \cup {0}]
        BY DEF PluginInv, PluginTypes, Plugins!TypeOK
      <3>2. copy[o].settings \in Settings \cup {0}
        BY RowParts
      <3> QED
        BY <1>5, <2>1, <3>1, <3>2
    <2>4. stop = "no" /\ ~excused => Progress(o)'
      BY <1>3, <2>2, <2>3 DEF Becomes, Progress, LoadFits, NotLoaded
    <2>5. Alone' /\ Calm'
      BY <2>2, <2>4, CalmStays DEF PluginInv
    <2>6. Stopped'
      BY <1>5 DEF Stopped
    <2>7. Plugins!TypeOK'
      BY <1>5, <2>1, <2>2, <2>3
         DEF PluginInv, PluginTypes, Plugins!TypeOK, Becomes, LocalTypes
    <2>8. PluginTypes'
      BY <2>2, <2>7 DEF PluginInv, PluginTypes, Becomes
    <2>9. /\ \A p \in PluginOps : HasInstance(p)' <=> HasInstance(p) \/ p = o
          /\ \A p \in PluginOps \ {o} : inst'[p] = inst[p]
          /\ inst'[o] = new
      BY <2>2 DEF HasInstance, Becomes
    <2>10. new # loaded /\ new \notin abandoned
      BY <2>1 DEF PluginInv, PluginTypes, Plugins!TypeOK
    <2>11. \A q \in PluginOps : HasInstance(q) =>
              /\ inst[q] \in open \ (abandoned \cup {loaded})
              /\ \A x \in PluginOps : HasInstance(x) /\ inst[x] = inst[q] => x = q
      BY DEF PluginInv, Owned
    <2>12. ASSUME NEW p \in PluginOps, HasInstance(p)'
           PROVE  /\ inst'[p] \in open' \ (abandoned \cup {loaded})
                  /\ \A q \in PluginOps : HasInstance(q)' /\ inst'[q] = inst'[p] => q = p
      <3>1. open' = open \cup {new}
        BY <1>5
      <3>2. CASE p = o
        <4>1. \A q \in PluginOps \ {o} : HasInstance(q)' => inst'[q] # new
          BY <2>1, <2>9, <2>11
        <4> QED
          BY <2>9, <2>10, <3>1, <3>2, <4>1
      <3>3. CASE p # o
        <4>1. HasInstance(p) /\ inst'[p] = inst[p] /\ inst[p] \in open \ (abandoned \cup {loaded})
          BY <2>9, <2>11, <2>12, <3>3
        <4>2. ASSUME NEW q \in PluginOps, HasInstance(q)', inst'[q] = inst'[p]
              PROVE  q = p
          <5>1. q # o
            BY <2>1, <2>9, <4>1, <4>2
          <5> QED
            BY <2>9, <2>11, <4>1, <4>2, <5>1
        <4> QED
          BY <3>1, <4>1, <4>2
      <3> QED
        BY <3>2, <3>3
    <2>13. ASSUME NEW j \in open' \ abandoned, j # loaded
           PROVE  \E p \in PluginOps : HasInstance(p)' /\ inst'[p] = j
      <3>1. CASE j = new
        BY <2>9, <3>1
      <3>2. CASE j # new
        <4>1. PICK p \in PluginOps : HasInstance(p) /\ inst[p] = j
          BY <1>5, <2>13, <3>2 DEF PluginInv, Owned
        <4> QED
          BY <2>9, <4>1
      <3> QED
        BY <3>1, <3>2
    <2>14. Owned'
      BY <2>12, <2>13 DEF PluginInv, Owned
    <2> QED
      BY <2>5, <2>6, <2>8, <2>14 DEF PluginInv
  <1> QED
    BY <1>4, <1>5 DEF Plugins!LoadBegins, Plugins!MayLoad

\* The instance that was made gets into the map, or is abandoned.
LEMMA CompileKeeps ==
  ASSUME PluginInv, NEW o \in PluginOps, Plugins!LoadEnds(o) \/ Plugins!CompileFails(o)
  PROVE  PluginInv'
  <1>1. /\ pc[o] = "compile"
        /\ UNCHANGED <<file, row, with, open, stop, started, requests, excused>>
    BY DEF Plugins!LoadEnds, Plugins!CompileFails, Plugins!memory, Plugins!manager
  <1>2. pc[o] # "idle" /\ HasInstance(o) /\ copy[o].present
    BY <1>1 DEF HasInstance, PluginInv, PluginTypes
  <1> USE UnderWay, <1>1, <1>2, PluginFacts
  <1>3. stop = "no" /\ ~excused =>
            LoadFits(o) /\ NotLoaded /\ with[inst[o]] = copy[o].settings
    BY DEF Progress
  <1>4. /\ inst[o] \in open \ (abandoned \cup {loaded})
        /\ \A q \in PluginOps : HasInstance(q) =>
              /\ inst[q] \in open \ (abandoned \cup {loaded})
              /\ \A x \in PluginOps : HasInstance(x) /\ inst[x] = inst[q] => x = q
        /\ \A i \in open \ abandoned :
               i = loaded \/ \E p \in PluginOps : HasInstance(p) /\ inst[p] = i
        /\ loaded \notin abandoned
    BY DEF PluginInv, Owned
  <1>5. stop # "done"
    BY DEF PluginInv, Stopped
  <1>6. Stopped'
    BY <1>5 DEF Stopped
  <1>7. inst[o] # Plugins!None /\ loaded \in open \cup {Plugins!None} /\ abandoned \subseteq open
    BY <1>4 DEF PluginInv, PluginTypes, Plugins!TypeOK
  \* the instance of o becomes the one in the map, or is abandoned
  <1>8. ASSUME NEW step \in {"idle", "decide", "put"}, NEW k, NEW r, NEW i,
               Becomes(o, step, k, r, i), r.present \/ step \in {"idle", "decide"},
               \/ loaded' = inst[o] /\ abandoned' = abandoned \cup ({loaded} \ {Plugins!None})
               \/ loaded' = loaded /\ abandoned' = abandoned \cup {inst[o]},
               stop = "no" /\ ~excused => Progress(o)' /\ (step = "idle" => Agrees')
        PROVE  PluginInv'
    <2>1. Alone' /\ Calm'
      BY <1>8, CalmStays DEF PluginInv
    <2>2. loaded' \in open \cup {Plugins!None} /\ abandoned' \subseteq open
      BY <1>4, <1>7, <1>8
    <2>3. Plugins!TypeOK'
      BY <1>8, <2>2 DEF PluginInv, PluginTypes, Plugins!TypeOK, Becomes, LocalTypes
    <2>4. PluginTypes'
      BY <1>8, <2>3 DEF PluginInv, PluginTypes, Becomes
    <2>5. /\ ~HasInstance(o)'
          /\ \A p \in PluginOps \ {o} : (HasInstance(p)' <=> HasInstance(p)) /\ inst'[p] = inst[p]
      BY <1>8 DEF HasInstance, Becomes
    <2>6. ASSUME NEW p \in PluginOps, HasInstance(p)'
          PROVE  /\ inst'[p] \in open \ (abandoned' \cup {loaded'})
                 /\ \A q \in PluginOps : HasInstance(q)' /\ inst'[q] = inst'[p] => q = p
      BY <1>4, <1>8, <2>5, <2>6
    <2>7. ASSUME NEW j \in open \ abandoned', j # loaded'
          PROVE  \E p \in PluginOps : HasInstance(p)' /\ inst'[p] = j
      <3>1. j \in open \ abandoned /\ j # loaded /\ j # inst[o]
        <4>1. Plugins!None \notin open
          BY DEF PluginInv, PluginTypes, Plugins!TypeOK
        <4>2. CASE loaded' = inst[o] /\ abandoned' = abandoned \cup ({loaded} \ {Plugins!None})
          BY <2>7, <4>1, <4>2
        <4>3. CASE loaded' = loaded /\ abandoned' = abandoned \cup {inst[o]}
          BY <2>7, <4>3
        <4> QED
          BY <1>8, <4>2, <4>3
      <3>2. PICK p \in PluginOps : HasInstance(p) /\ inst[p] = j
        BY <1>4, <3>1
      <3> QED
        BY <2>5, <3>1, <3>2
    <2>8. loaded' \notin abandoned'
      BY <1>4, <1>7, <1>8
    <2>9. Owned'
      BY <2>6, <2>7, <2>8 DEF Owned
    <2> QED
      BY <1>6, <2>1, <2>4, <2>9 DEF PluginInv
  <1>9. CASE Plugins!LoadEnds(o)
    <2>1. loaded' = inst[o] /\ abandoned' = abandoned \cup ({loaded} \ {Plugins!None})
      BY <1>9 DEF Plugins!LoadEnds
    <2>2. ~NotLoaded'
      BY <1>7, <2>1 DEF NotLoaded
    <2>3. CASE kind[o] = "enable"
      <3> DEFINE r == [copy[o] EXCEPT !.enabled = TRUE]
      <3>1. r \in Plugins!Rows /\ r.present /\ r.enabled /\ r.settings = copy[o].settings
        BY DEF Plugins!Rows
      <3> HIDE DEF r
      <3>2. Plugins!With(o, r, "put")
        BY <1>9, <2>3 DEF Plugins!LoadEnds, r
      <3>3. Becomes(o, "put", kind[o], r, inst[o])
        BY <3>1, <3>2, WithBecomes DEF Plugins!Steps
      <3>4. stop = "no" /\ ~excused => Progress(o)'
        BY <1>3, <2>1, <2>2, <2>3, <3>1, <3>3 DEF Becomes, Progress, LoadFits
      <3> QED
        BY <1>8, <2>1, <3>1, <3>3, <3>4
    <2>4. CASE kind[o] # "enable"
      <3>1. Plugins!Ended(o)
        BY <1>9, <2>4 DEF Plugins!LoadEnds
      <3>2. stop = "no" /\ ~excused => kind[o] # "start" /\ Agrees'
        BY <1>3, <2>1, <2>2, <2>4 DEF LoadFits, Agrees
      <3>3. CASE kind[o] = "start"
        <4>1. Becomes(o, "decide", "boot", Plugins!NoRow, Plugins!None)
          BY <3>1, <3>3, EndedBecomes
        <4> QED
          BY <1>8, <2>1, <3>2, <3>3, <4>1
      <3>4. CASE kind[o] # "start"
        <4>1. Becomes(o, "idle", "start", Plugins!NoRow, Plugins!None)
          BY <3>1, <3>4, EndedBecomes
        <4>2. Progress(o)'
          BY <4>1 DEF Becomes, Progress
        <4> QED
          BY <1>8, <2>1, <3>2, <4>1, <4>2
      <3> QED
        BY <3>3, <3>4
    <2> QED
      BY <2>3, <2>4
  <1>10. CASE Plugins!CompileFails(o)
    <2>1. loaded' = loaded /\ abandoned' = abandoned \cup {inst[o]}
      BY <1>10 DEF Plugins!CompileFails, Plugins!memory
    <2>2. Becomes(o, "put", kind[o], Plugins!Disabled(copy[o]), inst[o])
      BY <1>10, RowParts, WithBecomes DEF Plugins!CompileFails, Plugins!LoadFails, Plugins!Steps
    <2>3. ~Plugins!Disabled(copy[o]).enabled /\ Plugins!Disabled(copy[o]).present
      BY RowParts
    <2>4. stop = "no" /\ ~excused => Progress(o)'
      BY <1>3, <2>1, <2>2, <2>3 DEF Becomes, Progress, LoadFits, NotLoaded
    <2> QED
      BY <1>8, <2>1, <2>2, <2>3, <2>4
  <1> QED
    BY <1>9, <1>10

\* The folder changes, and the manager is stopped.
LEMMA OtherKeeps ==
  ASSUME PluginInv,
         \/ \E v \in PluginVersions \cup {Plugins!None} : Plugins!PackageChanges(v)
         \/ Plugins!StopBegins \/ Plugins!StopEnds
  PROVE  PluginInv'
  <1>1. ASSUME file' \in PluginVersions \cup {Plugins!None}, stop' \in {"no", "begun", "done"},
               stop' # stop => stop' = "begun" /\ started,
               UNCHANGED <<row, loaded, with, open, started, pc, kind, copy, seen, inst,
                           requests, excused, abandoned>>
        PROVE  PluginInv'
    <2>1. Plugins!TypeOK'
      BY <1>1 DEF PluginInv, PluginTypes, Plugins!TypeOK
    <2>2. PluginTypes'
      BY <1>1, <2>1 DEF PluginInv, PluginTypes
    <2>3. Owned' /\ Stopped' /\ Alone'
      BY <1>1 DEF PluginInv, Owned, Stopped, Alone, HasInstance
    <2>4. Calm'
      <3>1. stop' = "no" => stop = "no"
        BY <1>1
      <3>2. \A o \in PluginOps : Progress(o)' = Progress(o)
        BY <1>1 DEF Progress, SyncAgrees, LoadFits, NotLoaded, Agrees
      <3>3. Agrees' = Agrees /\ Plugins!AtRest' = Plugins!AtRest
        BY <1>1 DEF NotLoaded, Agrees, Plugins!AtRest
      <3> QED
        BY <1>1, <3>1, <3>2, <3>3 DEF PluginInv, Calm
    <2> QED
      BY <2>2, <2>3, <2>4 DEF PluginInv
  <1>2. ASSUME NEW v \in PluginVersions \cup {Plugins!None}, Plugins!PackageChanges(v)
        PROVE  PluginInv'
    BY <1>1, <1>2 DEF Plugins!PackageChanges, Plugins!memory, Plugins!manager, Plugins!locals,
                      Plugins!history, PluginInv, PluginTypes, Plugins!TypeOK
  <1>3. CASE Plugins!StopBegins
    BY <1>1, <1>3 DEF Plugins!StopBegins, Plugins!memory, Plugins!locals, Plugins!history,
                      PluginInv, PluginTypes, Plugins!TypeOK
  <1>4. CASE Plugins!StopEnds
    <2> USE PluginFacts
    <2>1. /\ stop = "begun" /\ stop' = "done" /\ loaded' = Plugins!None
          /\ \A o \in PluginOps : pc[o] # "compile"
          /\ open' = open \ {loaded} /\ abandoned' = abandoned \ {loaded}
          /\ with' = [j \in Plugins!Instances |-> IF j = loaded THEN 0 ELSE with[j]]
          /\ UNCHANGED <<file, row, started, pc, kind, copy, seen, inst, requests, excused>>
      BY <1>4 DEF Plugins!StopEnds, Plugins!CloseInstance, Plugins!locals
    <2>2. abandoned' = abandoned
      BY <2>1 DEF PluginInv, Owned
    <2>3. Plugins!TypeOK'
      BY <2>1, <2>2 DEF PluginInv, PluginTypes, Plugins!TypeOK, Owned
    <2>4. started
      BY <2>1 DEF PluginInv, PluginTypes
    <2>5. PluginTypes'
      BY <2>1, <2>3, <2>4 DEF PluginInv, PluginTypes
    <2>6. \A p \in PluginOps : (HasInstance(p)' <=> HasInstance(p)) /\ inst'[p] = inst[p]
      BY <2>1 DEF HasInstance
    <2>7. Plugins!None \notin open
      BY DEF PluginInv, PluginTypes, Plugins!TypeOK
    <2>8. ASSUME NEW p \in PluginOps, HasInstance(p)'
          PROVE  /\ inst'[p] \in open' \ (abandoned' \cup {loaded'})
                 /\ \A q \in PluginOps : HasInstance(q)' /\ inst'[q] = inst'[p] => q = p
      BY <2>1, <2>2, <2>6, <2>7, <2>8 DEF PluginInv, Owned
    <2>9. ASSUME NEW j \in open' \ abandoned'
          PROVE  \E p \in PluginOps : HasInstance(p)' /\ inst'[p] = j
      <3>1. PICK p \in PluginOps : HasInstance(p) /\ inst[p] = j
        BY <2>1, <2>2, <2>9 DEF PluginInv, Owned
      <3> QED
        BY <2>6, <3>1
    <2>10. loaded' \notin abandoned'
      BY <2>1, <2>3, <2>7 DEF Plugins!TypeOK
    <2>11. Owned'
      BY <2>8, <2>9, <2>10 DEF Owned
    <2>12. Stopped' /\ Alone' /\ Calm'
      BY <2>1 DEF PluginInv, Stopped, Alone, Calm
    <2> QED
      BY <2>5, <2>11, <2>12 DEF PluginInv
  <1> QED
    BY <1>2, <1>3, <1>4

LEMMA PluginStep ==
  ASSUME PluginInv, Plugins!Next
  PROVE  PluginInv'
  <1>1. ASSUME NEW o \in PluginOps, Plugins!Begins(o) \/ Plugins!Step(o)
        PROVE  PluginInv'
    BY <1>1, BeginKeeps, ReadKeeps, WriteKeeps, UnloadKeeps, CloseInstanceKeeps, LoadKeeps,
       CompileKeeps DEF Plugins!Step
  <1> QED
    BY <1>1, OtherKeeps DEF Plugins!Next

LEMMA InitPlugins ==
  ASSUME Init
  PROVE  PluginInv
  <1> USE PluginFacts
  <1>1. Plugins!Init
    BY DEF Init
  <1>2. (CHOOSE s \in Settings : TRUE) \in Settings
        /\ (CHOOSE v \in PluginVersions : TRUE) \in PluginVersions
    OBVIOUS
  <1>3. row \in Plugins!Rows /\ (row.present \/ row = Plugins!NoRow)
    <2>1. CASE row = Plugins!NoRow
      BY <2>1 DEF Plugins!Rows, Plugins!NoRow
    <2>2. ASSUME NEW e \in BOOLEAN,
                 row = [present |-> TRUE, enabled |-> e, settings |-> CHOOSE s \in Settings : TRUE,
                        sha |-> CHOOSE v \in PluginVersions : TRUE]
          PROVE  row \in Plugins!Rows /\ row.present
      BY <1>2, <2>2 DEF Plugins!Rows
    <2> QED
      BY <1>1, <2>1, <2>2 DEF Plugins!Init
  <1>4. LocalTypes
    BY <1>1 DEF Plugins!Init, LocalTypes, Plugins!Steps, Plugins!Kinds, Plugins!Rows, Plugins!NoRow
  <1>5. /\ file \in PluginVersions \cup {Plugins!None}
        /\ loaded = Plugins!None /\ with = [i \in Plugins!Instances |-> 0] /\ open = {}
        /\ stop = "no" /\ started = FALSE /\ requests = 0 /\ excused = FALSE /\ abandoned = {}
        /\ \A o \in PluginOps : pc[o] = "idle"
    BY <1>1 DEF Plugins!Init
  <1>6. Plugins!TypeOK
    <2>1. /\ with \in [Plugins!Instances -> Settings \cup {0}]
          /\ requests \in 0 .. MaxPluginRequests
      BY <1>5
    <2>2. /\ stop \in {"no", "begun", "done"} /\ started \in BOOLEAN /\ excused \in BOOLEAN
          /\ loaded \in open \cup {Plugins!None} /\ open \subseteq Plugins!Instances
          /\ abandoned \subseteq open
      BY <1>5
    <2> QED
      BY <1>3, <1>4, <1>5, <2>1, <2>2 DEF Plugins!TypeOK, LocalTypes
  <1>7. PluginTypes
    BY <1>3, <1>5, <1>6 DEF PluginTypes
  <1>8. Owned /\ Stopped /\ Alone /\ Calm
    BY <1>5 DEF Owned, HasInstance, Stopped, Alone, Calm
  <1> QED
    BY <1>7, <1>8 DEF PluginInv

LEMMA PluginInvGives == PluginInv => Plugins!LoadedAsStored /\ Plugins!NoneAfterStop
  <1> SUFFICES ASSUME PluginInv
               PROVE  Plugins!LoadedAsStored /\ Plugins!NoneAfterStop
    OBVIOUS
  <1>1. Plugins!LoadedAsStored
    BY DEF PluginInv, Calm, Agrees, NotLoaded, Plugins!LoadedAsStored
  <1>2. ASSUME stop = "done", NEW j \in open, j \notin abandoned
        PROVE  j \in {inst[o] : o \in {p \in PluginOps : pc[p] = "close"}}
    <2>1. loaded = Plugins!None /\ \A o \in PluginOps : pc[o] # "compile"
      BY <1>2 DEF PluginInv, Stopped
    <2>2. j # loaded
      BY <1>2, <2>1, PluginFacts DEF PluginInv, PluginTypes, Plugins!TypeOK
    <2>3. PICK o \in PluginOps : HasInstance(o) /\ inst[o] = j
      BY <1>2, <2>2 DEF PluginInv, Owned
    <2> QED
      BY <2>1, <2>3 DEF HasInstance
  <1>3. Plugins!NoneAfterStop
    BY <1>2 DEF PluginInv, Stopped, Plugins!NoneAfterStop
  <1> QED
    BY <1>1, <1>3

LEMMA PluginsHold == Spec => [](component = "plugins" => PluginInv)
  <1> DEFINE Inv == component = "plugins" => PluginInv
  <1>1. Init => Inv
    BY InitPlugins
  <1>2. Inv /\ [Next]_vars => Inv'
    <2> SUFFICES ASSUME Inv, [Next]_vars, component' = "plugins"
                 PROVE  PluginInv'
      OBVIOUS
    <2>1. component = "plugins" /\ PluginInv
      BY DEF Next, vars
    <2>2. CASE Next
      <3>1. Plugins!Next
        BY <2>1, <2>2 DEF Next
      <3> QED
        BY <2>1, <3>1, PluginStep
    <2>3. CASE UNCHANGED vars
      <3>1. UNCHANGED pluginVars
        BY <2>3 DEF vars, plugin
      <3>2. PluginTypes'
        BY <2>1, <3>1 DEF pluginVars, PluginInv, PluginTypes, Plugins!TypeOK
      <3>3. Owned' /\ Stopped' /\ Alone'
        BY <2>1, <3>1 DEF pluginVars, PluginInv, Owned, HasInstance, Stopped, Alone
      <3>4. Calm'
        <4>1. \A o \in PluginOps : Progress(o)' = Progress(o)
          BY <3>1 DEF pluginVars, Progress, SyncAgrees, LoadFits, NotLoaded, Agrees
        <4> QED
          BY <2>1, <3>1, <4>1
             DEF pluginVars, PluginInv, Calm, Agrees, NotLoaded, Plugins!AtRest
      <3> QED
        BY <3>2, <3>3, <3>4 DEF PluginInv
    <2> QED
      BY <2>2, <2>3
  <1> QED
    BY <1>1, <1>2, PTL DEF Spec

\* Between operations that do not overlap the plugin is loaded just when its row is enabled, and
\* with the row's settings, whatever the requests, the folder, the loads and the writes do; and once
\* Stop has returned no plugin is or becomes loaded, whatever is still under way
\* (plugins/manager_loader.go, manager_sync.go, manager.go Stop).
THEOREM LoadedAsStoredHolds == Spec => []LoadedAsStored
  <1> DEFINE Inv == component = "plugins" => PluginInv
  <1>1. Inv => LoadedAsStored
    BY PluginInvGives DEF LoadedAsStored
  <1> QED
    BY <1>1, PluginsHold, PTL
=============================================================================
