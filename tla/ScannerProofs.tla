---------------------------- MODULE ScannerProofs ----------------------------
(***************************************************************************)
(* What is proved of the scanner, for every value of the constants.        *)
(*   - LibraryScan: the types; that no folder is taken for up to date      *)
(*     whose file was not imported as it is; and what a completed scan     *)
(*     has done with the folders it was asked for.                         *)
(*   - Audiobooks: that books, chapters and progress belong together.      *)
(*   - MissingTracks: that a file has one row, that what users know and    *)
(*     have attached stays, and that moves within a library are found.     *)
(***************************************************************************)
EXTENDS Scanner, Sequences, FiniteSetTheorems, FunctionTheorems, WellFoundedInduction, TLAPS

-----------------------------------------------------------------------------
(* A scan: the inductive invariant *)

Active == {"loaded", "queued", "parsed", "ready"}

\* A version is not newer than the file: nothing is known of a change yet to come.
Bounded(f) ==
    /\ 1 <= mtime[f] /\ mtime[f] <= edits + 1
    /\ tags[f] <= at[f] /\ at[f] <= mtime[f]
    /\ hash[f][1] <= mtime[f] /\ hash[f][2] <= mtime[f]

\* What the entry of a folder holds: tags read since it was loaded; and none only when the
\* reading failed, or the row has those of a file that was not older.
EntryTrue(f) ==
    /\ phase # "walk" => stage[f] \in {"out", "done"}
    /\ stage[f] \notin {"parsed", "ready"} => newTags[f] = 0
    /\ stage[f] = "parsed" => newTags[f] # 0
    /\ stage[f] \in Active => 1 <= mod[f] /\ mod[f] <= mtime[f]
    /\ newTags[f] # 0 => /\ mod[f] <= newTags[f]
                         /\ newTags[f] <= newAt[f] /\ newAt[f] <= mtime[f]
    /\ stage[f] = "ready" /\ newTags[f] = 0 /\ f \notin skipped =>
         ~full /\ f \notin lost /\ mod[f] <= at[f]

\* The property, of folders that are away as well: they may come back as they were.
HashTrue(f) == UpToDate(f) => Imported(f) \/ Misread(f)

FoldersTrue == \A f \in Folders : Bounded(f) /\ EntryTrue(f) /\ HashTrue(f)

\* Where a scan stands with the folders it was asked for.
Asked ==
    /\ phase = "walk" => \A f \in targets : stage[f] # "out" \/ f \in unread
    /\ phase = "walk" => \A f \in Folders : stage[f] = "todo" /\ f \in Known => f \in last
    /\ phase \in {"walk", "failed", "post"} => started

\* A scan that no change has disturbed: what it has done with is up to date, or away and
\* about to be marked as missing.
QuietFolder(f) ==
    /\ stage[f] \in Active => there[f] /\ mod[f] = mtime[f] /\ f \notin last
    /\ stage[f] = "done" /\ there[f] => UpToDate(f) /\ f \notin last
    /\ stage[f] = "done" /\ ~there[f] /\ f \in Known => f \in last

QuietTrue ==
    /\ phase = "walk" /\ quiet => \A f \in targets \ unread : QuietFolder(f)
    /\ phase = "post" /\ quiet =>
         \A f \in targets \ unread : IF there[f] THEN UpToDate(f) ELSE f \notin Known

\* A library whose scan is a full one: a row written since it was stamped is of a file that
\* was read, or could not be, or is missing; and what this scan has done with as well.
Covered(f) == f \in read \cup skipped \/ f \notin Known

FullTrue ==
    /\ phase \in {"walk", "post"} /\ full /\ ~mixed => fullSaved
    /\ phase = "walk" /\ fullSaved => full
    /\ started /\ fullSaved => \A f \in fresh : Covered(f)
    /\ phase = "walk" /\ fullSaved =>
         \A f \in targets \ unread : stage[f] = "done" => Covered(f) \/ f \in last
    /\ phase = "post" /\ fullSaved => \A f \in targets \ unread : Covered(f)

IInv == TypeOK /\ FoldersTrue /\ Asked /\ QuietTrue /\ FullTrue

-----------------------------------------------------------------------------
(* A scan: types *)

LEMMA InitTypes ==
  ASSUME ScanAssumption, Init
  PROVE  TypeOK
  <1>1. 0 \in Versions /\ 1 \in Versions
    BY DEF ScanAssumption, Versions
  <1>2. NoHash \in Versions \X Versions /\ <<1, 1>> \in Versions \X Versions
    BY <1>1 DEF NoHash
  <1>3. hash \in [Folders -> Versions \X Versions]
    BY <1>2 DEF Init
  <1>4. tags \in [Folders -> Versions] /\ at \in [Folders -> Versions]
    BY <1>1 DEF Init
  <1>5. /\ mtime \in [Folders -> Versions] /\ mod \in [Folders -> Versions]
        /\ newTags \in [Folders -> Versions] /\ newAt \in [Folders -> Versions]
    BY <1>1 DEF Init
  <1>6. there \in [Folders -> BOOLEAN] /\ stage \in [Folders -> Stages]
    BY DEF Init, Stages
  <1>7. edits \in 0..MaxEdits /\ faults \in 0..MaxFaults
    BY DEF Init, ScanAssumption
  <1> QED
    BY <1>3, <1>4, <1>5, <1>6, <1>7 DEF Init, TypeOK, Boots, Phases

\* What a change of the files, an entry that is forgotten and a fault leave typed.
LEMMA ChangeTypes ==
  ASSUME ScanAssumption, TypeOK, Change
  PROVE  edits' \in 0..MaxEdits /\ edits' + 1 \in Versions
  BY DEF ScanAssumption, TypeOK, Change, Versions

LEMMA ForgetTypes ==
  ASSUME ScanAssumption, TypeOK, NEW done, Forget(done)
  PROVE  /\ mod' \in [Folders -> Versions] /\ newTags' \in [Folders -> Versions]
         /\ newAt' \in [Folders -> Versions]
  <1>1. 0 \in Versions
    BY DEF ScanAssumption, Versions
  <1> QED
    BY <1>1 DEF TypeOK, Forget

LEMMA FaultTypes ==
  ASSUME ScanAssumption, TypeOK, Fault
  PROVE  faults' \in 0..MaxFaults
  BY DEF ScanAssumption, TypeOK, Fault

LEMMA ResetTypes ==
  ASSUME ScanAssumption, TypeOK, Reset
  PROVE  /\ phase' \in Phases /\ full' \in BOOLEAN /\ targets' \subseteq Folders
         /\ last' \subseteq Folders /\ stage' \in [Folders -> Stages]
         /\ mod' \in [Folders -> Versions] /\ newTags' \in [Folders -> Versions]
         /\ newAt' \in [Folders -> Versions] /\ unread' \subseteq Folders /\ quiet' \in BOOLEAN
  <1>1. Forget(Folders)
    BY DEF Reset
  <1> QED
    BY <1>1, ForgetTypes DEF Reset, Phases, Stages

LEMMA HashTypes ==
  ASSUME ScanAssumption, TypeOK, NEW f \in Folders
  PROVE  Hash(f) \in Versions \X Versions
  BY DEF ScanAssumption, TypeOK, Hash, Versions

LEMMA NextTypes ==
  ASSUME ScanAssumption, TypeOK, Next
  PROVE  TypeOK'
  <1> USE DEF TypeOK
  <1>0. 0 \in Versions
    BY DEF ScanAssumption, Versions
  <1>1. CASE Prepare
    <2>1. /\ last' \subseteq Folders /\ stage' \in [Folders -> Stages] /\ unread' \subseteq Folders
          /\ faults' \in 0..MaxFaults
      BY <1>1, FaultTypes DEF Prepare, NewScanJob, Known, Stages
    <2> QED
      BY <1>1, <2>1 DEF Prepare, Whole, Phases, files, rows, library
  <1>2. CASE PrepareFails
    BY <1>2, ResetTypes, FaultTypes DEF PrepareFails, files, rows, library, kept
  <1>3. ASSUME NEW f \in Folders, Load(f)
        PROVE  TypeOK'
    <2>1. stage' = [stage EXCEPT ![f] = IF there[f] THEN "loaded" ELSE "done"]
      BY <1>3 DEF Load
    <2>2. stage' \in [Folders -> Stages]
      BY <2>1 DEF Stages
    <2>3. mod' \in [Folders -> Versions]
      BY <1>3 DEF Load
    <2> QED
      BY <1>3, <2>2, <2>3 DEF Load, files, rows, library, history, kept
  <1>4. ASSUME NEW f \in Folders, Check(f)
        PROVE  TypeOK'
    <2>1. PICK done : Forget(done)
      BY <1>4 DEF Check
    <2> HIDE DEF TypeOK
    <2>2. /\ mod' \in [Folders -> Versions] /\ newTags' \in [Folders -> Versions]
          /\ newAt' \in [Folders -> Versions]
      BY <2>1, ForgetTypes
    <2>3. stage' \in [Folders -> Stages]
      BY <1>4 DEF Check, TypeOK, Stages
    <2> QED
      BY <1>4, <2>2, <2>3 DEF TypeOK, Check, files, rows, library, history, kept
  <1>5. ASSUME NEW f \in Folders, Parse(f)
        PROVE  TypeOK'
    <2>1. stage' = [stage EXCEPT ![f] = IF NeedsImport(f) THEN "parsed" ELSE "ready"]
      BY <1>5 DEF Parse
    <2>2. stage' \in [Folders -> Stages]
      BY <2>1 DEF Stages
    <2>3. newTags' \in [Folders -> Versions] /\ newAt' \in [Folders -> Versions]
      BY <1>5 DEF Parse
    <2> QED
      BY <1>5, <2>2, <2>3 DEF Parse, files, rows, library, history, kept
  <1>6. ASSUME NEW f \in Folders, Stat(f)
        PROVE  TypeOK'
    BY <1>6 DEF Stat, Stages, files, rows, library, history, kept
  <1>7. ASSUME NEW f \in Folders, ReadFails(f)
        PROVE  TypeOK'
    <2>1. faults' \in 0..MaxFaults
      BY <1>7, FaultTypes DEF ReadFails
    <2> QED
      BY <1>0, <1>7, <2>1 DEF ReadFails, Stages, files, rows, library
  <1>8. ASSUME NEW f \in Folders, Persist(f)
        PROVE  TypeOK'
    <2>1. hash' \in [Folders -> Versions \X Versions]
      BY <1>8, HashTypes DEF Persist
    <2>2. tags' \in [Folders -> Versions] /\ at' \in [Folders -> Versions]
      BY <1>8 DEF Persist
    <2>3. /\ mod' \in [Folders -> Versions] /\ newTags' \in [Folders -> Versions]
          /\ newAt' \in [Folders -> Versions]
      BY <1>8, ForgetTypes DEF Persist
    <2>4. stage' \in [Folders -> Stages]
      BY <1>8 DEF Persist, Stages
    <2>5. /\ gone' \subseteq Folders /\ lost' \subseteq Folders /\ fresh' \subseteq Folders
          /\ owed' \subseteq Folders /\ read' \subseteq Folders /\ skipped' \subseteq Folders
      BY <1>8 DEF Persist
    <2> QED
      BY <1>8, <2>1, <2>2, <2>3, <2>4, <2>5 DEF Persist, files
  <1>9. ASSUME NEW f \in Folders, Edit(f) \/ Vanish(f) \/ Return(f)
        PROVE  TypeOK'
    <2>1. Change
      BY <1>9 DEF Edit, Vanish, Return
    <2>2. edits' \in 0..MaxEdits /\ edits' + 1 \in Versions
      BY <2>1, ChangeTypes
    <2>3. mtime' \in [Folders -> Versions]
      BY <1>9, <2>2 DEF Edit, Vanish, Return
    <2>4. there' \in [Folders -> BOOLEAN]
      BY <1>9 DEF Edit, Vanish, Return
    <2>5. quiet' \in BOOLEAN
      <3> HIDE DEF TypeOK
      <3> QED
        BY <2>1 DEF Change
    <2> QED
      BY <2>1, <2>2, <2>3, <2>4, <2>5 DEF Change, rows, library, entries, kept
  <1>10. CASE PhaseFails
    <2>1. /\ mod' \in [Folders -> Versions] /\ newTags' \in [Folders -> Versions]
          /\ newAt' \in [Folders -> Versions]
      BY <1>10, ForgetTypes DEF PhaseFails
    <2> QED
      BY <1>10, <2>1, FaultTypes DEF PhaseFails, Phases, Stages, files, rows, library, history, kept
  <1>11. CASE Finalize
    BY <1>11 DEF Finalize, MarkMissing, Missing, Phases, files, entries, history, kept
  <1>12. CASE FinalizeFailed
    BY <1>12, ResetTypes DEF FinalizeFailed, MarkMissing, Missing, files, kept
  <1>13. CASE PostFails
    BY <1>13, ResetTypes, FaultTypes DEF PostFails, files, rows, library, kept
  <1>14. CASE End
    BY <1>14, ResetTypes DEF End, ClearFull, files, rows
  <1>15. ASSUME NEW whole \in BOOLEAN, NEW asked \in Targets, StartScan(whole, asked)
         PROVE  TypeOK'
    BY <1>15 DEF ScanAssumption, StartScan, Accept, Phases, files, rows, library, entries, history, kept
  <1>16. CASE Crash
    BY <1>16, ResetTypes, FaultTypes DEF Crash, Boots, files, rows, library, kept
  <1>17. CASE BootRead
    BY <1>17 DEF BootRead, Boots, files, rows, library, entries, history, kept
  <1>18. CASE BootDelete
    BY <1>18 DEF BootDelete, Boots, files, rows, library, entries, history, kept
  <1>19. CASE BootScan
    BY <1>19 DEF BootScan, Accept, Boots, Phases, files, rows, library, entries, history, kept
  <1>20. ASSUME NEW f \in Folders, Skip(f)
         PROVE  TypeOK'
    <2>1. /\ mod' \in [Folders -> Versions] /\ newTags' \in [Folders -> Versions]
          /\ newAt' \in [Folders -> Versions]
      BY <1>20, ForgetTypes DEF Skip
    <2>2. stage' \in [Folders -> Stages] /\ unread' \subseteq Folders
      BY <1>20 DEF Skip, Stages
    <2>3. faults' \in 0..MaxFaults
      BY <1>20, FaultTypes DEF Skip
    <2> QED
      BY <1>20, <2>1, <2>2, <2>3 DEF Skip, files, rows, library, history, kept
  <1> QED
    BY <1>1, <1>2, <1>3, <1>4, <1>5, <1>6, <1>7, <1>8, <1>9, <1>10, <1>11, <1>12, <1>13, <1>14,
       <1>15, <1>16, <1>17, <1>18, <1>19, <1>20 DEF Next

LEMMA StutterTypes ==
  ASSUME TypeOK, UNCHANGED vars
  PROVE  TypeOK'
  BY DEF TypeOK, vars, files, rows, library, entries, history, kept

\* The variables of a scan keep their types, and only a scan in progress is a full one:
\* nothing the folder pipeline computes leaves what the columns can hold.
THEOREM TypeCorrect == ASSUME ScanAssumption PROVE Spec => []TypeOK
  <1>1. Init => TypeOK
    BY InitTypes
  <1>2. TypeOK /\ [Next]_vars => TypeOK'
    BY NextTypes, StutterTypes
  <1> QED
    BY <1>1, <1>2, PTL DEF Spec

-----------------------------------------------------------------------------
(* No folder is taken for up to date that was not imported *)

\* What the steps below need of the types of one folder.
LEMMA FolderTypes ==
  ASSUME ScanAssumption, TypeOK, NEW g \in Folders
  PROVE  /\ mtime[g] \in Nat /\ tags[g] \in Nat /\ at[g] \in Nat /\ edits \in Nat
         /\ mod[g] \in Nat /\ newTags[g] \in Nat /\ newAt[g] \in Nat /\ stage[g] \in Stages
         /\ hash[g] \in Nat \X Nat
  BY DEF ScanAssumption, TypeOK, Versions

\* An action that leaves a folder alone leaves it true.
LEMMA RestIsTrue ==
  ASSUME NEW g \in Folders, Bounded(g), EntryTrue(g), HashTrue(g),
         edits \in Nat, mtime[g] \in Nat, edits' \in Nat, edits <= edits',
         mtime'[g] = mtime[g], tags'[g] = tags[g], at'[g] = at[g], hash'[g] = hash[g],
         mod'[g] = mod[g], newTags'[g] = newTags[g], newAt'[g] = newAt[g], stage'[g] = stage[g],
         g \in Known' => g \in Known, g \in Known' /\ g \in lost' => g \in lost,
         stage[g] = "ready" /\ g \in lost' => g \in lost,
         g \in skipped => g \in skipped', 
         phase' = phase \/ stage[g] \in {"out", "done"}, 
         full' = full \/ stage[g] \in {"out", "done"}
  PROVE  Bounded(g)' /\ EntryTrue(g)' /\ HashTrue(g)'
  <1>1. Bounded(g)'
    BY DEF Bounded
  <1>2. EntryTrue(g)'
    BY DEF EntryTrue, Active
  <1>3. HashTrue(g)'
    BY DEF HashTrue, UpToDate, Imported, Misread
  <1> QED
    BY <1>1, <1>2, <1>3

\* An entry that is forgotten says nothing.
LEMMA ForgottenIsTrue ==
  ASSUME NEW g \in Folders, stage'[g] \in {"out", "done"}, newTags'[g] = 0
  PROVE  EntryTrue(g)'
  BY DEF EntryTrue, Active

LEMMA InitFoldersTrue ==
  ASSUME ScanAssumption, Init
  PROVE  FoldersTrue
  <1> SUFFICES ASSUME NEW g \in Folders
               PROVE  Bounded(g) /\ EntryTrue(g) /\ HashTrue(g)
    BY DEF FoldersTrue
  <1>1. /\ mtime[g] = 1 /\ edits = 0 /\ stage[g] = "out" /\ newTags[g] = 0 /\ lost = {}
        /\ tags[g] = IF flag THEN 1 ELSE 0
        /\ at[g] = tags[g]
        /\ hash[g] = IF flag THEN <<1, 1>> ELSE <<0, 0>>
    BY DEF Init, NoHash
  <1>2. hash[g][1] \in {0, 1} /\ hash[g][2] \in {0, 1}
    BY <1>1
  <1>3. Bounded(g)
    BY <1>1, <1>2 DEF Bounded
  <1>4. EntryTrue(g)
    BY <1>1 DEF EntryTrue, Active
  <1>5. HashTrue(g)
    <2>1. CASE flag
      BY <2>1, <1>1 DEF HashTrue, Imported
    <2>2. CASE ~flag
      BY <2>2, <1>1 DEF HashTrue, UpToDate
    <2> QED
      BY <2>1, <2>2
  <1> QED
    BY <1>3, <1>4, <1>5

LEMMA NextFoldersTrue ==
  ASSUME ScanAssumption, TypeOK, FoldersTrue, Next
  PROVE  FoldersTrue'
  <1> SUFFICES ASSUME NEW g \in Folders
               PROVE  Bounded(g)' /\ EntryTrue(g)' /\ HashTrue(g)'
    BY DEF FoldersTrue
  <1>0. /\ Bounded(g) /\ EntryTrue(g) /\ HashTrue(g)
        /\ mtime[g] \in Nat /\ tags[g] \in Nat /\ at[g] \in Nat /\ edits \in Nat
        /\ mod[g] \in Nat /\ newTags[g] \in Nat /\ newAt[g] \in Nat /\ stage[g] \in Stages
        /\ hash[g] \in Nat \X Nat
    BY FolderTypes DEF FoldersTrue
  <1>a. ASSUME UNCHANGED <<files, rows, skipped>>, stage'[g] \in {"out", "done"}, newTags'[g] = 0
        PROVE  Bounded(g)' /\ EntryTrue(g)' /\ HashTrue(g)'
    BY <1>0, <1>a, ForgottenIsTrue
       DEF files, rows, Bounded, HashTrue, UpToDate, Imported, Misread, Known
  <1>b. ASSUME UNCHANGED <<files, rows, skipped>>, Reset
        PROVE  Bounded(g)' /\ EntryTrue(g)' /\ HashTrue(g)'
    <2>1. stage'[g] \in {"out", "done"} /\ newTags'[g] = 0
      BY <1>b DEF Reset, Forget
    <2> QED
      BY <1>a, <1>b, <2>1
  <1>c. ASSUME UNCHANGED <<files, rows, entries, skipped>>,
               (phase' = phase /\ full' = full) \/ phase = "idle"
        PROVE  Bounded(g)' /\ EntryTrue(g)' /\ HashTrue(g)'
    <2>1. phase = "idle" => stage[g] \in {"out", "done"}
      BY <1>0 DEF EntryTrue
    <2> QED
      BY <1>0, <1>c, <2>1, RestIsTrue DEF files, rows, entries, Known
  <1>1. CASE Prepare
    <2>1. stage[g] \in {"out", "done"}
      BY <1>0, <1>1 DEF Prepare, EntryTrue
    <2>2. newTags'[g] = 0
      BY <1>0, <1>1, <2>1 DEF Prepare, EntryTrue
    <2>3. stage'[g] \in {"todo", "out"}
      BY <1>1 DEF Prepare, NewScanJob
    <2>4. EntryTrue(g)'
      BY <2>2, <2>3, <1>1 DEF Prepare, EntryTrue, Active
    <2> QED
      BY <1>0, <1>1, <2>4
         DEF Prepare, files, rows, Bounded, HashTrue, UpToDate, Imported, Misread, Known
  <1>2. CASE PrepareFails
    BY <1>2, <1>b DEF PrepareFails, kept
  <1>3. ASSUME NEW f \in Folders, Load(f)
        PROVE  Bounded(g)' /\ EntryTrue(g)' /\ HashTrue(g)'
    <2>1. CASE g # f
      <3>1. mod'[g] = mod[g] /\ stage'[g] = stage[g]
        BY <1>3, <2>1 DEF Load, TypeOK
      <3> QED
        BY <1>0, <1>3, <3>1, RestIsTrue DEF Load, files, rows, history, kept, Known
    <2>2. CASE g = f
      <3>1. newTags'[g] = 0
        BY <1>0, <1>3, <2>2 DEF Load, EntryTrue
      <3>2. stage'[g] = IF there[g] THEN "loaded" ELSE "done"
        BY <1>3, <2>2 DEF Load, TypeOK
      <3>3. there[g] => mod'[g] = mtime[g]
        BY <1>3, <2>2 DEF Load, TypeOK
      <3>4. EntryTrue(g)'
        BY <1>0, <1>3, <3>1, <3>2, <3>3 DEF Load, EntryTrue, Active, files, Bounded
      <3> QED
        BY <1>0, <1>3, <3>4
           DEF Load, files, rows, history, kept, Bounded, HashTrue, UpToDate, Imported, Misread, Known
    <2> QED
      BY <2>1, <2>2
  <1>4. ASSUME NEW f \in Folders, Check(f)
        PROVE  Bounded(g)' /\ EntryTrue(g)' /\ HashTrue(g)'
    <2>1. CASE g # f
      <3>1. mod'[g] = mod[g] /\ newTags'[g] = newTags[g] /\ newAt'[g] = newAt[g]
        BY <1>4, <2>1 DEF Check, Forget
      <3>2. stage'[g] = stage[g]
        BY <1>4, <2>1 DEF Check, TypeOK
      <3> QED
        BY <1>0, <1>4, <3>1, <3>2, RestIsTrue DEF Check, files, rows, history, kept, Known
    <2>2. CASE g = f /\ Outdated(f)
      <3>1. mod'[g] = mod[g] /\ newTags'[g] = newTags[g]
        BY <1>4, <2>2 DEF Check, Forget
      <3>2. stage'[g] = "queued" /\ stage[g] = "loaded"
        BY <1>4, <2>2 DEF Check, TypeOK
      <3>3. EntryTrue(g)'
        BY <1>0, <1>4, <3>1, <3>2 DEF Check, EntryTrue, Active, files
      <3> QED
        BY <1>0, <1>4, <3>3
           DEF Check, files, rows, history, kept, Bounded, HashTrue, UpToDate, Imported, Misread, Known
    <2>3. CASE g = f /\ ~Outdated(f)
      <3>1. newTags'[g] = 0
        BY <1>4, <2>3 DEF Check, Forget
      <3>2. stage'[g] = "done"
        BY <1>4, <2>3 DEF Check, TypeOK
      <3> QED
        BY <1>4, <1>a, <3>1, <3>2 DEF Check, history, kept
    <2> QED
      BY <2>1, <2>2, <2>3
  <1>5. ASSUME NEW f \in Folders, Parse(f)
        PROVE  Bounded(g)' /\ EntryTrue(g)' /\ HashTrue(g)'
    <2>1. CASE g # f
      <3>1. newTags'[g] = newTags[g] /\ newAt'[g] = newAt[g] /\ stage'[g] = stage[g]
        BY <1>5, <2>1 DEF Parse, TypeOK
      <3> QED
        BY <1>0, <1>5, <3>1, RestIsTrue DEF Parse, files, rows, history, kept, Known
    <2>2. CASE g = f
      <3>1. CASE NeedsImport(f)
        <4>1. newTags'[g] = mtime[g] /\ newAt'[g] = mtime[g] /\ stage'[g] = "parsed"
          BY <1>5, <2>2, <3>1 DEF Parse, TypeOK
        <4>2. EntryTrue(g)'
          BY <1>0, <1>5, <2>2, <4>1 DEF Parse, EntryTrue, Active, files, Bounded
        <4> QED
          BY <1>0, <1>5, <4>2
             DEF Parse, files, rows, history, kept, Bounded, HashTrue, UpToDate, Imported, Misread, Known
      <3>2. CASE ~NeedsImport(f)
        <4>1. newTags'[g] = 0 /\ newAt'[g] = newAt[g] /\ stage'[g] = "ready"
          BY <1>0, <1>5, <2>2, <3>2 DEF Parse, TypeOK, EntryTrue
        <4>2. EntryTrue(g)'
          BY <1>0, <1>5, <2>2, <3>2, <4>1
             DEF Parse, EntryTrue, Active, files, rows, Bounded, NeedsImport
        <4> QED
          BY <1>0, <1>5, <4>2
             DEF Parse, files, rows, history, kept, Bounded, HashTrue, UpToDate, Imported, Misread, Known
      <3> QED
        BY <3>1, <3>2
    <2> QED
      BY <2>1, <2>2
  <1>6. ASSUME NEW f \in Folders, Stat(f)
        PROVE  Bounded(g)' /\ EntryTrue(g)' /\ HashTrue(g)'
    <2>1. CASE g # f
      <3>1. newAt'[g] = newAt[g] /\ stage'[g] = stage[g]
        BY <1>6, <2>1 DEF Stat, TypeOK
      <3> QED
        BY <1>0, <1>6, <3>1, RestIsTrue DEF Stat, files, rows, history, kept, Known
    <2>2. CASE g = f
      <3>1. newAt'[g] = mtime[g] /\ stage'[g] = "ready" /\ stage[g] = "parsed"
        BY <1>6, <2>2 DEF Stat, TypeOK
      <3>2. EntryTrue(g)'
        BY <1>0, <1>6, <3>1 DEF Stat, EntryTrue, Active, files
      <3> QED
        BY <1>0, <1>6, <3>2
           DEF Stat, files, rows, history, kept, Bounded, HashTrue, UpToDate, Imported, Misread, Known
    <2> QED
      BY <2>1, <2>2
  <1>7. ASSUME NEW f \in Folders, ReadFails(f)
        PROVE  Bounded(g)' /\ EntryTrue(g)' /\ HashTrue(g)'
    <2>1. CASE g # f
      <3>1. newTags'[g] = newTags[g] /\ newAt'[g] = newAt[g] /\ stage'[g] = stage[g]
        BY <1>7, <2>1 DEF ReadFails, TypeOK
      <3> QED
        BY <1>0, <1>7, <3>1, RestIsTrue DEF ReadFails, files, rows, Known
    <2>2. CASE g = f
      <3>1. /\ newTags'[g] = 0 /\ stage'[g] = "ready" /\ g \in skipped'
            /\ stage[g] \in {"queued", "parsed"}
        BY <1>7, <2>2 DEF ReadFails, TypeOK
      <3>2. EntryTrue(g)'
        BY <1>0, <1>7, <3>1 DEF ReadFails, EntryTrue, Active, files
      <3>3. HashTrue(g)'
        BY <3>1 DEF HashTrue, Misread
      <3> QED
        BY <1>0, <1>7, <3>2, <3>3 DEF ReadFails, files, rows, Bounded
    <2> QED
      BY <2>1, <2>2
  <1>8. ASSUME NEW f \in Folders, Persist(f)
        PROVE  Bounded(g)' /\ EntryTrue(g)' /\ HashTrue(g)'
    <2>1. CASE g # f
      <3>1. /\ mod'[g] = mod[g] /\ newTags'[g] = newTags[g] /\ newAt'[g] = newAt[g]
            /\ stage'[g] = stage[g]
        BY <1>8, <2>1 DEF Persist, Forget, TypeOK
      <3>2. tags'[g] = tags[g] /\ at'[g] = at[g] /\ hash'[g] = hash[g]
        BY <1>8, <2>1 DEF Persist, TypeOK
      <3>3. g \in lost' => g \in lost
        BY <1>8 DEF Persist
      <3>4. g \in skipped => g \in skipped'
        BY <1>8, <2>1 DEF Persist
      <3>5. g \in Known' => g \in Known
        BY <1>8, <2>1, <3>2 DEF Persist, Known
      <3> QED
        BY <1>0, <1>8, <3>1, <3>2, <3>3, <3>4, <3>5, RestIsTrue DEF Persist, files
    <2>2. CASE g = f
      <3>1. newTags'[g] = 0 /\ stage'[g] = "done" /\ stage[g] = "ready" /\ phase = "walk"
        BY <1>8, <2>2 DEF Persist, Forget, TypeOK
      <3>2. EntryTrue(g)'
        BY <3>1, ForgottenIsTrue
      <3>3. hash'[g] = <<mod[g], IF there[g] THEN mtime[g] ELSE 0>>
        BY <1>8, <2>2 DEF Persist, TypeOK, Hash
      <3>4. mtime'[g] = mtime[g] /\ edits' = edits
        BY <1>8 DEF Persist, files
      <3>5. 1 <= mod[g] /\ mod[g] <= mtime[g]
        BY <1>0, <3>1 DEF EntryTrue, Active
      <3>6. hash'[g][1] <= mtime'[g] /\ hash'[g][2] <= mtime'[g]
        BY <1>0, <3>3, <3>4, <3>5
      <3>7. UpToDate(g)' => mod[g] = mtime[g]
        BY <3>3, <3>4 DEF UpToDate
      <3>8. CASE newTags[g] # 0
        <4>1. tags'[g] = newTags[g] /\ at'[g] = newAt[g] /\ g \notin lost'
          BY <1>8, <2>2, <3>8 DEF Persist, TypeOK
        <4>2. mod[g] <= newTags[g] /\ newTags[g] <= newAt[g] /\ newAt[g] <= mtime[g]
          BY <1>0, <3>8 DEF EntryTrue
        <4>3. Bounded(g)'
          BY <1>0, <3>4, <3>6, <4>1, <4>2 DEF Bounded
        <4>4. HashTrue(g)'
          BY <1>0, <3>4, <3>7, <4>1, <4>2 DEF HashTrue, Imported
        <4> QED
          BY <3>2, <4>3, <4>4
      <3>9. CASE newTags[g] = 0
        <4>1. tags'[g] = tags[g] /\ at'[g] = at[g] /\ lost' = lost /\ skipped' = skipped
          BY <1>8, <2>2, <3>9 DEF Persist
        <4>2. Bounded(g)'
          BY <1>0, <3>4, <3>6, <4>1 DEF Bounded
        <4>3. g \notin skipped => g \notin lost /\ mod[g] <= at[g]
          BY <1>0, <3>1, <3>9 DEF EntryTrue
        <4>4. tags[g] <= at[g] /\ at[g] <= mtime[g]
          BY <1>0 DEF Bounded
        <4>5. HashTrue(g)'
          BY <1>0, <3>4, <3>7, <4>1, <4>3, <4>4 DEF HashTrue, Imported, Misread
        <4> QED
          BY <3>2, <4>2, <4>5
      <3> QED
        BY <3>8, <3>9
    <2> QED
      BY <2>1, <2>2
  <1>9. ASSUME NEW f \in Folders, Edit(f) \/ Vanish(f) \/ Return(f)
        PROVE  Bounded(g)' /\ EntryTrue(g)' /\ HashTrue(g)'
    <2>1. Change
      BY <1>9 DEF Edit, Vanish, Return
    <2>2. edits' = edits + 1 /\ UNCHANGED <<rows, phase, full, entries, skipped>>
      BY <2>1 DEF Change, kept
    <2>3. CASE mtime'[g] = mtime[g]
      BY <1>0, <2>2, <2>3, RestIsTrue DEF rows, entries, Known
    <2>4. CASE mtime'[g] # mtime[g]
      <3>1. mtime'[g] = edits + 2
        BY <1>0, <1>9, <2>2, <2>4 DEF Edit, Vanish, Return, TypeOK
      <3>2. mtime[g] < mtime'[g]
        BY <1>0, <3>1 DEF Bounded
      <3>3. Bounded(g)'
        BY <1>0, <2>2, <3>1, <3>2 DEF rows, Bounded
      <3>4. EntryTrue(g)'
        BY <1>0, <2>2, <3>1, <3>2 DEF rows, entries, EntryTrue
      <3>5. ~UpToDate(g)'
        BY <1>0, <2>2, <3>1, <3>2 DEF rows, UpToDate, Bounded
      <3> QED
        BY <3>3, <3>4, <3>5 DEF HashTrue
    <2> QED
      BY <2>3, <2>4
  <1>10. CASE PhaseFails
    <2>1. newTags'[g] = 0 /\ stage'[g] = "out"
      BY <1>10 DEF PhaseFails, Forget
    <2> QED
      BY <1>10, <2>1, <1>a DEF PhaseFails, history, kept
  <1>m. ASSUME MarkMissing, UNCHANGED <<files, skipped>>
        PROVE  Bounded(g)' /\ HashTrue(g)'
    <2>1. UNCHANGED <<mtime, edits, hash, tags, at>>
      BY <1>m DEF MarkMissing, files
    <2>2. Bounded(g)'
      BY <1>0, <2>1 DEF Bounded
    <2>3. g \in Known' => g \in Known /\ g \notin Missing
      BY <1>m, <2>1 DEF MarkMissing, Known
    <2>4. g \in lost' => g \in lost \/ g \in Missing
      BY <1>m DEF MarkMissing
    <2>5. HashTrue(g)'
      BY <1>0, <1>m, <2>1, <2>3, <2>4 DEF HashTrue, UpToDate, Imported, Misread
    <2> QED
      BY <2>2, <2>5
  <1>11. CASE Finalize
    <2>1. stage'[g] = stage[g] /\ newTags'[g] = newTags[g] /\ stage[g] \in {"out", "done"}
      BY <1>11 DEF Finalize, Walked, entries
    <2>2. newTags[g] = 0
      BY <1>0, <2>1 DEF EntryTrue
    <2> QED
      BY <1>11, <1>m, <2>1, <2>2, ForgottenIsTrue DEF Finalize, history, kept
  <1>12. CASE FinalizeFailed
    <2>1. stage'[g] = "out" /\ newTags'[g] = 0
      BY <1>12 DEF FinalizeFailed, Reset, Forget
    <2> QED
      BY <1>12, <1>m, <2>1, ForgottenIsTrue DEF FinalizeFailed, kept
  <1>13. CASE PostFails
    BY <1>13, <1>b DEF PostFails, kept
  <1>14. CASE End
    BY <1>14, <1>b DEF End
  <1>15. ASSUME NEW whole \in BOOLEAN, NEW asked \in Targets, StartScan(whole, asked)
         PROVE  Bounded(g)' /\ EntryTrue(g)' /\ HashTrue(g)'
    <2>1. stage[g] \in {"out", "done"} /\ stage'[g] = stage[g] /\ newTags'[g] = newTags[g]
      BY <1>0, <1>15 DEF StartScan, Accept, EntryTrue, entries
    <2>2. newTags[g] = 0
      BY <1>0, <2>1 DEF EntryTrue
    <2> QED
      BY <1>15, <1>a, <2>1, <2>2 DEF StartScan, history, kept
  <1>16. CASE Crash
    BY <1>16, <1>b DEF Crash, kept
  <1>17. CASE BootRead
    BY <1>17, <1>c DEF BootRead, history, kept
  <1>18. CASE BootDelete
    BY <1>18, <1>c DEF BootDelete, history, kept
  <1>19. CASE BootScan
    <2>1. CASE phase = "idle"
      <3>1. stage[g] \in {"out", "done"} /\ stage'[g] = stage[g] /\ newTags'[g] = newTags[g]
        BY <1>0, <1>19, <2>1 DEF BootScan, EntryTrue, entries
      <3>2. newTags[g] = 0
        BY <1>0, <3>1 DEF EntryTrue
      <3> QED
        BY <1>19, <1>a, <3>1, <3>2 DEF BootScan, history, kept
    <2>2. CASE phase # "idle"
      BY <1>19, <2>2, <1>c DEF BootScan, history, kept
    <2> QED
      BY <2>1, <2>2
  <1>20. ASSUME NEW f \in Folders, Skip(f)
         PROVE  Bounded(g)' /\ EntryTrue(g)' /\ HashTrue(g)'
    <2>1. PICK below \in SUBSET {h \in Folders \ {f} : stage[h] = "todo"} :
            stage' = [h \in Folders |-> IF h = f \/ h \in below THEN "done" ELSE stage[h]]
      BY <1>20 DEF Skip
    <2>2. /\ mod'[g] = IF g = f THEN 0 ELSE mod[g]
          /\ newTags'[g] = IF g = f THEN 0 ELSE newTags[g]
          /\ newAt'[g] = IF g = f THEN 0 ELSE newAt[g]
      BY <1>20 DEF Skip, Forget
    <2>3. CASE g = f \/ g \in below
      <3>1. stage'[g] = "done"
        BY <2>1, <2>3
      <3>2. newTags'[g] = 0
        BY <1>0, <2>2, <2>3 DEF EntryTrue
      <3> QED
        BY <1>20, <1>a, <3>1, <3>2 DEF Skip, history, kept
    <2>4. CASE g # f /\ g \notin below
      <3>1. stage'[g] = stage[g]
        BY <2>1, <2>4
      <3> QED
        BY <1>0, <1>20, <2>2, <2>4, <3>1, RestIsTrue DEF Skip, files, rows, history, kept, Known
    <2> QED
      BY <2>3, <2>4
  <1> QED
    BY <1>1, <1>2, <1>3, <1>4, <1>5, <1>6, <1>7, <1>8, <1>9, <1>10, <1>11, <1>12, <1>13, <1>14,
       <1>15, <1>16, <1>17, <1>18, <1>19, <1>20 DEF Next

LEMMA StutterFoldersTrue ==
  ASSUME FoldersTrue, UNCHANGED vars
  PROVE  FoldersTrue'
  BY DEF FoldersTrue, Bounded, EntryTrue, Active, HashTrue, UpToDate, Imported, Misread, Known,
         vars, files, rows, entries, history, kept

\* What a quick scan will skip was imported as it is on disk, or misread: updateFolderHash
\* never stores a hash that vouches for a content nobody has read.
THEOREM UpToDateIsImportedHolds == ASSUME ScanAssumption PROVE Spec => []UpToDateIsImported
  <1>1. Init => FoldersTrue
    BY InitFoldersTrue
  <1>2. TypeOK /\ FoldersTrue /\ [Next]_vars => FoldersTrue'
    BY NextFoldersTrue, StutterFoldersTrue
  <1>3. FoldersTrue => UpToDateIsImported
    BY DEF FoldersTrue, HashTrue, UpToDateIsImported
  <1> QED
    BY <1>1, <1>2, <1>3, TypeCorrect, PTL DEF Spec

-----------------------------------------------------------------------------
(* What a completed scan has done *)

\* A scan that rests, or has not begun to walk, and the end of the process, promise nothing.
LEMMA IdleScan ==
  ASSUME phase' \in {"idle", "begin"}
  PROVE  Asked' /\ QuietTrue'
  BY DEF Asked, QuietTrue

LEMMA NextAsked ==
  ASSUME ScanAssumption, TypeOK, Asked, Next
  PROVE  Asked'
  <1> USE DEF TypeOK
  <1>1. CASE Prepare
    <2>1. started'
      BY <1>1 DEF Prepare, library
    <2>2. phase' = "walk" /\ targets' = targets /\ Known' = Known
      BY <1>1 DEF Prepare, rows, Known
    <2>3. \/ /\ last' = Known \cap targets
             /\ \A f \in Folders : stage'[f] = IF f \in targets THEN "todo" ELSE "out"
          \/ unread' = targets /\ \A f \in Folders : stage'[f] = "out"
      BY <1>1 DEF Prepare, NewScanJob
    <2> QED
      BY <2>1, <2>2, <2>3 DEF Asked
  <1>2. CASE PrepareFails \/ FinalizeFailed \/ PostFails \/ End \/ Crash
    BY <1>2, IdleScan DEF PrepareFails, FinalizeFailed, PostFails, End, Crash, Reset
  <1>3. ASSUME NEW f \in Folders, Load(f)
        PROVE  Asked'
    <2>1. stage' = [stage EXCEPT ![f] = IF there[f] THEN "loaded" ELSE "done"]
      BY <1>3 DEF Load
    <2>2. /\ last' = last \ {f} \/ last' = last
          /\ phase = "walk" /\ stage[f] = "todo"
          /\ UNCHANGED <<phase, targets, started, unread, Known>>
      BY <1>3 DEF Load, library, rows, Known
    <2> HIDE DEF TypeOK
    <2>3. stage \in [Folders -> Stages]
      BY DEF TypeOK
    <2> QED
      BY <2>1, <2>2, <2>3 DEF Asked
  <1>s. ASSUME NEW f \in Folders, NEW s \in {"queued", "parsed", "ready", "done"},
               stage' = [stage EXCEPT ![f] = s], stage[f] # "out", phase = "walk",
               UNCHANGED <<rows, phase, targets, started, last, unread>>
        PROVE  Asked'
    <2>1. Known' = Known
      BY <1>s DEF rows, Known
    <2>2. stage \in [Folders -> Stages]
      OBVIOUS
    <2> HIDE DEF TypeOK
    <2> QED
      BY <1>s, <2>1, <2>2 DEF Asked
  <1>4. ASSUME NEW f \in Folders, Check(f)
        PROVE  Asked'
    <2>1. PICK s \in {"queued", "done"} : stage' = [stage EXCEPT ![f] = s]
      BY <1>4 DEF Check
    <2> QED
      BY <1>4, <1>s, <2>1 DEF Check, library
  <1>5. ASSUME NEW f \in Folders, Parse(f)
        PROVE  Asked'
    <2>1. PICK s \in {"parsed", "ready"} : stage' = [stage EXCEPT ![f] = s]
      BY <1>5 DEF Parse
    <2> QED
      BY <1>5, <1>s, <2>1 DEF Parse, library
  <1>6. ASSUME NEW f \in Folders, Stat(f) \/ ReadFails(f)
        PROVE  Asked'
    BY <1>6, <1>s DEF Stat, ReadFails, library
  <1>7. ASSUME NEW f \in Folders, Persist(f)
        PROVE  Asked'
    <2>1. stage' = [stage EXCEPT ![f] = "done"] /\ phase = "walk" /\ stage[f] = "ready"
          /\ UNCHANGED <<phase, targets, started, last, unread>>
      BY <1>7 DEF Persist
    <2>2. \A g \in Folders : g # f /\ g \in Known' => g \in Known
      BY <1>7 DEF Persist, Known
    <2>3. stage \in [Folders -> Stages]
      OBVIOUS
    <2> HIDE DEF TypeOK
    <2> QED
      BY <2>1, <2>2, <2>3 DEF Asked
  <1>8. ASSUME NEW f \in Folders, Edit(f) \/ Vanish(f) \/ Return(f)
        PROVE  Asked'
    BY <1>8 DEF Edit, Vanish, Return, Change, rows, library, entries, Asked, Known
  <1>9. CASE PhaseFails
    BY <1>9 DEF PhaseFails, library, Asked
  <1>10. CASE Finalize
    BY <1>10 DEF Finalize, Walked, MarkMissing, Asked
  <1>11. ASSUME NEW whole \in BOOLEAN, NEW asked \in Targets, StartScan(whole, asked)
         PROVE  Asked'
    BY <1>11, IdleScan DEF StartScan, Accept
  <1>12. CASE BootRead \/ BootDelete
    BY <1>12 DEF BootRead, BootDelete, rows, library, entries, Asked, Known
  <1>13. CASE BootScan
    <2>1. CASE phase = "idle"
      BY <1>13, <2>1, IdleScan DEF BootScan, Accept
    <2>2. CASE phase # "idle"
      BY <1>13, <2>2 DEF BootScan, rows, library, entries, Asked, Known
    <2> QED
      BY <2>1, <2>2
  <1>14. ASSUME NEW f \in Folders, Skip(f)
         PROVE  Asked'
    <2>1. PICK below \in SUBSET {h \in Folders \ {f} : stage[h] = "todo"} :
            /\ stage' = [h \in Folders |-> IF h = f \/ h \in below THEN "done" ELSE stage[h]]
            /\ unread' = unread \cup {f} \cup below
      BY <1>14 DEF Skip
    <2>2. UNCHANGED <<phase, targets, started, last, Known>>
      BY <1>14 DEF Skip, library, rows, Known
    <2>3. targets \subseteq Folders
      OBVIOUS
    <2> HIDE DEF TypeOK
    <2> QED
      BY <2>1, <2>2, <2>3 DEF Asked
  <1> QED
    BY <1>1, <1>2, <1>3, <1>4, <1>5, <1>6, <1>7, <1>8, <1>9, <1>10, <1>11, <1>12, <1>13, <1>14
       DEF Next

LEMMA NextQuietTrue ==
  ASSUME ScanAssumption, TypeOK, FoldersTrue, Asked, QuietTrue, Next
  PROVE  QuietTrue'
  <1>0. /\ targets \subseteq Folders /\ stage \in [Folders -> Stages]
        /\ mod \in [Folders -> Versions] /\ hash \in [Folders -> Versions \X Versions]
    BY DEF TypeOK
  <1>1. CASE Prepare
    <2>1. \A f \in Folders : stage'[f] \in {"todo", "out"}
      BY <1>1 DEF Prepare, NewScanJob
    <2> QED
      BY <1>0, <1>1, <2>1 DEF Prepare, QuietTrue, QuietFolder, Active
  <1>2. CASE PrepareFails \/ FinalizeFailed \/ PostFails \/ End \/ Crash
    BY <1>2, IdleScan DEF PrepareFails, FinalizeFailed, PostFails, End, Crash, Reset
  \* a step of one folder in a quiet walk
  <1>a. ASSUME NEW f \in Folders, phase = "walk",
               UNCHANGED <<files, phase, targets, unread, quiet>>,
               \A g \in Folders : g # f => /\ stage'[g] = stage[g] /\ mod'[g] = mod[g]
                                           /\ hash'[g] = hash[g]
                                           /\ (g \in last' <=> g \in last)
                                           /\ (g \in gone' <=> g \in gone),
               quiet /\ f \in targets \ unread => QuietFolder(f)'
        PROVE  QuietTrue'
    <2>1. SUFFICES ASSUME quiet, NEW g \in targets \ unread, g # f
                   PROVE  QuietFolder(g)'
      BY <1>a DEF QuietTrue
    <2>2. QuietFolder(g)
      BY <1>a, <2>1 DEF QuietTrue
    <2>3. g \in Folders
      BY <1>0, <2>1
    <2>4. /\ stage'[g] = stage[g] /\ mod'[g] = mod[g] /\ hash'[g] = hash[g]
          /\ g \in last' <=> g \in last
      BY <1>a, <2>1, <2>3
    <2>5. g \in Known' <=> g \in Known
      BY <1>a, <2>1, <2>3, <2>4 DEF Known
    <2> QED
      BY <1>a, <2>2, <2>4, <2>5 DEF QuietFolder, UpToDate, files
  <1>3. ASSUME NEW f \in Folders, Load(f)
        PROVE  QuietTrue'
    <2>1. stage' = [stage EXCEPT ![f] = IF there[f] THEN "loaded" ELSE "done"]
      BY <1>3 DEF Load
    <2>2. \A g \in Folders : g # f => mod'[g] = mod[g] /\ (g \in last' <=> g \in last)
      BY <1>0, <1>3 DEF Load
    <2>3. f \in Known => f \in last
      BY <1>3 DEF Load, Asked
    <2>4. CASE there[f]
      <3>1. stage'[f] = "loaded" /\ mod'[f] = mtime[f] /\ f \notin last' /\ UNCHANGED files
        BY <1>0, <1>3, <2>1, <2>4 DEF Load
      <3>2. QuietFolder(f)'
        BY <2>4, <3>1 DEF QuietFolder, Active, files
      <3> QED
        BY <1>0, <1>3, <1>a, <2>1, <2>2, <3>2 DEF Load, rows, history, kept
    <2>5. CASE ~there[f]
      <3>1. stage'[f] = "done" /\ last' = last /\ UNCHANGED <<files, Known>>
        BY <1>0, <1>3, <2>1, <2>5 DEF Load, rows, Known
      <3>2. QuietFolder(f)'
        BY <2>3, <2>5, <3>1 DEF QuietFolder, Active, files
      <3> QED
        BY <1>0, <1>3, <1>a, <2>1, <2>2, <3>2 DEF Load, rows, history, kept
    <2> QED
      BY <2>4, <2>5
  <1>4. ASSUME NEW f \in Folders, Check(f)
        PROVE  QuietTrue'
    <2>1. stage' = [stage EXCEPT ![f] = IF Outdated(f) THEN "queued" ELSE "done"]
      BY <1>4 DEF Check
    <2>2. \A g \in Folders : g # f => mod'[g] = mod[g]
      BY <1>4 DEF Check, Forget
    <2>3. UNCHANGED <<files, rows, last>>
      BY <1>4 DEF Check
    <2>4. ASSUME quiet, f \in targets \ unread
          PROVE  QuietFolder(f)'
      <3>1. there[f] /\ mod[f] = mtime[f] /\ f \notin last
        BY <1>4, <2>4 DEF Check, QuietTrue, QuietFolder, Active
      <3>2. CASE Outdated(f)
        <4>1. stage'[f] = "queued" /\ mod'[f] = mod[f]
          BY <1>0, <1>4, <2>1, <3>2 DEF Check, Forget
        <4> QED
          BY <2>3, <3>1, <4>1 DEF QuietFolder, Active, files
      <3>3. CASE ~Outdated(f)
        <4>1. UpToDate(f)
          BY <3>1, <3>3 DEF Outdated, Hash, UpToDate
        <4>2. UpToDate(f)'
          BY <2>3, <4>1 DEF UpToDate, files, rows, Known
        <4>3. stage'[f] = "done"
          BY <1>0, <2>1, <3>3
        <4> QED
          BY <2>3, <3>1, <4>2, <4>3 DEF QuietFolder, Active, files
      <3> QED
        BY <3>2, <3>3
    <2> QED
      BY <1>0, <1>4, <1>a, <2>1, <2>2, <2>3, <2>4 DEF Check, rows, history, kept
  <1>b. ASSUME NEW f \in Folders, NEW s \in {"parsed", "ready"},
               stage' = [stage EXCEPT ![f] = s], stage[f] \in Active, phase = "walk",
               UNCHANGED <<files, rows, phase, targets, unread, quiet, last, mod>>
        PROVE  QuietTrue'
    <2>1. ASSUME quiet, f \in targets \ unread
          PROVE  QuietFolder(f)'
      <3>1. there[f] /\ mod[f] = mtime[f] /\ f \notin last
        BY <1>b, <2>1 DEF QuietTrue, QuietFolder
      <3>2. stage'[f] \in Active /\ stage'[f] # "done"
        BY <1>0, <1>b DEF Active
      <3> QED
        BY <1>b, <3>1, <3>2 DEF QuietFolder, files
    <2> QED
      BY <1>0, <1>a, <1>b, <2>1 DEF rows
  <1>5. ASSUME NEW f \in Folders, Parse(f)
        PROVE  QuietTrue'
    <2>1. PICK s \in {"parsed", "ready"} : stage' = [stage EXCEPT ![f] = s]
      BY <1>5 DEF Parse
    <2> QED
      BY <1>5, <1>b, <2>1 DEF Parse, history, kept, Active
  <1>6. ASSUME NEW f \in Folders, Stat(f) \/ ReadFails(f)
        PROVE  QuietTrue'
    BY <1>6, <1>b DEF Stat, ReadFails, history, kept, Active
  <1>7. ASSUME NEW f \in Folders, Persist(f)
        PROVE  QuietTrue'
    <2>1. stage' = [stage EXCEPT ![f] = "done"] /\ hash' = [hash EXCEPT ![f] = Hash(f)]
          /\ gone' = gone \ {f} /\ phase = "walk" /\ stage[f] = "ready"
          /\ UNCHANGED <<files, phase, targets, unread, quiet, last>>
      BY <1>7 DEF Persist
    <2>2. \A g \in Folders : g # f => mod'[g] = mod[g]
      BY <1>7 DEF Persist, Forget
    <2>3. ASSUME quiet, f \in targets \ unread
          PROVE  QuietFolder(f)'
      <3>1. there[f] /\ mod[f] = mtime[f] /\ f \notin last
        BY <2>1, <2>3 DEF QuietTrue, QuietFolder, Active
      <3>2. hash'[f] = <<mtime[f], mtime[f]>> /\ stage'[f] = "done"
        BY <1>0, <2>1, <3>1 DEF Hash
      <3>3. mtime[f] # 0
        BY FolderTypes DEF FoldersTrue, Bounded
      <3>4. UpToDate(f)'
        BY <2>1, <3>2, <3>3 DEF UpToDate, Known, NoHash, files
      <3> QED
        BY <2>1, <3>1, <3>2, <3>4 DEF QuietFolder, Active, files
    <2> QED
      BY <1>0, <1>a, <2>1, <2>2, <2>3
  <1>8. ASSUME NEW f \in Folders, Edit(f) \/ Vanish(f) \/ Return(f)
        PROVE  QuietTrue'
    <2>1. Change
      BY <1>8 DEF Edit, Vanish, Return
    <2> QED
      BY <2>1 DEF Change, QuietTrue
  <1>9. CASE PhaseFails
    BY <1>9 DEF PhaseFails, QuietTrue
  <1>10. CASE Finalize
    <2>1. SUFFICES ASSUME quiet, NEW f \in targets \ unread
                   PROVE  (IF there[f] THEN UpToDate(f) ELSE f \notin Known)'
      BY <1>10 DEF Finalize, QuietTrue, history, entries
    <2>2. UNCHANGED <<files, hash, targets>> /\ phase = "walk" /\ gone' = gone \cup last
      BY <1>10 DEF Finalize, Walked, MarkMissing, Missing
    <2>3. stage[f] = "done"
      BY <1>0, <1>10, <2>1 DEF Finalize, Walked, Asked
    <2>4. QuietFolder(f)
      BY <2>1, <2>2 DEF QuietTrue
    <2>5. CASE there[f]
      <3>1. UpToDate(f) /\ f \notin last
        BY <2>3, <2>4, <2>5 DEF QuietFolder
      <3> QED
        BY <2>2, <2>5, <3>1 DEF UpToDate, Known, files
    <2>6. CASE ~there[f]
      <3>1. f \in Known => f \in last
        BY <2>3, <2>4, <2>6 DEF QuietFolder
      <3> QED
        BY <2>2, <2>6, <3>1 DEF Known, files
    <2> QED
      BY <2>5, <2>6
  <1>11. ASSUME NEW whole \in BOOLEAN, NEW asked \in Targets, StartScan(whole, asked)
         PROVE  QuietTrue'
    BY <1>11, IdleScan DEF StartScan, Accept
  <1>c. ASSUME UNCHANGED <<files, rows, phase, targets, entries, quiet>>
        PROVE  QuietTrue'
    BY <1>c DEF QuietTrue, QuietFolder, UpToDate, Known, files, rows, entries
  <1>12. CASE BootRead \/ BootDelete
    BY <1>12, <1>c DEF BootRead, BootDelete, history, kept
  <1>13. CASE BootScan
    <2>1. CASE phase = "idle"
      BY <1>13, <2>1, IdleScan DEF BootScan, Accept
    <2>2. CASE phase # "idle"
      BY <1>13, <1>c, <2>2 DEF BootScan, history, kept
    <2> QED
      BY <2>1, <2>2
  <1>14. ASSUME NEW f \in Folders, Skip(f)
         PROVE  QuietTrue'
    <2>1. PICK below \in SUBSET {h \in Folders \ {f} : stage[h] = "todo"} :
            /\ stage' = [h \in Folders |-> IF h = f \/ h \in below THEN "done" ELSE stage[h]]
            /\ unread' = unread \cup {f} \cup below
      BY <1>14 DEF Skip
    <2>2. phase = "walk" /\ UNCHANGED <<files, rows, phase, targets, last, quiet>>
      BY <1>14 DEF Skip, history
    <2>3. SUFFICES ASSUME quiet, NEW g \in targets \ unread, g # f, g \notin below
                   PROVE  QuietFolder(g)'
      BY <2>1, <2>2 DEF QuietTrue
    <2>4. stage'[g] = stage[g] /\ mod'[g] = mod[g]
      BY <1>0, <1>14, <2>1, <2>3 DEF Skip, Forget
    <2> QED
      BY <2>2, <2>3, <2>4 DEF QuietTrue, QuietFolder, UpToDate, Known, files, rows
  <1> QED
    BY <1>1, <1>2, <1>3, <1>4, <1>5, <1>6, <1>7, <1>8, <1>9, <1>10, <1>11, <1>12, <1>13, <1>14
       DEF Next

LEMMA NextFullTrue ==
  ASSUME ScanAssumption, TypeOK, FoldersTrue, Asked, FullTrue, Next
  PROVE  FullTrue'
  <1>0. /\ targets \subseteq Folders /\ stage \in [Folders -> Stages] /\ fresh \subseteq Folders
        /\ hash \in [Folders -> Versions \X Versions]
    BY DEF TypeOK
  <1>1. CASE Prepare
    <2>1. \A f \in Folders : stage'[f] # "done"
      BY <1>1 DEF Prepare, NewScanJob
    <2>2. phase' = "walk" /\ started' /\ targets' = targets /\ skipped' = skipped
          /\ UNCHANGED Known
      BY <1>1 DEF Prepare, rows, library, Known
    <2>3. CASE started
      <3>1. UNCHANGED <<fullSaved, fresh, read>>
        BY <1>1, <2>3 DEF Prepare, library
      <3>2. full' = (full \/ fullSaved) /\ mixed' = (mixed \/ (full' /\ ~fullSaved))
        BY <1>1, <2>3 DEF Prepare, Whole
      <3> QED
        BY <1>0, <2>1, <2>2, <2>3, <3>1, <3>2 DEF FullTrue, Covered
    <2>4. CASE ~started
      <3>1. fullSaved' = full' /\ fresh' = {}
        BY <1>1, <2>4 DEF Prepare
      <3> QED
        BY <1>0, <2>1, <2>2, <3>1 DEF FullTrue
    <2> QED
      BY <2>3, <2>4
  \* a step that changes neither the library nor what was read, and ends or rests
  <1>i. ASSUME phase' \in {"idle", "begin", "failed"}, UNCHANGED <<started, fullSaved>>,
               \A f \in Folders : f \in fresh' => f \in fresh \/ f \notin Known',
               \A f \in Folders : f \in Known' => f \in Known,
               UNCHANGED <<read, skipped>>, fresh' \subseteq Folders
        PROVE  FullTrue'
    BY <1>i DEF FullTrue, Covered
  <1>2. CASE PrepareFails \/ PostFails \/ Crash
    BY <1>0, <1>2, <1>i DEF PrepareFails, PostFails, Crash, Reset, rows, library, kept, Known
  <1>3. CASE FinalizeFailed
    BY <1>0, <1>3, <1>i, TypeOK
       DEF FinalizeFailed, MarkMissing, Missing, Reset, kept, Known, TypeOK
  <1>4. CASE End
    BY <1>4 DEF End, Reset, FullTrue
  <1>5. CASE PhaseFails
    BY <1>0, <1>5, <1>i DEF PhaseFails, rows, library, history, kept, Known
  \* a step of one folder
  <1>a. ASSUME NEW f \in Folders, phase = "walk",
               UNCHANGED <<phase, full, mixed, started, fullSaved, targets, unread>>,
               \A g \in Folders : g # f => /\ stage'[g] = stage[g]
                                           /\ (g \in last' <=> g \in last)
                                           /\ (g \in fresh' <=> g \in fresh)
                                           /\ (g \in read' <=> g \in read)
                                           /\ (g \in skipped' <=> g \in skipped)
                                           /\ (g \in Known' <=> g \in Known),
               fresh' \subseteq Folders,
               full /\ f \in fresh' /\ (f \in fresh => Covered(f)) => Covered(f)',
               full /\ stage'[f] = "done" /\ (f \in fresh => Covered(f)) => Covered(f)' \/ f \in last'
        PROVE  FullTrue'
    <2>1. fullSaved => full
      BY <1>a DEF FullTrue
    <2>2. started
      BY <1>a DEF Asked
    <2>3. ASSUME fullSaved, NEW g \in fresh'
          PROVE  Covered(g)'
      BY <1>0, <1>a, <2>1, <2>2, <2>3 DEF FullTrue, Covered
    <2>4. ASSUME fullSaved, NEW g \in targets \ unread, stage'[g] = "done"
          PROVE  Covered(g)' \/ g \in last'
      BY <1>0, <1>a, <2>1, <2>2, <2>4 DEF FullTrue, Covered
    <2> QED
      BY <1>a, <2>3, <2>4 DEF FullTrue
  <1>6. ASSUME NEW f \in Folders, Load(f)
        PROVE  FullTrue'
    <2>1. stage' = [stage EXCEPT ![f] = IF there[f] THEN "loaded" ELSE "done"]
      BY <1>6 DEF Load
    <2>2. \A g \in Folders : g # f => (g \in last' <=> g \in last)
      BY <1>6 DEF Load
    <2>3. f \in Known => f \in last
      BY <1>6 DEF Load, Asked
    <2>4. stage'[f] = "done" => last' = last
      BY <1>0, <1>6, <2>1 DEF Load
    <2>5. UNCHANGED <<Known, fresh, read, skipped>>
      BY <1>6 DEF Load, rows, library, history, kept, Known
    <2> QED
      BY <1>0, <1>6, <1>a, <2>1, <2>2, <2>3, <2>4, <2>5 DEF Load, library, history, kept, Covered
  <1>7. ASSUME NEW f \in Folders, Check(f)
        PROVE  FullTrue'
    <2>1. stage' = [stage EXCEPT ![f] = IF Outdated(f) THEN "queued" ELSE "done"]
      BY <1>7 DEF Check
    <2>2. full /\ stage'[f] = "done" => f \in fresh
      BY <1>0, <2>1 DEF Outdated
    <2>3. UNCHANGED <<Known, fresh, read, skipped, last>>
      BY <1>7 DEF Check, rows, library, history, kept, Known
    <2> QED
      BY <1>0, <1>7, <1>a, <2>1, <2>2, <2>3 DEF Check, library, history, kept, Covered
  <1>8. ASSUME NEW f \in Folders, Parse(f) \/ Stat(f)
        PROVE  FullTrue'
    <2>1. PICK s \in {"parsed", "ready"} : stage' = [stage EXCEPT ![f] = s]
      BY <1>8 DEF Parse, Stat
    <2>2. UNCHANGED <<Known, fresh, read, skipped, last>>
      BY <1>8 DEF Parse, Stat, rows, library, history, kept, Known
    <2> QED
      BY <1>0, <1>8, <1>a, <2>1, <2>2 DEF Parse, Stat, library, history, kept, Covered
  <1>9. ASSUME NEW f \in Folders, ReadFails(f)
        PROVE  FullTrue'
    <2>1. UNCHANGED <<Known, fresh, read, last>> /\ skipped' = skipped \cup {f}
      BY <1>9 DEF ReadFails, rows, library, Known
    <2> QED
      BY <1>0, <1>9, <1>a, <2>1 DEF ReadFails, library, Covered
  <1>10. ASSUME NEW f \in Folders, Persist(f)
         PROVE  FullTrue'
    <2>1. /\ stage' = [stage EXCEPT ![f] = "done"] /\ hash' = [hash EXCEPT ![f] = Hash(f)]
          /\ gone' = gone \ {f} /\ fresh' = fresh \cup {f}
          /\ phase = "walk" /\ stage[f] = "ready"
          /\ UNCHANGED <<phase, full, mixed, started, fullSaved, targets, last, unread>>
      BY <1>10 DEF Persist
    <2>2. \A g \in Folders : g # f => (g \in Known' <=> g \in Known)
      BY <1>0, <2>1 DEF Known
    <2>3. \A g \in Folders : g # f => /\ (g \in read' <=> g \in read)
                                      /\ (g \in skipped' <=> g \in skipped)
      BY <1>10 DEF Persist
    <2>4. CASE newTags[f] # 0
      <3>1. f \in read'
        BY <1>10, <2>4 DEF Persist
      <3> QED
        BY <1>0, <1>a, <2>1, <2>2, <2>3, <3>1 DEF Covered
    <2>5. CASE newTags[f] = 0
      <3>1. skipped' = skipped
        BY <1>10, <2>5 DEF Persist
      <3>2. full => f \in skipped
        BY <2>1, <2>5 DEF FoldersTrue, EntryTrue
      <3> QED
        BY <1>0, <1>a, <2>1, <2>2, <2>3, <3>1, <3>2 DEF Covered
    <2> QED
      BY <2>4, <2>5
  <1>11. ASSUME NEW f \in Folders, Edit(f) \/ Vanish(f) \/ Return(f)
         PROVE  FullTrue'
    BY <1>11 DEF Edit, Vanish, Return, Change, rows, library, entries, kept, FullTrue, Covered, Known
  <1>12. CASE Finalize
    <2>1. /\ phase = "walk" /\ phase' = "post" /\ gone' = gone \cup last /\ fresh' = fresh \cup last
          /\ UNCHANGED <<hash, full, mixed, started, fullSaved, targets, unread, read, skipped>>
      BY <1>12 DEF Finalize, Walked, MarkMissing, Missing, entries, history, kept
    <2>2. \A f \in targets \ unread : stage[f] = "done"
      BY <1>0, <1>12 DEF Finalize, Walked, Asked
    <2>3. \A f \in Folders : f \in Known' => f \in Known /\ f \notin last
      BY <2>1 DEF Known
    <2>4. \A f : Covered(f) \/ f \in last => Covered(f)'
      BY <2>1 DEF Covered, Known
    <2> HIDE DEF Covered
    <2> QED
      BY <2>1, <2>2, <2>4 DEF FullTrue
  <1>13. ASSUME NEW whole \in BOOLEAN, NEW asked \in Targets, StartScan(whole, asked)
         PROVE  FullTrue'
    BY <1>0, <1>13, <1>i DEF StartScan, Accept, rows, library, history, kept, Known
  <1>c. ASSUME UNCHANGED <<rows, library, phase, full, targets, entries, history>>
        PROVE  FullTrue'
    BY <1>c DEF FullTrue, Covered, Known, rows, library, entries, history, kept
  <1>14. CASE BootRead \/ BootDelete
    BY <1>14, <1>c DEF BootRead, BootDelete
  <1>15. CASE BootScan
    <2>1. CASE phase = "idle"
      BY <1>0, <1>15, <1>i, <2>1 DEF BootScan, Accept, rows, library, history, kept, Known
    <2>2. CASE phase # "idle"
      BY <1>15, <1>c, <2>2 DEF BootScan
    <2> QED
      BY <2>1, <2>2
  <1>16. ASSUME NEW f \in Folders, Skip(f)
         PROVE  FullTrue'
    <2>1. PICK below \in SUBSET {h \in Folders \ {f} : stage[h] = "todo"} :
            /\ stage' = [h \in Folders |-> IF h = f \/ h \in below THEN "done" ELSE stage[h]]
            /\ unread' = unread \cup {f} \cup below
      BY <1>16 DEF Skip
    <2>2. /\ phase = "walk"
          /\ UNCHANGED <<phase, full, mixed, started, fullSaved, fresh, targets, last, read, skipped,
                         Known>>
      BY <1>16 DEF Skip, rows, library, history, kept, Known
    <2> QED
      BY <1>0, <2>1, <2>2 DEF FullTrue, Covered
  <1> QED
    BY <1>1, <1>2, <1>3, <1>4, <1>5, <1>6, <1>7, <1>8, <1>9, <1>10, <1>11, <1>12, <1>13, <1>14,
       <1>15, <1>16 DEF Next

LEMMA InitScans ==
  ASSUME Init
  PROVE  Asked /\ QuietTrue /\ FullTrue
  BY DEF Init, Asked, QuietTrue, FullTrue

LEMMA StutterScans ==
  ASSUME Asked, QuietTrue, FullTrue, UNCHANGED vars
  PROVE  Asked' /\ QuietTrue' /\ FullTrue'
  BY DEF Asked, QuietTrue, QuietFolder, UpToDate, FullTrue, Covered, Known,
         vars, files, rows, library, entries, history, kept

LEMMA Invariance == ASSUME ScanAssumption PROVE Spec => []IInv
  <1>1. Init => IInv
    BY InitTypes, InitFoldersTrue, InitScans DEF IInv
  <1>2. IInv /\ [Next]_vars => IInv'
    <2> SUFFICES ASSUME IInv, [Next]_vars
                 PROVE  IInv'
      OBVIOUS
    <2>1. TypeOK /\ FoldersTrue /\ Asked /\ QuietTrue /\ FullTrue
      BY DEF IInv
    <2>2. CASE Next
      BY <2>1, <2>2, NextTypes, NextFoldersTrue, NextAsked, NextQuietTrue, NextFullTrue DEF IInv
    <2>3. CASE UNCHANGED vars
      BY <2>1, <2>3, StutterTypes, StutterFoldersTrue, StutterScans DEF IInv
    <2> QED
      BY <2>2, <2>3
  <1> QED
    BY <1>1, <1>2, PTL DEF Spec

\* A scan that completes has left the folders it could open as they were on disk if nothing
\* changed while it ran; and a full one has read every file it found in them, itself or through
\* those it resumed: the promise of FinalizeScan, whatever scans were interrupted before and
\* whatever folders were skipped.
THEOREM ScansAreTrueHolds == ASSUME ScanAssumption PROVE Spec => ScansAreTrue
  <1>1. ASSUME IInv, phase = "post", quiet, NEW f \in targets \ unread
        PROVE  Synced(f)
    <2>1. f \in Folders
      BY <1>1 DEF IInv, TypeOK
    <2>2. IF there[f] THEN UpToDate(f) ELSE f \notin Known
      BY <1>1 DEF IInv, QuietTrue
    <2>3. UpToDate(f) => f \notin gone /\ (Imported(f) \/ Misread(f))
      BY <1>1, <2>1 DEF IInv, FoldersTrue, HashTrue, UpToDate, Known
    <2> QED
      BY <2>2, <2>3 DEF Synced
  <1>2. ASSUME IInv, phase = "post", full, ~mixed, NEW f \in targets \ unread
        PROVE  f \in read \cup skipped \/ f \notin Known
    BY <1>2 DEF IInv, FullTrue, Covered
  <1>3. IInv => [phase = "post" /\ started /\ ~started' /\ quiet
                 => \A f \in targets \ unread : Synced(f)]_vars
    BY <1>1
  <1>4. IInv => [phase = "post" /\ started /\ ~started' /\ full /\ ~mixed
                 => \A f \in targets \ unread : f \in read \cup skipped \/ f \notin Known]_vars
    BY <1>2
  <1> QED
    BY <1>3, <1>4, Invariance, PTL DEF ScansAreTrue, ScanSyncs, FullScanReadsAll

-----------------------------------------------------------------------------
(* Audiobooks: operators *)

LEMMA BooksFacts ==
    /\ MaxBooks \in Nat /\ MaxChapters \in Nat /\ MaxRuns \in Nat /\ MaxChanges \in Nat
    /\ MaxBookFaults \in Nat /\ Books!Ids = 1 .. MaxBooks /\ IsFiniteSet(Files)
<1>1. Books!IsFiniteSet(Files) <=> IsFiniteSet(Files)
  BY DEF Books!IsFiniteSet, IsFiniteSet
<1> QED
  BY <1>1, ScannerAssumption DEF Books!AudiobooksAssumption, Books!Ids

LEMMA BooksCardinality == \A S : Books!Cardinality(S) = Cardinality(S)
BY DEF Books!Cardinality, Cardinality

\* A set of natural numbers that has an element has a least one.
LEMMA LeastOfNaturals ==
    ASSUME NEW S \in SUBSET Nat, S # {}
    PROVE  \E x \in S : \A y \in S : x <= y
<1> DEFINE R == OpToRel(<, Nat)
<1>1. IsWellFoundedOn(R, Nat)
  BY NatLessThanWellFounded
<1>2. \A x, y \in S : <<y, x>> \notin R => x <= y
  BY DEF OpToRel
<1> HIDE DEF R
<1>3. PICK x \in S : \A y \in S : ~(<<y, x>> \in R)
  BY <1>1, WFMin, Zenon
<1> QED BY <1>2, <1>3

LEMMA BooksMin ==
    ASSUME NEW S \in SUBSET Nat, S # {}
    PROVE  Books!Min(S) \in S
BY LeastOfNaturals DEF Books!Min

\* The greatest of the numbers up to n is as far from n as the least of the distances.
LEMMA BooksMax ==
    ASSUME NEW n \in Nat, NEW S \in SUBSET (0 .. n), S # {}
    PROVE  Books!Max(S) \in S
<1> DEFINE far == {n - x : x \in S}
<1>1. far \subseteq Nat /\ far # {}
  <2>1. \A x \in S : n - x \in Nat
    OBVIOUS
  <2> QED
    BY <2>1
<1>2. PICK d \in far : \A e \in far : d <= e
  BY <1>1, LeastOfNaturals
<1>3. PICK x \in S : d = n - x
  OBVIOUS
<1>4. \A y \in S : x >= y
  <2> TAKE y \in S
  <2>1. n - x <= n - y
    BY <1>2, <1>3
  <2>2. n \in Nat /\ x \in Nat /\ y \in Nat
    OBVIOUS
  <2> QED
    BY ONLY <2>1, <2>2
<1> QED
  BY <1>4 DEF Books!Max

-----------------------------------------------------------------------------
(* Audiobooks: the inductive invariant *)

\* An operation that runs, is at one of its places and works on a book.
Works(op, places) ==
    /\ op \in [at : {"idle"} \cup places, book : 0 .. MaxBooks, left : SUBSET Books!Plan, count : Nat]
    /\ IsFiniteSet(op.left)
    /\ op.at # "idle" => op.book \in 1 .. made

BookTypes ==
    /\ exists \in BOOLEAN /\ bookFiles \subseteq Files /\ (bookFiles # {} => exists)
    /\ made \in 0 .. MaxBooks /\ begun \in 0 .. MaxRuns
    /\ turns \in 0 .. MaxChanges /\ failures \in 0 .. MaxBookFaults
    /\ disturbed \in BOOLEAN
    /\ DOMAIN books \subseteq 1 .. made /\ \A b \in DOMAIN books : books[b] \in Nat
    /\ deleted \subseteq 1 .. made /\ strayed \subseteq 1 .. made
    /\ chapters \subseteq [id : 1 .. MaxChapters, book : 1 .. made, file : Files]
    /\ IsFiniteSet(chapters)
    /\ progress \in [Books!Ids -> 0 .. MaxChapters]

OperationTypes ==
    /\ Works(scan, {"clear", "fill"}) /\ Works(rescan, {"clear", "fill"})
    /\ Works(edit, {"put"}) /\ Works(purge, {"refs", "chapters", "book"})
    /\ rescan.at = "idle" => rescan.left = {}

\* An id is of one chapter; and one that a rescan keeps is of its book.
IdsDiffer == \A c, d \in chapters : c.id = d.id => c = d
RescanIds == \A p \in rescan.left, c \in chapters : c.id = p.id => c.book = rescan.book

\* The files that an operation has still to write, with their ids, differ.
Distinct(left) ==
    \A p, q \in left : /\ p.file = q.file => p = q
                       /\ p.id = q.id => p = q \/ p.id = 0

OneAtATime ==
    /\ scan.at # "idle" => rescan.at = "idle" /\ edit.at = "idle" /\ purge.at = "idle"
    /\ rescan.at # "idle" => edit.at = "idle" /\ purge.at = "idle"
    /\ edit.at # "idle" => purge.at = "idle"

\* While no operation has overlapped another or failed half way: there is one book, the
\* operation that runs is of it, and what is counted and what is still to write add up.
OneBook ==
    /\ deleted \cap DOMAIN books = {}
    /\ \A b, d \in DOMAIN books : b = d
    /\ \A c \in chapters : c.book \in DOMAIN books
    /\ \A c, d \in chapters : c.file = d.file => c = d
    /\ \A op \in {scan, rescan, edit, purge} : op.at # "idle" => op.book \in DOMAIN books

AddsUp ==
    /\ rescan.at = "fill" \/ purge.at = "book"
          \/ \A b \in DOMAIN books : books[b] = Cardinality(chapters)
    /\ scan.at = "clear" => chapters = {} /\ scan.count = 0
    /\ scan.at = "fill" =>
          /\ scan.count = Cardinality(chapters)
          /\ Distinct(scan.left)
          /\ \A p \in scan.left, c \in chapters : p.file # c.file
    /\ rescan.at # "idle" => Distinct(rescan.left)
    /\ rescan.at = "clear" => rescan.count = Cardinality(rescan.left)
    /\ rescan.at = "fill" =>
          /\ rescan.count = Cardinality(rescan.left) + Cardinality(chapters)
          /\ \A p \in rescan.left, c \in chapters : p.file # c.file /\ p.id # c.id
    /\ edit.at = "put" => books[edit.book] = edit.count
    /\ purge.at = "book" => chapters = {}

Tidy == OneAtATime /\ OneBook /\ AddsUp

BooksInv ==
    /\ BookTypes /\ OperationTypes /\ IdsDiffer /\ RescanIds /\ Books!ProgressIsKept
    /\ disturbed \/ Tidy

-----------------------------------------------------------------------------
(* Audiobooks: the tables *)

\* A new id is no chapter's, and none that a rescan keeps.
LEMMA FreshIsNew ==
    ASSUME NEW id \in Books!FreshIds
    PROVE  /\ id \in 1 .. MaxChapters
           /\ \A c \in chapters : c.id # id
           /\ \A p \in rescan.left : p.id # id
<1> DEFINE unused == (1 .. MaxChapters) \ {x.id : x \in chapters \cup rescan.left}
<1>1. unused # {} /\ id = Books!Min(unused)
  BY DEF Books!FreshIds
<1>2. unused \subseteq Nat
  BY BooksFacts
<1>3. id \in unused
  BY <1>1, <1>2, BooksMin
<1> QED
  BY <1>3

\* A file keeps the id of its chapter.
LEMMA KeptIsThere ==
    ASSUME NEW b, NEW f, BookTypes
    PROVE  /\ Books!Kept(b, f) \in 0 .. MaxChapters
           /\ Books!Kept(b, f) # 0 =>
                 \E c \in chapters : c.book = b /\ c.file = f /\ c.id = Books!Kept(b, f)
<1> DEFINE same == {c \in Books!Of(b) : c.file = f}
           ids == {c.id : c \in same}
<1>1. same \subseteq chapters /\ \A c \in same : c.book = b /\ c.file = f
  BY DEF Books!Of
<1>2. ids \subseteq 0 .. MaxChapters
  BY <1>1, BooksFacts DEF BookTypes
<1>3. CASE same = {}
  BY <1>3, BooksFacts DEF Books!Kept
<1>4. CASE same # {}
  <2> HIDE DEF same
  <2>0. ids # {} /\ MaxChapters \in Nat
    BY <1>4, BooksFacts
  <2> HIDE DEF ids
  <2>1. Books!Max(ids) \in ids
    BY <1>2, <2>0, BooksMax
  <2> USE DEF ids
  <2>2. Books!Kept(b, f) = Books!Max(ids)
    BY <1>4 DEF Books!Kept, same
  <2> QED
    BY <1>1, <1>2, <2>1, <2>2
<1> QED
  BY <1>3, <1>4

\* Deleting the chapters of a book that progress does not refer to.
LEMMA DeleteKeeps ==
    ASSUME NEW b, Books!Deletable(b), BookTypes, IdsDiffer, Books!ProgressIsKept,
           chapters' = chapters \ Books!Of(b), UNCHANGED <<progress, strayed>>
    PROVE  IdsDiffer' /\ Books!ProgressIsKept'
<1>1. IdsDiffer'
  BY DEF IdsDiffer
<1>2. ASSUME NEW u \in Books!Ids, progress[u] # 0
      PROVE  \E c \in chapters' : c.id = progress[u] /\ (u \notin strayed => c.book = u)
  <2>1. PICK c \in chapters : c.id = progress[u] /\ (u \notin strayed => c.book = u)
    BY <1>2 DEF Books!ProgressIsKept
  <2>2. c \notin Books!Of(b)
    BY <2>1 DEF Books!Deletable, Books!Referred
  <2> QED
    BY <2>1, <2>2
<1> QED
  BY <1>1, <1>2 DEF Books!ProgressIsKept, Books!Of

\* Writing a chapter whose id is new or of its book.
LEMMA PutKeeps ==
    ASSUME NEW b, NEW f, NEW id, Books!PutChapter(b, f, id),
           \A c \in chapters : c.id = id => c.book = b,
           strayed' = strayed, BookTypes, IdsDiffer, Books!ProgressIsKept, progress' = progress
    PROVE  IdsDiffer' /\ Books!ProgressIsKept'
<1> DEFINE new == [id |-> id, book |-> b, file |-> f]
<1>1. chapters' = {c \in chapters : c.id # id} \cup {new}
  BY DEF Books!PutChapter
<1>2. IdsDiffer'
  BY <1>1 DEF IdsDiffer
<1>3. ASSUME NEW u \in Books!Ids, progress[u] # 0
      PROVE  \E c \in chapters' : c.id = progress[u] /\ (u \notin strayed => c.book = u)
  <2>1. PICK c \in chapters : c.id = progress[u] /\ (u \notin strayed => c.book = u)
    BY <1>3 DEF Books!ProgressIsKept
  <2>2. CASE c.id = id
    <3>1. new \in chapters' /\ new.book = b /\ new.id = id
      BY <1>1
    <3> QED
      BY <2>1, <2>2, <3>1
  <2>3. CASE c.id # id
    BY <1>1, <2>1, <2>3
  <2> QED
    BY <2>2, <2>3
<1> QED
  BY <1>2, <1>3 DEF Books!ProgressIsKept, Books!Of

\* The types of the tables, when a chapter is written or the count of a book.
LEMMA PutCountTypes ==
    ASSUME NEW b \in 1 .. made, NEW n \in Nat, Books!Put(b, n), BookTypes
    PROVE  DOMAIN books' \subseteq 1 .. made /\ \A x \in DOMAIN books' : books'[x] \in Nat
BY DEF Books!Put, BookTypes

LEMMA PutTypes ==
    ASSUME NEW b, NEW f \in Files, NEW id \in 1 .. MaxChapters, Books!PutChapter(b, f, id),
           BookTypes
    PROVE  /\ DOMAIN books' = DOMAIN books /\ \A x \in DOMAIN books' : books'[x] \in Nat
           /\ chapters' \subseteq [id : 1 .. MaxChapters, book : 1 .. made, file : Files]
           /\ IsFiniteSet(chapters')
<1> DEFINE new == [id |-> id, book |-> b, file |-> f]
           rest == {c \in chapters : c.id # id}
<1>1. chapters' = rest \cup {new} /\ b \in DOMAIN books
  BY DEF Books!PutChapter
<1>2. IsFiniteSet(rest)
  BY FS_Subset DEF BookTypes
<1>3. IsFiniteSet(chapters')
  BY <1>1, <1>2, FS_AddElement
<1>4. Books!Cardinality({c \in chapters' : c.book = b}) \in Nat
  BY <1>3, FS_Subset, FS_CardinalityType, BooksCardinality
<1>5. DOMAIN books' = DOMAIN books /\ \A x \in DOMAIN books' : books'[x] \in Nat
  BY <1>1, <1>4 DEF Books!PutChapter, Books!Put, BookTypes
<1> QED
  BY <1>1, <1>3, <1>5 DEF BookTypes

\* Nothing was deleted or written.
LEMMA SameRows ==
    ASSUME UNCHANGED <<chapters, progress, strayed>>, IdsDiffer, Books!ProgressIsKept
    PROVE  IdsDiffer' /\ Books!ProgressIsKept'
BY DEF IdsDiffer, Books!ProgressIsKept, Books!Of

\* The types hold when only the counters and operations have changed.
LEMMA SameTypes ==
    ASSUME BookTypes, UNCHANGED <<exists, bookFiles, books, chapters, progress, made, turns, deleted, strayed>>,
           begun' \in 0 .. MaxRuns, failures' \in 0 .. MaxBookFaults, disturbed' \in BOOLEAN
    PROVE  BookTypes'
BY DEF BookTypes

\* An operation that begins while another runs, or after a failure, disturbs.
LEMMA BeginTypes ==
    ASSUME NEW others, NEW failed \in BOOLEAN, Books!Begin(others, failed), BookTypes
    PROVE  /\ begun' \in 0 .. MaxRuns /\ disturbed' \in BOOLEAN
           /\ ~disturbed' => ~disturbed /\ ~failed /\ \A op \in others : op.at = "idle"
<1>1. begun' \in 0 .. MaxRuns
  BY BooksFacts DEF Books!Begin, BookTypes
<1>2. /\ disturbed' = (disturbed \/ failed \/ \E op \in others : op.at # "idle")
      /\ disturbed \in BOOLEAN
  BY DEF Books!Begin, BookTypes
<1>3. disturbed' \in BOOLEAN
  BY <1>2
<1>4. ~disturbed' => ~disturbed /\ ~failed /\ \A op \in others : op.at = "idle"
  BY <1>2
<1> QED
  BY <1>1, <1>3, <1>4

LEMMA BookFaultTypes == Books!Fault /\ BookTypes => failures' \in 0 .. MaxBookFaults
BY BooksFacts DEF Books!Fault, BookTypes

\* What an idle operation is.
LEMMA IdleWorks == \A places : Works(Books!Idle, places) /\ Works(Books!Idle, places)'
<1>1. IsFiniteSet({}) /\ 0 \in 0 .. MaxBooks
  BY BooksFacts, FS_EmptySet
<1> QED
  BY <1>1 DEF Works, Books!Idle

\* An operation that has just begun.
LEMMA BegunWorks ==
    ASSUME NEW places, NEW place \in places, NEW b \in 1 .. MaxBooks, NEW n \in Nat,
           NEW op, op = [at |-> place, book |-> b, left |-> {}, count |-> n], b \in 1 .. made'
    PROVE  /\ op \in [at : {"idle"} \cup places, book : 0 .. MaxBooks, left : SUBSET Books!Plan,
                     count : Nat]
           /\ IsFiniteSet(op.left) /\ op.book \in 1 .. made'
<1>1. b \in 0 .. MaxBooks
  BY BooksFacts
<1> QED
  BY <1>1, FS_EmptySet

-----------------------------------------------------------------------------
(* Audiobooks: the folder and the listener *)

LEMMA ChangeKeeps == BooksInv /\ Books!Change => BooksInv'
<1> SUFFICES ASSUME BooksInv, Books!Change PROVE BooksInv'
  OBVIOUS
<1> USE DEF Books!Change, Books!rows, Books!history, BooksInv
<1>1. BookTypes'
  BY BooksFacts DEF BookTypes
<1>2. OperationTypes'
  BY DEF OperationTypes, Works
<1>3. IdsDiffer' /\ RescanIds' /\ Books!ProgressIsKept'
  BY SameRows DEF RescanIds
<1>4. disturbed' \/ Tidy'
  BY DEF Tidy, OneAtATime, OneBook, AddsUp
<1> QED
  BY <1>1, <1>2, <1>3, <1>4

LEMMA SaveProgressKeeps ==
    ASSUME BooksInv, NEW b \in DOMAIN books, NEW c \in chapters, Books!SaveProgress(b, c)
    PROVE  BooksInv'
<1> USE DEF Books!SaveProgress, Books!outside, BooksInv
<1>1. c.id \in 0 .. MaxChapters /\ b \in Books!Ids
  BY BooksFacts DEF BookTypes
<1>2. BookTypes'
  BY <1>1 DEF BookTypes
<1>3. OperationTypes'
  BY DEF OperationTypes, Works
<1>4. IdsDiffer' /\ RescanIds'
  BY DEF RescanIds, IdsDiffer
<1>5. Books!ProgressIsKept'
  BY <1>1 DEF Books!ProgressIsKept, Books!Of, BookTypes
<1>6. disturbed' \/ Tidy'
  BY DEF Tidy, OneAtATime, OneBook, AddsUp
<1> QED
  BY <1>2, <1>3, <1>4, <1>5, <1>6

-----------------------------------------------------------------------------
(* Audiobooks: the scan *)

LEMMA ScanNewKeeps == BooksInv /\ Books!ScanNew => BooksInv'
<1> SUFFICES ASSUME BooksInv, Books!ScanNew PROVE BooksInv'
  OBVIOUS
<1>1. /\ made' = made + 1 /\ made < MaxBooks
      /\ books' = [x \in DOMAIN books \cup {made'} |-> IF x = made' THEN 0 ELSE books[x]]
      /\ scan' = [at |-> "clear", book |-> made', left |-> {}, count |-> 0]
      /\ UNCHANGED <<exists, bookFiles, chapters, progress, turns, rescan, edit, purge,
                     deleted, strayed>>
  BY DEF Books!ScanNew, Books!Put, Books!Idle
<1>2. BookTypes /\ OperationTypes /\ IdsDiffer /\ RescanIds /\ Books!ProgressIsKept
  BY DEF BooksInv
<1>3. /\ begun' \in 0 .. MaxRuns /\ disturbed' \in BOOLEAN
      /\ ~disturbed' => /\ ~disturbed /\ DOMAIN books = {}
                        /\ rescan.at = "idle" /\ edit.at = "idle" /\ purge.at = "idle"
  BY <1>2, BeginTypes DEF Books!ScanNew
<1>f. failures' \in 0 .. MaxBookFaults
  BY <1>2, BookFaultTypes DEF Books!ScanNew, BookTypes
<1>4. /\ made' \in 1 .. MaxBooks /\ 1 .. made \subseteq 1 .. made'
      /\ made' \notin 1 .. made /\ made' \in 1 .. made'
  BY <1>1, <1>2, BooksFacts DEF BookTypes
<1>5. BookTypes'
  <2>1. DOMAIN books' = DOMAIN books \cup {made'}
    BY <1>1
  <2>2. DOMAIN books' \subseteq 1 .. made' /\ \A x \in DOMAIN books' : books'[x] \in Nat
    BY <1>1, <1>2, <1>4, <2>1 DEF BookTypes
  <2>3. made' \in 0 .. MaxBooks
    BY <1>4
  <2>4. chapters' \subseteq [id : 1 .. MaxChapters, book : 1 .. made', file : Files]
    BY <1>1, <1>2, <1>4 DEF BookTypes
  <2> QED
    BY <1>1, <1>2, <1>3, <1>f, <1>4, <2>2, <2>3, <2>4 DEF BookTypes
<1>6. OperationTypes'
  <2>1. Works(scan, {"clear", "fill"})'
    <3> DEFINE places == {"clear", "fill"}
    <3>1. "clear" \in places /\ 0 \in Nat
      OBVIOUS
    <3> HIDE DEF places
    <3>2. /\ scan' \in [at : {"idle"} \cup places, book : 0 .. MaxBooks, left : SUBSET Books!Plan,
                         count : Nat]
          /\ IsFiniteSet(scan'.left) /\ scan'.book \in 1 .. made'
      BY <1>1, <1>4, <3>1, BegunWorks
    <3> QED
      BY <3>2 DEF Works, places
  <2> QED
    BY <1>1, <1>2, <1>4, <2>1 DEF OperationTypes, Works
<1>7. IdsDiffer' /\ RescanIds' /\ Books!ProgressIsKept'
  BY <1>1, <1>2, SameRows DEF RescanIds
<1>8. ASSUME ~disturbed' PROVE Tidy'
  <2>1. chapters = {} /\ deleted \subseteq 1 .. made
    BY <1>1, <1>2, <1>3, <1>8 DEF BooksInv, Tidy, OneBook, BookTypes
  <2>2. scan'.at = "clear" /\ scan'.count = 0 /\ scan'.book = made'
    BY <1>1
  <2>3. chapters' = {} /\ Cardinality(chapters') = 0
    BY <1>1, <2>1, FS_EmptySet
  <2>4. rescan'.at = "idle" /\ edit'.at = "idle" /\ purge'.at = "idle"
    BY <1>1, <1>3, <1>8
  <2>5. OneAtATime'
    BY <2>4 DEF OneAtATime
  <2>0. DOMAIN books' = {made'} /\ books'[made'] = 0
    BY <1>1, <1>3, <1>8
  <2>6. OneBook'
    BY <1>1, <1>4, <2>0, <2>1, <2>2, <2>3, <2>4 DEF OneBook
  <2>7. AddsUp'
    BY <1>1, <2>0, <2>2, <2>3, <2>4 DEF AddsUp
  <2> QED
    BY <2>5, <2>6, <2>7 DEF Tidy
<1> QED
  BY <1>5, <1>6, <1>7, <1>8 DEF BooksInv

LEMMA ScanKnownKeeps ==
    ASSUME BooksInv, NEW b \in DOMAIN books, Books!ScanKnown(b)
    PROVE  BooksInv'
<1>1. /\ books[b] = 0
      /\ scan' = [at |-> "clear", book |-> b, left |-> {}, count |-> 0]
      /\ UNCHANGED <<exists, bookFiles, books, chapters, progress, made, turns, failures, rescan,
                     edit, purge, deleted, strayed>>
  BY DEF Books!ScanKnown, Books!rows, Books!Idle
<1>2. BookTypes /\ OperationTypes /\ IdsDiffer /\ RescanIds /\ Books!ProgressIsKept
  BY DEF BooksInv
<1>3. /\ begun' \in 0 .. MaxRuns /\ disturbed' \in BOOLEAN
      /\ ~disturbed' => /\ ~disturbed
                        /\ rescan.at = "idle" /\ edit.at = "idle" /\ purge.at = "idle"
  BY <1>2, BeginTypes DEF Books!ScanKnown
<1>4. b \in 1 .. made' /\ b \in 1 .. MaxBooks
  BY <1>1, <1>2, BooksFacts DEF BookTypes
<1>5. BookTypes'
  BY <1>1, <1>2, <1>3 DEF BookTypes
<1>6. OperationTypes'
  <2>1. Works(scan, {"clear", "fill"})'
    <3> DEFINE places == {"clear", "fill"}
    <3>1. "clear" \in places /\ 0 \in Nat
      OBVIOUS
    <3> HIDE DEF places
    <3>2. /\ scan' \in [at : {"idle"} \cup places, book : 0 .. MaxBooks, left : SUBSET Books!Plan,
                         count : Nat]
          /\ IsFiniteSet(scan'.left) /\ scan'.book \in 1 .. made'
      BY <1>1, <1>4, <3>1, BegunWorks
    <3> QED
      BY <3>2 DEF Works, places
  <2> QED
    BY <1>1, <1>2, <2>1 DEF OperationTypes, Works
<1>7. IdsDiffer' /\ RescanIds' /\ Books!ProgressIsKept'
  BY <1>1, <1>2, SameRows DEF RescanIds
<1>8. ASSUME ~disturbed' PROVE Tidy'
  <2>1. Tidy
    BY <1>3, <1>8 DEF BooksInv
  <2>2. scan'.at = "clear" /\ scan'.count = 0 /\ scan'.book = b
    BY <1>1
  <2>3. rescan.at = "idle" /\ edit.at = "idle" /\ purge.at = "idle"
    BY <1>3, <1>8
  <2>4. /\ \A x \in DOMAIN books : books[x] = Cardinality(chapters)
        /\ chapters = {}
    BY <1>1, <1>2, <2>1, <2>3, FS_EmptySet DEF Tidy, AddsUp, BookTypes
  <2>5. OneAtATime'
    BY <1>1, <2>3 DEF OneAtATime
  <2>6. OneBook'
    BY <1>1, <2>1, <2>2, <2>3 DEF Tidy, OneBook
  <2>7. AddsUp'
    BY <1>1, <2>2, <2>3, <2>4 DEF AddsUp
  <2> QED
    BY <2>5, <2>6, <2>7 DEF Tidy
<1> QED
  BY <1>5, <1>6, <1>7, <1>8 DEF BooksInv

\* The files of a folder, each with an id, are as many as the files.
LEMMA LeftOfFiles ==
    ASSUME BookTypes, NEW left,
           \A f \in bookFiles : \E p \in left : p.file = f,
           \A p \in left : p.file \in bookFiles,
           \A p, q \in left : p.file = q.file => p = q
    PROVE  /\ IsFiniteSet(left)
           /\ Cardinality(left) = Cardinality(bookFiles) /\ Cardinality(left) \in Nat
<1> DEFINE g == [f \in bookFiles |-> CHOOSE p \in left : p.file = f]
<1>1. IsFiniteSet(bookFiles)
  BY BooksFacts, FS_Subset DEF BookTypes
<1>2. \A f \in bookFiles : g[f] \in left /\ g[f].file = f
  OBVIOUS
<1>3. g \in Bijection(bookFiles, left)
  <2>1. g \in [bookFiles -> left]
    BY <1>2
  <2>2. \A e, f \in bookFiles : g[e] = g[f] => e = f
    <3> TAKE e, f \in bookFiles
    <3>1. g[e].file = e /\ g[f].file = f
      BY <1>2
    <3> QED
      BY <3>1
  <2>3. \A p \in left : \E f \in bookFiles : g[f] = p
    BY <1>2
  <2> HIDE DEF g
  <2> QED
    BY <2>1, <2>2, <2>3, Fun_IsBij
<1>4. IsFiniteSet(left) /\ Cardinality(left) = Cardinality(bookFiles)
  BY <1>1, <1>3, FS_Bijection DEF ExistsBijection
<1> QED
  BY <1>4, FS_CardinalityType

\* What a listed file has of an id, none or one that differs from the others'.
LEMMA NoIds ==
    ASSUME BookTypes, NEW left, left = {[file |-> f, id |-> 0] : f \in bookFiles}
    PROVE  /\ left \subseteq Books!Plan /\ IsFiniteSet(left) /\ Distinct(left)
<1>1. /\ \A f \in bookFiles : \E p \in left : p.file = f
      /\ \A p \in left : p.file \in bookFiles /\ p.id = 0
      /\ \A p, q \in left : p.file = q.file => p = q
  <2>1. \A f \in bookFiles : \E p \in left : p.file = f
    <3> TAKE f \in bookFiles
    <3>1. [file |-> f, id |-> 0] \in left /\ [file |-> f, id |-> 0].file = f
      OBVIOUS
    <3> QED
      BY <3>1
  <2>2. \A p \in left : p.file \in bookFiles /\ p.id = 0
    OBVIOUS
  <2>3. \A p, q \in left : p.file = q.file => p = q
    OBVIOUS
  <2> QED
    BY <2>1, <2>2, <2>3
<1>2. IsFiniteSet(left)
  BY <1>1, LeftOfFiles
<1>3. left \subseteq Books!Plan
  BY BooksFacts DEF BookTypes, Books!Plan
<1> QED
  BY <1>1, <1>2, <1>3 DEF Distinct

LEMMA ScanClearKeeps == BooksInv /\ Books!ScanClear => BooksInv'
<1> SUFFICES ASSUME BooksInv, Books!ScanClear PROVE BooksInv'
  OBVIOUS
<1>1. /\ scan.at = "clear"
      /\ chapters' = IF Books!Deletable(scan.book) THEN chapters \ Books!Of(scan.book) ELSE chapters
      /\ scan' = [scan EXCEPT !.at = "fill", !.left = {[file |-> f, id |-> 0] : f \in bookFiles}]
      /\ UNCHANGED <<exists, bookFiles, books, progress, made, begun, turns, failures, rescan,
                     edit, purge, disturbed, deleted, strayed>>
  BY DEF Books!ScanClear, Books!outside, Books!history
<1>2. BookTypes /\ OperationTypes /\ IdsDiffer /\ RescanIds /\ Books!ProgressIsKept
  BY DEF BooksInv
<1>3. chapters' \subseteq chapters
  BY <1>1
<1>4. BookTypes'
  <2>1. IsFiniteSet(chapters')
    BY <1>2, <1>3, FS_Subset DEF BookTypes
  <2> QED
    BY <1>1, <1>2, <1>3, <2>1 DEF BookTypes
<1>5. /\ scan'.left \subseteq Books!Plan /\ IsFiniteSet(scan'.left) /\ Distinct(scan'.left)
      /\ scan'.at = "fill" /\ scan'.book = scan.book /\ scan'.count = scan.count
      /\ Works(scan, {"clear", "fill"})'
  <2> DEFINE left == {[file |-> f, id |-> 0] : f \in bookFiles}
  <2>1. left \subseteq Books!Plan /\ IsFiniteSet(left) /\ Distinct(left)
    BY <1>2, NoIds
  <2> HIDE DEF left
  <2>2. scan' = [scan EXCEPT !.at = "fill", !.left = left]
    BY <1>1 DEF left
  <2>3. Works(scan, {"clear", "fill"})
    BY <1>2 DEF OperationTypes
  <2>4. scan'.left = left /\ scan'.at = "fill" /\ scan'.book = scan.book /\ scan'.count = scan.count
    BY <2>2, <2>3 DEF Works
  <2>5. Works(scan, {"clear", "fill"})'
    BY <1>1, <2>1, <2>2, <2>3 DEF Works
  <2> QED
    BY <2>1, <2>4, <2>5
<1>6. OperationTypes'
  BY <1>1, <1>2, <1>5 DEF OperationTypes, Works
<1>7. IdsDiffer' /\ RescanIds' /\ Books!ProgressIsKept'
  <2>1. IdsDiffer' /\ Books!ProgressIsKept'
    BY <1>1, <1>2, SameRows, DeleteKeeps
  <2> QED
    BY <1>1, <1>2, <1>3, <2>1 DEF RescanIds
<1>8. ASSUME ~disturbed' PROVE Tidy'
  <2>1. Tidy
    BY <1>1, <1>8 DEF BooksInv
  <2>2. chapters = {} /\ chapters' = {} /\ scan.count = 0
    BY <1>1, <2>1 DEF Tidy, AddsUp
  <2>3. rescan.at = "idle" /\ edit.at = "idle" /\ purge.at = "idle"
    BY <1>1, <2>1 DEF Tidy, OneAtATime
  <2>4. \A x \in DOMAIN books : books[x] = Cardinality(chapters)
    BY <2>1, <2>3 DEF Tidy, AddsUp
  <2>5. OneAtATime'
    BY <1>1, <2>3 DEF OneAtATime
  <2>6. OneBook'
    BY <1>1, <1>5, <2>1, <2>2, <2>3 DEF Tidy, OneBook
  <2>7. AddsUp'
    BY <1>1, <1>5, <2>2, <2>3, <2>4, FS_EmptySet DEF AddsUp
  <2> QED
    BY <2>5, <2>6, <2>7 DEF Tidy
<1> QED
  BY <1>4, <1>6, <1>7, <1>8 DEF BooksInv

\* A chapter written while the book is tidy: one more, of the one book, which counts them.
LEMMA PutAddsUp ==
    ASSUME NEW b, NEW f, NEW id, Books!PutChapter(b, f, id), BookTypes, OneBook,
           \A c \in chapters : c.id # id /\ c.file # f
    PROVE  /\ chapters' = chapters \cup {[id |-> id, book |-> b, file |-> f]}
           /\ DOMAIN books' = DOMAIN books
           /\ \A x \in DOMAIN books' : books'[x] = Cardinality(chapters')
           /\ Cardinality(chapters') = Cardinality(chapters) + 1
           /\ Cardinality(chapters) \in Nat
           /\ \A c, d \in chapters' : c.file = d.file => c = d
           /\ \A c \in chapters' : c.book \in DOMAIN books
<1> DEFINE new == [id |-> id, book |-> b, file |-> f]
<1>1. /\ b \in DOMAIN books
      /\ chapters' = {c \in chapters : c.id # id} \cup {new}
      /\ Books!Put(b, Cardinality({c \in chapters' : c.book = b}))
  BY BooksCardinality DEF Books!PutChapter
<1>2. chapters' = chapters \cup {new} /\ new \notin chapters
  BY <1>1
<1>3. \A c \in chapters' : c.book = b
  BY <1>1, <1>2 DEF OneBook
<1>4. {c \in chapters' : c.book = b} = chapters'
  BY <1>3
<1>5. DOMAIN books = {b}
  BY <1>1 DEF OneBook
<1>6. DOMAIN books' = {b} /\ books'[b] = Cardinality(chapters')
  BY <1>1, <1>4, <1>5 DEF Books!Put
<1>7. Cardinality(chapters') = Cardinality(chapters) + 1 /\ Cardinality(chapters) \in Nat
  BY <1>2, FS_AddElement, FS_CardinalityType DEF BookTypes
<1>8. \A c, d \in chapters' : c.file = d.file => c = d
  BY <1>2 DEF OneBook
<1> QED
  BY <1>2, <1>3, <1>5, <1>6, <1>7, <1>8

LEMMA ScanFillKeeps ==
    ASSUME BooksInv, NEW p \in scan.left, Books!ScanFill(p)
    PROVE  BooksInv'
<1>1. /\ scan.at = "fill"
      /\ UNCHANGED <<exists, bookFiles, progress, made, begun, turns, rescan, edit, purge, deleted, strayed>>
  BY DEF Books!ScanFill, Books!outside
<1>2. /\ BookTypes /\ OperationTypes /\ IdsDiffer /\ RescanIds /\ Books!ProgressIsKept
      /\ Works(scan, {"clear", "fill"})
  BY DEF BooksInv, OperationTypes
<1>3. p.file \in Files /\ scan.count \in Nat /\ IsFiniteSet(scan.left \ {p})
  BY <1>2, FS_RemoveElement DEF Works, Books!Plan
<1>4. ASSUME Works(scan, {"clear", "fill"})' PROVE OperationTypes'
  BY <1>1, <1>2, <1>4 DEF OperationTypes, Works
<1>5. ASSUME NEW id \in Books!FreshIds, Books!PutChapter(scan.book, p.file, id),
             scan' = [scan EXCEPT !.left = @ \ {p}, !.count = @ + 1], UNCHANGED <<failures, disturbed>>
      PROVE  BooksInv'
  <2>1. /\ id \in 1 .. MaxChapters /\ \A c \in chapters : c.id # id
        /\ \A q \in rescan.left : q.id # id
    BY FreshIsNew
  <2>2. BookTypes'
    BY <1>1, <1>2, <1>3, <1>5, <2>1, PutTypes DEF BookTypes
  <2>3. /\ scan'.at = "fill" /\ scan'.book = scan.book
        /\ scan'.left = scan.left \ {p} /\ scan'.count = scan.count + 1
    BY <1>1, <1>2, <1>5 DEF Works
  <2>4. Works(scan, {"clear", "fill"})'
    <3> DEFINE left == scan.left \ {p}
               n == scan.count + 1
    <3>1. left \in SUBSET Books!Plan /\ n \in Nat /\ IsFiniteSet(left)
      BY <1>2, <1>3 DEF Works
    <3>2. scan' = [scan EXCEPT !.left = left, !.count = n]
      BY <1>5
    <3> HIDE DEF left, n
    <3> QED
      BY <1>1, <1>2, <3>1, <3>2 DEF Works
  <2>5. IdsDiffer' /\ Books!ProgressIsKept'
    BY <1>1, <1>2, <1>5, <2>1, PutKeeps
  <2>6. RescanIds'
    <3>1. chapters' = {c \in chapters : c.id # id}
                         \cup {[id |-> id, book |-> scan.book, file |-> p.file]}
      BY <1>5 DEF Books!PutChapter
    <3> QED
      BY <1>1, <1>2, <2>1, <3>1 DEF RescanIds
  <2>7. ASSUME ~disturbed' PROVE Tidy'
    <3>1. Tidy
      BY <1>5, <2>7 DEF BooksInv
    <3>2. /\ rescan.at = "idle" /\ edit.at = "idle" /\ purge.at = "idle"
          /\ scan.count = Cardinality(chapters) /\ Distinct(scan.left)
          /\ \A q \in scan.left, c \in chapters : q.file # c.file
      BY <1>1, <3>1 DEF Tidy, OneAtATime, AddsUp
    <3>3. /\ chapters' = chapters \cup {[id |-> id, book |-> scan.book, file |-> p.file]}
          /\ DOMAIN books' = DOMAIN books
          /\ \A x \in DOMAIN books' : books'[x] = Cardinality(chapters')
          /\ Cardinality(chapters') = scan.count + 1
          /\ \A c, d \in chapters' : c.file = d.file => c = d
          /\ \A c \in chapters' : c.book \in DOMAIN books
      BY <1>2, <1>5, <2>1, <3>1, <3>2, PutAddsUp DEF Tidy
    <3>4. OneAtATime'
      BY <1>1, <3>2 DEF OneAtATime
    <3>5. OneBook'
      <4>1. scan'.book \in DOMAIN books'
        BY <1>1, <2>3, <3>1, <3>3 DEF Tidy, OneBook
      <4> QED
        BY <1>1, <3>1, <3>2, <3>3, <4>1 DEF Tidy, OneBook
    <3>6. Distinct(scan'.left) /\ \A q \in scan'.left, c \in chapters' : q.file # c.file
      BY <2>3, <3>2, <3>3 DEF Distinct
    <3>7. AddsUp'
      BY <1>1, <2>3, <3>2, <3>3, <3>6 DEF AddsUp
    <3> QED
      BY <3>4, <3>5, <3>7 DEF Tidy
  <2> QED
    BY <1>4, <2>2, <2>4, <2>5, <2>6, <2>7 DEF BooksInv
<1>6. ASSUME Books!Fault \/ UNCHANGED failures, scan' = [scan EXCEPT !.left = @ \ {p}],
             disturbed' = TRUE, UNCHANGED <<books, chapters>>
      PROVE  BooksInv'
  <2>1. BookTypes'
    BY <1>1, <1>2, <1>6, BookFaultTypes, SameTypes DEF BookTypes
  <2>2. Works(scan, {"clear", "fill"})'
    BY <1>1, <1>2, <1>3, <1>6 DEF Works
  <2>3. IdsDiffer' /\ RescanIds' /\ Books!ProgressIsKept'
    BY <1>1, <1>2, <1>6, SameRows DEF RescanIds
  <2> QED
    BY <1>4, <1>6, <2>1, <2>2, <2>3 DEF BooksInv
<1> QED
  BY <1>5, <1>6 DEF Books!ScanFill

LEMMA IdleIsIdle == Books!Idle.at = "idle" /\ Books!Idle.left = {}
BY DEF Books!Idle

LEMMA ScanPutKeeps == BooksInv /\ Books!ScanPut => BooksInv'
<1> SUFFICES ASSUME BooksInv, Books!ScanPut PROVE BooksInv'
  OBVIOUS
<1>1. /\ scan.at = "fill" /\ scan.left = {} /\ scan' = Books!Idle
      /\ UNCHANGED <<exists, bookFiles, chapters, progress, made, begun, turns, rescan, edit, purge,
                     deleted, strayed>>
  BY DEF Books!ScanPut, Books!outside
<1>2. /\ BookTypes /\ OperationTypes /\ IdsDiffer /\ RescanIds /\ Books!ProgressIsKept
      /\ scan.book \in 1 .. made /\ scan.count \in Nat
  BY <1>1 DEF BooksInv, OperationTypes, Works
<1>3. OperationTypes'
  <2>1. Works(scan, {"clear", "fill"})'
    BY <1>1, IdleWorks DEF Works
  <2> QED
    BY <1>1, <1>2, <2>1 DEF OperationTypes, Works
<1>4. IdsDiffer' /\ RescanIds' /\ Books!ProgressIsKept'
  BY <1>1, <1>2, SameRows DEF RescanIds
<1>5. CASE Books!Put(scan.book, scan.count) /\ UNCHANGED <<failures, disturbed>>
  <2>1. BookTypes'
    BY <1>1, <1>2, <1>5, PutCountTypes DEF BookTypes
  <2>2. ASSUME ~disturbed' PROVE Tidy'
    <3>1. Tidy
      BY <1>5, <2>2 DEF BooksInv
    <3>2. /\ rescan.at = "idle" /\ edit.at = "idle" /\ purge.at = "idle"
          /\ scan.count = Cardinality(chapters) /\ scan.book \in DOMAIN books
          /\ DOMAIN books = {scan.book}
      BY <1>1, <3>1 DEF Tidy, OneAtATime, AddsUp, OneBook
    <3>3. DOMAIN books' = DOMAIN books /\ \A x \in DOMAIN books' : books'[x] = Cardinality(chapters)
      BY <1>5, <3>2 DEF Books!Put
    <3>4. scan'.at = "idle"
      BY <1>1, IdleIsIdle
    <3>5. OneAtATime'
      BY <1>1, <3>2, <3>4 DEF OneAtATime
    <3>6. OneBook'
      BY <1>1, <3>1, <3>2, <3>3, <3>4 DEF Tidy, OneBook
    <3>7. AddsUp'
      BY <1>1, <3>2, <3>3, <3>4 DEF AddsUp
    <3> QED
      BY <3>5, <3>6, <3>7 DEF Tidy
  <2> QED
    BY <1>3, <1>4, <2>1, <2>2 DEF BooksInv
<1>6. CASE Books!Fault /\ disturbed' = TRUE /\ UNCHANGED books
  <2>1. BookTypes'
    BY <1>1, <1>2, <1>6, BookFaultTypes, SameTypes DEF BookTypes
  <2> QED
    BY <1>3, <1>4, <1>6, <2>1 DEF BooksInv
<1> QED
  BY <1>5, <1>6 DEF Books!ScanPut

-----------------------------------------------------------------------------
(* Audiobooks: the rescan *)

\* Operations that end, or stay as they are, have their types.
LEMMA EndedTypes ==
    ASSUME OperationTypes, made' = made,
           scan' \in {scan, Books!Idle}, rescan' \in {rescan, Books!Idle},
           edit' \in {edit, Books!Idle}, purge' \in {purge, Books!Idle}
    PROVE  OperationTypes'
<1>1. Works(scan, {"clear", "fill"})'
  BY IdleWorks DEF OperationTypes, Works
<1>2. Works(rescan, {"clear", "fill"})'
  BY IdleWorks DEF OperationTypes, Works
<1>3. Works(edit, {"put"})'
  BY IdleWorks DEF OperationTypes, Works
<1>4. Works(purge, {"refs", "chapters", "book"})'
  BY IdleWorks DEF OperationTypes, Works
<1>5. rescan'.at = "idle" => rescan'.left = {}
  BY IdleIsIdle DEF OperationTypes
<1> QED
  BY <1>1, <1>2, <1>3, <1>4, <1>5 DEF OperationTypes

LEMMA RescanBuildKeeps ==
    ASSUME BooksInv, NEW b \in DOMAIN books, Books!RescanBuild(b)
    PROVE  BooksInv'
<1> DEFINE left == {[file |-> f, id |-> Books!Kept(b, f)] : f \in bookFiles}
<1>1. /\ rescan.at = "idle"
      /\ rescan' = [at |-> "clear", book |-> b, count |-> Cardinality(bookFiles), left |-> left]
      /\ UNCHANGED <<exists, bookFiles, books, chapters, progress, made, turns, failures, scan,
                     edit, purge, deleted, strayed>>
  BY BooksCardinality DEF Books!RescanBuild, Books!rows
<1>2. BookTypes /\ OperationTypes /\ IdsDiffer /\ RescanIds /\ Books!ProgressIsKept
  BY DEF BooksInv
<1>3. /\ begun' \in 0 .. MaxRuns /\ disturbed' \in BOOLEAN
      /\ ~disturbed' => /\ ~disturbed
                        /\ scan.at = "idle" /\ edit.at = "idle" /\ purge.at = "idle"
  BY <1>2, BeginTypes DEF Books!RescanBuild
<1>4. BookTypes'
  BY <1>1, <1>2, <1>3 DEF BookTypes
<1>5. \A f \in bookFiles :
         /\ Books!Kept(b, f) \in 0 .. MaxChapters
         /\ Books!Kept(b, f) # 0 =>
               \E c \in chapters : c.book = b /\ c.file = f /\ c.id = Books!Kept(b, f)
  BY <1>2, KeptIsThere
<1>6. /\ left \subseteq Books!Plan /\ IsFiniteSet(left)
      /\ Cardinality(left) = Cardinality(bookFiles) /\ Cardinality(left) \in Nat
      /\ \A p, q \in left : p.file = q.file => p = q
  <2>1. left \subseteq Books!Plan
    BY <1>2, <1>5 DEF BookTypes, Books!Plan
  <2>2. /\ \A f \in bookFiles : \E p \in left : p.file = f
        /\ \A p \in left : p.file \in bookFiles
        /\ \A p, q \in left : p.file = q.file => p = q
    <3>1. \A f \in bookFiles : \E p \in left : p.file = f
      <4> TAKE f \in bookFiles
      <4>1. /\ [file |-> f, id |-> Books!Kept(b, f)] \in left
            /\ [file |-> f, id |-> Books!Kept(b, f)].file = f
        OBVIOUS
      <4> QED
        BY <4>1
    <3>2. \A p \in left : p.file \in bookFiles
      OBVIOUS
    <3>3. \A p, q \in left : p.file = q.file => p = q
      OBVIOUS
    <3> QED
      BY <3>1, <3>2, <3>3
  <2> HIDE DEF left
  <2>3. /\ IsFiniteSet(left)
        /\ Cardinality(left) = Cardinality(bookFiles) /\ Cardinality(left) \in Nat
    BY <1>2, <2>2, LeftOfFiles
  <2> QED
    BY <2>1, <2>2, <2>3
<1>7. \A p \in left : p.id # 0 => \E c \in chapters : c.book = b /\ c.file = p.file /\ c.id = p.id
  BY <1>5
<1> HIDE DEF left
<1>8. /\ rescan'.at = "clear" /\ rescan'.book = b /\ rescan'.left = left
      /\ rescan'.count = Cardinality(left)
  BY <1>1, <1>6
<1>9. OperationTypes'
  <2>1. Works(rescan, {"clear", "fill"})'
    <3> DEFINE n == Cardinality(bookFiles)
    <3>1. n \in Nat /\ b \in 1 .. made' /\ b \in 0 .. MaxBooks
      BY <1>1, <1>2, <1>6, BooksFacts DEF BookTypes
    <3>2. rescan' = [at |-> "clear", book |-> b, count |-> n, left |-> left]
      BY <1>1
    <3> HIDE DEF n
    <3> QED
      BY <1>6, <3>1, <3>2 DEF Works
  <2> QED
    BY <1>1, <1>2, <1>8, <2>1 DEF OperationTypes, Works
<1>10. IdsDiffer' /\ Books!ProgressIsKept'
  BY <1>1, <1>2, SameRows
<1>11. RescanIds'
  <2> SUFFICES ASSUME NEW p \in left, NEW c \in chapters, c.id = p.id PROVE c.book = b
    BY <1>1, <1>8 DEF RescanIds
  <2>1. p.id # 0
    BY <1>2 DEF BookTypes
  <2>2. PICK d \in chapters : d.book = b /\ d.id = p.id
    BY <1>7, <2>1
  <2> QED
    BY <1>2, <2>2 DEF IdsDiffer
<1>12. ASSUME ~disturbed' PROVE Tidy'
  <2>1. Tidy
    BY <1>3, <1>12 DEF BooksInv
  <2>2. scan.at = "idle" /\ edit.at = "idle" /\ purge.at = "idle"
    BY <1>3, <1>12
  <2>3. \A x \in DOMAIN books : books[x] = Cardinality(chapters)
    BY <1>1, <2>1, <2>2 DEF Tidy, AddsUp
  <2>4. Distinct(left)
    <3> SUFFICES ASSUME NEW p \in left, NEW q \in left, p.id = q.id, p.id # 0 PROVE p = q
      BY <1>6 DEF Distinct
    <3>1. PICK c \in chapters : c.file = p.file /\ c.id = p.id
      BY <1>7
    <3>2. PICK d \in chapters : d.file = q.file /\ d.id = q.id
      BY <1>7
    <3>3. p.file = q.file
      BY <1>2, <3>1, <3>2 DEF IdsDiffer
    <3> QED
      BY <1>6, <3>3
  <2>5. OneAtATime'
    BY <1>1, <2>2 DEF OneAtATime
  <2>6. OneBook'
    BY <1>1, <1>8, <2>1, <2>2 DEF Tidy, OneBook
  <2>7. AddsUp'
    BY <1>1, <1>8, <2>2, <2>3, <2>4 DEF AddsUp
  <2> QED
    BY <2>5, <2>6, <2>7 DEF Tidy
<1> QED
  BY <1>4, <1>9, <1>10, <1>11, <1>12 DEF BooksInv

LEMMA RescanClearKeeps == BooksInv /\ Books!RescanClear => BooksInv'
<1> SUFFICES ASSUME BooksInv, Books!RescanClear PROVE BooksInv'
  OBVIOUS
<1>1. /\ rescan.at = "clear"
      /\ UNCHANGED <<exists, bookFiles, books, progress, made, begun, turns, failures, scan,
                     edit, purge, disturbed, deleted, strayed>>
  BY DEF Books!RescanClear, Books!outside, Books!history
<1>2. /\ BookTypes /\ OperationTypes /\ IdsDiffer /\ RescanIds /\ Books!ProgressIsKept
      /\ Works(rescan, {"clear", "fill"})
  BY DEF BooksInv, OperationTypes
<1>3. ASSUME ~disturbed
      PROVE  /\ Tidy /\ scan.at = "idle" /\ edit.at = "idle" /\ purge.at = "idle"
             /\ \A x \in DOMAIN books : books[x] = Cardinality(chapters)
             /\ Distinct(rescan.left) /\ rescan.count = Cardinality(rescan.left)
             /\ Cardinality(rescan.left) \in Nat /\ rescan.book \in DOMAIN books
             /\ \A c \in chapters : c.book = rescan.book
  <2>1. Tidy
    BY <1>3 DEF BooksInv
  <2>2. scan.at = "idle" /\ edit.at = "idle" /\ purge.at = "idle"
    BY <1>1, <2>1 DEF Tidy, OneAtATime
  <2>3. /\ \A x \in DOMAIN books : books[x] = Cardinality(chapters)
        /\ Distinct(rescan.left) /\ rescan.count = Cardinality(rescan.left)
    BY <1>1, <2>1, <2>2 DEF Tidy, AddsUp
  <2>4. rescan.book \in DOMAIN books /\ \A c \in chapters : c.book = rescan.book
    BY <1>1, <2>1 DEF Tidy, OneBook
  <2>5. Cardinality(rescan.left) \in Nat
    BY <1>2, FS_CardinalityType DEF Works
  <2> QED
    BY <2>1, <2>2, <2>3, <2>4, <2>5
<1>4. CASE Books!Deletable(rescan.book)
  <2>1. /\ chapters' = chapters \ Books!Of(rescan.book)
        /\ rescan' = [rescan EXCEPT !.at = "fill"]
    BY <1>4 DEF Books!RescanClear
  <2>2. BookTypes'
    <3>1. IsFiniteSet(chapters')
      BY <1>2, <2>1, FS_Subset DEF BookTypes
    <3> QED
      BY <1>1, <1>2, <2>1, <3>1 DEF BookTypes
  <2>3. /\ rescan'.at = "fill" /\ rescan'.book = rescan.book /\ rescan'.left = rescan.left
        /\ rescan'.count = rescan.count
    BY <1>2, <2>1 DEF Works
  <2>4. OperationTypes'
    <3>1. Works(rescan, {"clear", "fill"})'
      BY <1>1, <1>2, <2>1 DEF Works
    <3> QED
      BY <1>1, <1>2, <2>3, <3>1 DEF OperationTypes, Works
  <2>5. IdsDiffer' /\ RescanIds' /\ Books!ProgressIsKept'
    <3>1. IdsDiffer' /\ Books!ProgressIsKept'
      BY <1>1, <1>2, <1>4, <2>1, DeleteKeeps
    <3> QED
      BY <1>2, <2>1, <2>3, <3>1 DEF RescanIds
  <2>6. ASSUME ~disturbed' PROVE Tidy'
    <3>1. chapters' = {} /\ Cardinality(chapters') = 0
      BY <1>1, <1>3, <2>1, <2>6, FS_EmptySet DEF Books!Of
    <3>2. OneAtATime'
      BY <1>1, <1>3, <2>6 DEF OneAtATime
    <3>3. OneBook'
      BY <1>1, <1>3, <2>3, <2>6, <3>1 DEF Tidy, OneBook
    <3>4. AddsUp'
      BY <1>1, <1>3, <2>3, <2>6, <3>1 DEF AddsUp
    <3> QED
      BY <3>2, <3>3, <3>4 DEF Tidy
  <2> QED
    BY <2>2, <2>4, <2>5, <2>6 DEF BooksInv
<1>5. CASE ~Books!Deletable(rescan.book)
  <2>1. chapters' = chapters /\ rescan' = Books!Idle /\ rescan'.at = "idle" /\ rescan'.left = {}
    BY <1>5, IdleIsIdle DEF Books!RescanClear
  <2>2. BookTypes'
    BY <1>1, <1>2, <2>1 DEF BookTypes
  <2>3. OperationTypes'
    BY <1>1, <1>2, <2>1, EndedTypes
  <2>4. IdsDiffer' /\ RescanIds' /\ Books!ProgressIsKept'
    BY <1>1, <1>2, <2>1, SameRows DEF RescanIds
  <2>5. ASSUME ~disturbed' PROVE Tidy'
    <3>1. OneAtATime'
      BY <1>1, <1>3, <2>1, <2>5 DEF OneAtATime
    <3>2. OneBook'
      BY <1>1, <1>3, <2>1, <2>5 DEF Tidy, OneBook
    <3>3. AddsUp'
      BY <1>1, <1>3, <2>1, <2>5 DEF AddsUp
    <3> QED
      BY <3>1, <3>2, <3>3 DEF Tidy
  <2> QED
    BY <2>2, <2>3, <2>4, <2>5 DEF BooksInv
<1> QED
  BY <1>4, <1>5

LEMMA RescanFillKeeps ==
    ASSUME BooksInv, NEW p \in rescan.left, Books!RescanFill(p)
    PROVE  BooksInv'
<1>1. /\ rescan.at = "fill" /\ rescan' = [rescan EXCEPT !.left = @ \ {p}]
      /\ UNCHANGED <<exists, bookFiles, progress, made, begun, turns, failures, scan, edit, purge,
                     disturbed, deleted, strayed>>
  BY DEF Books!RescanFill, Books!outside, Books!history
<1>2. /\ BookTypes /\ OperationTypes /\ IdsDiffer /\ RescanIds /\ Books!ProgressIsKept
      /\ Works(rescan, {"clear", "fill"})
  BY DEF BooksInv, OperationTypes
<1>3. PICK id \in IF p.id = 0 THEN Books!FreshIds ELSE {p.id} :
         Books!PutChapter(rescan.book, p.file, id)
  BY DEF Books!RescanFill
<1>4. /\ p.file \in Files /\ p.id \in 0 .. MaxChapters
      /\ IsFiniteSet(rescan.left \ {p})
      /\ Cardinality(rescan.left \ {p}) = Cardinality(rescan.left) - 1
      /\ Cardinality(rescan.left) \in Nat
  BY <1>2, FS_RemoveElement, FS_CardinalityType DEF Works, Books!Plan
<1>5. /\ id \in 1 .. MaxChapters
      /\ \A c \in chapters : c.id = id => c.book = rescan.book
      /\ p.id = 0 => /\ \A c \in chapters : c.id # id
                     /\ \A q \in rescan.left : q.id # id
      /\ p.id # 0 => id = p.id
  <2>1. CASE p.id = 0
    BY <1>3, <2>1, FreshIsNew
  <2>2. CASE p.id # 0
    BY <1>2, <1>3, <1>4, <2>2, BooksFacts DEF RescanIds
  <2> QED
    BY <2>1, <2>2
<1>6. BookTypes'
  BY <1>1, <1>2, <1>3, <1>4, <1>5, PutTypes DEF BookTypes
<1>7. /\ rescan'.at = "fill" /\ rescan'.book = rescan.book /\ rescan'.left = rescan.left \ {p}
      /\ rescan'.count = rescan.count
  BY <1>1, <1>2 DEF Works
<1>8. OperationTypes'
  <2>1. Works(rescan, {"clear", "fill"})'
    <3> DEFINE left == rescan.left \ {p}
    <3>1. left \in SUBSET Books!Plan /\ IsFiniteSet(left)
      BY <1>2, <1>4 DEF Works
    <3>2. rescan' = [rescan EXCEPT !.left = left]
      BY <1>1
    <3> HIDE DEF left
    <3> QED
      BY <1>1, <1>2, <3>1, <3>2 DEF Works
  <2> QED
    BY <1>1, <1>2, <1>7, <2>1 DEF OperationTypes, Works
<1>9. IdsDiffer' /\ Books!ProgressIsKept'
  BY <1>1, <1>2, <1>3, <1>5, PutKeeps
<1>10. RescanIds'
  <2>1. chapters' = {c \in chapters : c.id # id}
                       \cup {[id |-> id, book |-> rescan.book, file |-> p.file]}
    BY <1>3 DEF Books!PutChapter
  <2> QED
    BY <1>2, <1>7, <2>1 DEF RescanIds
<1>11. ASSUME ~disturbed' PROVE Tidy'
  <2>1. Tidy
    BY <1>1, <1>11 DEF BooksInv
  <2>2. /\ scan.at = "idle" /\ edit.at = "idle" /\ purge.at = "idle"
        /\ rescan.count = Cardinality(rescan.left) + Cardinality(chapters)
        /\ Distinct(rescan.left)
        /\ \A q \in rescan.left, c \in chapters : q.file # c.file /\ q.id # c.id
    BY <1>1, <2>1 DEF Tidy, OneAtATime, AddsUp
  <2>3. \A c \in chapters : c.id # id /\ c.file # p.file
    BY <1>5, <2>2
  <2>4. /\ chapters' = chapters \cup {[id |-> id, book |-> rescan.book, file |-> p.file]}
        /\ DOMAIN books' = DOMAIN books
        /\ Cardinality(chapters') = Cardinality(chapters) + 1
        /\ Cardinality(chapters) \in Nat
        /\ \A c, d \in chapters' : c.file = d.file => c = d
        /\ \A c \in chapters' : c.book \in DOMAIN books
    BY <1>2, <1>3, <2>1, <2>3, PutAddsUp DEF Tidy
  <2>5. OneAtATime'
    BY <1>1, <2>2 DEF OneAtATime
  <2>6. OneBook'
    <3>1. rescan'.book \in DOMAIN books'
      BY <1>1, <1>7, <2>1, <2>4 DEF Tidy, OneBook
    <3> QED
      BY <1>1, <2>1, <2>2, <2>4, <3>1 DEF Tidy, OneBook
  <2>7. rescan'.count = Cardinality(rescan'.left) + Cardinality(chapters')
    BY <1>4, <1>7, <2>2, <2>4
  <2>8. Distinct(rescan'.left)
    BY <1>7, <2>2 DEF Distinct
  <2>9. \A q \in rescan'.left, c \in chapters' : q.file # c.file /\ q.id # c.id
    <3> SUFFICES ASSUME NEW q \in rescan.left, q # p PROVE q.file # p.file /\ q.id # id
      BY <1>7, <2>2, <2>4
    <3>1. q.file # p.file /\ (q.id = p.id => q.id = 0)
      BY <2>2 DEF Distinct
    <3>2. CASE p.id = 0
      BY <1>5, <3>1, <3>2
    <3>3. CASE p.id # 0
      BY <1>5, <3>1, <3>3
    <3> QED
      BY <3>2, <3>3
  <2>10. AddsUp'
    BY <1>1, <1>7, <2>2, <2>7, <2>8, <2>9 DEF AddsUp
  <2> QED
    BY <2>5, <2>6, <2>10 DEF Tidy
<1> QED
  BY <1>6, <1>8, <1>9, <1>10, <1>11 DEF BooksInv

LEMMA RescanPutKeeps == BooksInv /\ Books!RescanPut => BooksInv'
<1> SUFFICES ASSUME BooksInv, Books!RescanPut PROVE BooksInv'
  OBVIOUS
<1>1. /\ rescan.at = "fill" /\ rescan.left = {} /\ rescan' = Books!Idle
      /\ Books!Put(rescan.book, rescan.count)
      /\ UNCHANGED <<exists, bookFiles, chapters, progress, made, begun, turns, failures, scan, edit,
                     purge, disturbed, deleted, strayed>>
      /\ rescan'.at = "idle" /\ rescan'.left = {}
  BY IdleIsIdle DEF Books!RescanPut, Books!outside, Books!history
<1>2. /\ BookTypes /\ OperationTypes /\ IdsDiffer /\ RescanIds /\ Books!ProgressIsKept
      /\ rescan.book \in 1 .. made /\ rescan.count \in Nat
  BY <1>1 DEF BooksInv, OperationTypes, Works
<1>3. BookTypes'
  BY <1>1, <1>2, PutCountTypes DEF BookTypes
<1>4. OperationTypes'
  BY <1>1, <1>2, EndedTypes
<1>5. IdsDiffer' /\ RescanIds' /\ Books!ProgressIsKept'
  BY <1>1, <1>2, SameRows DEF RescanIds
<1>6. ASSUME ~disturbed' PROVE Tidy'
  <2>1. Tidy
    BY <1>1, <1>6 DEF BooksInv
  <2>2. /\ scan.at = "idle" /\ edit.at = "idle" /\ purge.at = "idle"
        /\ rescan.count = Cardinality(rescan.left) + Cardinality(chapters)
        /\ DOMAIN books = {rescan.book}
    BY <1>1, <2>1 DEF Tidy, OneAtATime, AddsUp, OneBook
  <2>3. rescan.count = Cardinality(chapters)
    <3>1. Cardinality(rescan.left) = 0 /\ Cardinality(chapters) \in Nat
      BY <1>1, <1>2, FS_EmptySet, FS_CardinalityType DEF BookTypes
    <3> QED
      BY <2>2, <3>1
  <2>4. DOMAIN books' = DOMAIN books /\ \A x \in DOMAIN books' : books'[x] = Cardinality(chapters)
    BY <1>1, <2>2, <2>3 DEF Books!Put
  <2>5. OneAtATime'
    BY <1>1, <2>2 DEF OneAtATime
  <2>6. OneBook'
    BY <1>1, <2>1, <2>2, <2>4 DEF Tidy, OneBook
  <2>7. AddsUp'
    BY <1>1, <2>2, <2>4 DEF AddsUp
  <2> QED
    BY <2>5, <2>6, <2>7 DEF Tidy
<1> QED
  BY <1>3, <1>4, <1>5, <1>6 DEF BooksInv

LEMMA RescanFailsKeeps == BooksInv /\ Books!RescanFails => BooksInv'
<1> SUFFICES ASSUME BooksInv, Books!RescanFails PROVE BooksInv'
  OBVIOUS
<1>1. /\ rescan' = Books!Idle /\ disturbed' = TRUE /\ rescan'.left = {}
      /\ Books!Fault \/ UNCHANGED failures
      /\ UNCHANGED <<exists, bookFiles, books, chapters, progress, made, begun, turns, scan, edit,
                     purge, deleted, strayed>>
  BY IdleIsIdle DEF Books!RescanFails, Books!outside, Books!rows
<1>2. BookTypes /\ OperationTypes /\ IdsDiffer /\ RescanIds /\ Books!ProgressIsKept
  BY DEF BooksInv
<1>3. BookTypes'
  BY <1>1, <1>2, BookFaultTypes, SameTypes DEF BookTypes
<1>4. OperationTypes'
  BY <1>1, <1>2, EndedTypes
<1>5. IdsDiffer' /\ RescanIds' /\ Books!ProgressIsKept'
  BY <1>1, <1>2, SameRows DEF RescanIds
<1> QED
  BY <1>1, <1>3, <1>4, <1>5 DEF BooksInv

-----------------------------------------------------------------------------
(* Audiobooks: editing and purging *)

LEMMA EditReadsKeeps ==
    ASSUME BooksInv, NEW b \in DOMAIN books, Books!EditReads(b)
    PROVE  BooksInv'
<1>1. /\ edit' = [at |-> "put", book |-> b, left |-> {}, count |-> books[b]]
      /\ UNCHANGED <<exists, bookFiles, books, chapters, progress, made, turns, failures, scan,
                     rescan, purge, deleted, strayed>>
  BY DEF Books!EditReads, Books!rows, Books!Idle
<1>2. BookTypes /\ OperationTypes /\ IdsDiffer /\ RescanIds /\ Books!ProgressIsKept
  BY DEF BooksInv
<1>3. /\ begun' \in 0 .. MaxRuns /\ disturbed' \in BOOLEAN
      /\ ~disturbed' => /\ ~disturbed
                        /\ scan.at = "idle" /\ rescan.at = "idle" /\ purge.at = "idle"
  BY <1>2, BeginTypes DEF Books!EditReads
<1>4. b \in 1 .. made' /\ b \in 1 .. MaxBooks /\ books[b] \in Nat
  BY <1>1, <1>2, BooksFacts DEF BookTypes
<1>5. BookTypes'
  BY <1>1, <1>2, <1>3 DEF BookTypes
<1>6. OperationTypes'
  <2>1. Works(edit, {"put"})'
    <3> DEFINE places == {"put"}
    <3>1. "put" \in places
      OBVIOUS
    <3> HIDE DEF places
    <3>2. /\ edit' \in [at : {"idle"} \cup places, book : 0 .. MaxBooks, left : SUBSET Books!Plan,
                         count : Nat]
          /\ IsFiniteSet(edit'.left) /\ edit'.book \in 1 .. made'
      BY <1>1, <1>4, <3>1, BegunWorks
    <3> QED
      BY <3>2 DEF Works, places
  <2> QED
    BY <1>1, <1>2, <2>1 DEF OperationTypes, Works
<1>7. IdsDiffer' /\ RescanIds' /\ Books!ProgressIsKept'
  BY <1>1, <1>2, SameRows DEF RescanIds
<1>8. ASSUME ~disturbed' PROVE Tidy'
  <2>1. Tidy /\ scan.at = "idle" /\ rescan.at = "idle" /\ purge.at = "idle"
    BY <1>3, <1>8 DEF BooksInv
  <2>2. edit'.at = "put" /\ edit'.count = books[b] /\ edit'.book = b
    BY <1>1
  <2>3. \A x \in DOMAIN books : books[x] = Cardinality(chapters)
    BY <2>1 DEF Tidy, AddsUp
  <2>4. OneAtATime'
    BY <1>1, <2>1 DEF OneAtATime
  <2>5. OneBook'
    BY <1>1, <2>1, <2>2 DEF Tidy, OneBook
  <2>6. AddsUp'
    BY <1>1, <2>1, <2>2, <2>3 DEF AddsUp
  <2> QED
    BY <2>4, <2>5, <2>6 DEF Tidy
<1> QED
  BY <1>5, <1>6, <1>7, <1>8 DEF BooksInv

LEMMA EditWritesKeeps == BooksInv /\ Books!EditWrites => BooksInv'
<1> SUFFICES ASSUME BooksInv, Books!EditWrites PROVE BooksInv'
  OBVIOUS
<1>1. /\ edit.at = "put" /\ edit' = Books!Idle /\ Books!Put(edit.book, edit.count)
      /\ UNCHANGED <<exists, bookFiles, chapters, progress, made, begun, turns, failures, scan,
                     rescan, purge, disturbed, deleted, strayed>>
      /\ edit'.at = "idle"
  BY IdleIsIdle DEF Books!EditWrites, Books!outside, Books!history
<1>2. /\ BookTypes /\ OperationTypes /\ IdsDiffer /\ RescanIds /\ Books!ProgressIsKept
      /\ edit.book \in 1 .. made /\ edit.count \in Nat
  BY <1>1 DEF BooksInv, OperationTypes, Works
<1>3. BookTypes'
  BY <1>1, <1>2, PutCountTypes DEF BookTypes
<1>4. OperationTypes'
  BY <1>1, <1>2, EndedTypes
<1>5. IdsDiffer' /\ RescanIds' /\ Books!ProgressIsKept'
  BY <1>1, <1>2, SameRows DEF RescanIds
<1>6. ASSUME ~disturbed' PROVE Tidy'
  <2>1. Tidy
    BY <1>1, <1>6 DEF BooksInv
  <2>2. /\ scan.at = "idle" /\ rescan.at = "idle" /\ purge.at = "idle"
        /\ edit.book \in DOMAIN books /\ edit.count = books[edit.book]
        /\ \A x \in DOMAIN books : books[x] = Cardinality(chapters)
    BY <1>1, <2>1 DEF Tidy, OneAtATime, AddsUp, OneBook
  <2>3. DOMAIN books' = DOMAIN books /\ \A x \in DOMAIN books' : books'[x] = Cardinality(chapters)
    BY <1>1, <2>2 DEF Books!Put
  <2>4. OneAtATime'
    BY <1>1, <2>2 DEF OneAtATime
  <2>5. OneBook'
    BY <1>1, <2>1, <2>2, <2>3 DEF Tidy, OneBook
  <2>6. AddsUp'
    BY <1>1, <2>2, <2>3 DEF AddsUp
  <2> QED
    BY <2>4, <2>5, <2>6 DEF Tidy
<1> QED
  BY <1>3, <1>4, <1>5, <1>6 DEF BooksInv

LEMMA PurgeBeginsKeeps ==
    ASSUME BooksInv, NEW b \in DOMAIN books, Books!PurgeBegins(b)
    PROVE  BooksInv'
<1>1. /\ purge.at = "idle"
      /\ purge' = [at |-> "refs", book |-> b, left |-> {}, count |-> 0]
      /\ UNCHANGED <<exists, bookFiles, books, chapters, progress, made, turns, failures, scan,
                     rescan, edit, deleted, strayed>>
  BY DEF Books!PurgeBegins, Books!rows, Books!Idle
<1>2. BookTypes /\ OperationTypes /\ IdsDiffer /\ RescanIds /\ Books!ProgressIsKept
  BY DEF BooksInv
<1>3. /\ begun' \in 0 .. MaxRuns /\ disturbed' \in BOOLEAN
      /\ ~disturbed' => /\ ~disturbed
                        /\ scan.at = "idle" /\ rescan.at = "idle" /\ edit.at = "idle"
  BY <1>2, BeginTypes DEF Books!PurgeBegins
<1>4. b \in 1 .. made' /\ b \in 1 .. MaxBooks
  BY <1>1, <1>2, BooksFacts DEF BookTypes
<1>5. BookTypes'
  BY <1>1, <1>2, <1>3 DEF BookTypes
<1>6. OperationTypes'
  <2>1. Works(purge, {"refs", "chapters", "book"})'
    <3> DEFINE places == {"refs", "chapters", "book"}
    <3>1. "refs" \in places /\ 0 \in Nat
      OBVIOUS
    <3> HIDE DEF places
    <3>2. /\ purge' \in [at : {"idle"} \cup places, book : 0 .. MaxBooks, left : SUBSET Books!Plan,
                         count : Nat]
          /\ IsFiniteSet(purge'.left) /\ purge'.book \in 1 .. made'
      BY <1>1, <1>4, <3>1, BegunWorks
    <3> QED
      BY <3>2 DEF Works, places
  <2> QED
    BY <1>1, <1>2, <2>1 DEF OperationTypes, Works
<1>7. IdsDiffer' /\ RescanIds' /\ Books!ProgressIsKept'
  BY <1>1, <1>2, SameRows DEF RescanIds
<1>8. ASSUME ~disturbed' PROVE Tidy'
  <2>1. Tidy /\ scan.at = "idle" /\ rescan.at = "idle" /\ edit.at = "idle"
    BY <1>3, <1>8 DEF BooksInv
  <2>2. purge'.at = "refs" /\ purge'.book = b
    BY <1>1
  <2>3. \A x \in DOMAIN books : books[x] = Cardinality(chapters)
    BY <1>1, <2>1 DEF Tidy, AddsUp
  <2>4. OneAtATime'
    BY <1>1, <2>1 DEF OneAtATime
  <2>5. OneBook'
    BY <1>1, <2>1, <2>2 DEF Tidy, OneBook
  <2>6. AddsUp'
    BY <1>1, <2>1, <2>2, <2>3 DEF AddsUp
  <2> QED
    BY <2>4, <2>5, <2>6 DEF Tidy
<1> QED
  BY <1>5, <1>6, <1>7, <1>8 DEF BooksInv

\* A purge that goes on to its next statement.
LEMMA PurgesOn ==
    ASSUME OperationTypes, NEW place \in {"refs", "chapters", "book"}, purge.at # "idle",
           purge' = [purge EXCEPT !.at = place], UNCHANGED <<made, scan, rescan, edit>>
    PROVE  OperationTypes' /\ purge'.at = place /\ purge'.book = purge.book
<1>1. Works(purge, {"refs", "chapters", "book"})
  BY DEF OperationTypes
<1>2. purge'.at = place /\ purge'.book = purge.book
  BY <1>1 DEF Works
<1>3. Works(purge, {"refs", "chapters", "book"})'
  BY <1>1 DEF Works
<1> QED
  BY <1>2, <1>3 DEF OperationTypes, Works

LEMMA PurgeRefsKeeps == BooksInv /\ Books!PurgeRefs => BooksInv'
<1> SUFFICES ASSUME BooksInv, Books!PurgeRefs PROVE BooksInv'
  OBVIOUS
<1>1. /\ purge.at = "refs" /\ purge' = [purge EXCEPT !.at = "chapters"]
      /\ progress' \in [Books!Ids -> 0 .. MaxChapters]
      /\ \A u \in Books!Ids : progress'[u] \in {0, progress[u]}
      /\ UNCHANGED <<exists, bookFiles, books, chapters, made, begun, turns, failures, scan,
                     rescan, edit, disturbed, deleted, strayed>>
  <2>1. \A u \in Books!Ids : progress[u] \in 0 .. MaxChapters /\ 0 \in 0 .. MaxChapters
    BY BooksFacts DEF BooksInv, BookTypes
  <2> QED
    BY <2>1 DEF Books!PurgeRefs, Books!outside, Books!history
<1>2. BookTypes /\ OperationTypes /\ IdsDiffer /\ RescanIds /\ Books!ProgressIsKept
  BY DEF BooksInv
<1>3. BookTypes'
  BY <1>1, <1>2 DEF BookTypes
<1>4. OperationTypes' /\ purge'.at = "chapters" /\ purge'.book = purge.book
  BY <1>1, <1>2, PurgesOn
<1>5. IdsDiffer' /\ RescanIds'
  BY <1>1, <1>2 DEF IdsDiffer, RescanIds
<1>6. Books!ProgressIsKept'
  BY <1>1, <1>2 DEF Books!ProgressIsKept, Books!Of
<1>7. ASSUME ~disturbed' PROVE Tidy'
  <2>1. Tidy
    BY <1>1, <1>7 DEF BooksInv
  <2>2. /\ scan.at = "idle" /\ rescan.at = "idle" /\ edit.at = "idle"
        /\ \A x \in DOMAIN books : books[x] = Cardinality(chapters)
    BY <1>1, <2>1 DEF Tidy, OneAtATime, AddsUp
  <2>3. OneAtATime'
    BY <1>1, <2>2 DEF OneAtATime
  <2>4. OneBook'
    BY <1>1, <1>4, <2>1, <2>2 DEF Tidy, OneBook
  <2>5. AddsUp'
    BY <1>1, <1>4, <2>2 DEF AddsUp
  <2> QED
    BY <2>3, <2>4, <2>5 DEF Tidy
<1> QED
  BY <1>3, <1>4, <1>5, <1>6, <1>7 DEF BooksInv

LEMMA PurgeChaptersKeeps == BooksInv /\ Books!PurgeChapters => BooksInv'
<1> SUFFICES ASSUME BooksInv, Books!PurgeChapters PROVE BooksInv'
  OBVIOUS
<1>1. /\ purge.at = "chapters"
      /\ UNCHANGED <<exists, bookFiles, books, progress, made, begun, turns, failures, scan,
                     rescan, edit, disturbed, deleted, strayed>>
  BY DEF Books!PurgeChapters, Books!outside, Books!history
<1>2. BookTypes /\ OperationTypes /\ IdsDiffer /\ RescanIds /\ Books!ProgressIsKept
  BY DEF BooksInv
<1>3. ASSUME ~disturbed
      PROVE  /\ Tidy /\ scan.at = "idle" /\ rescan.at = "idle" /\ edit.at = "idle"
             /\ \A x \in DOMAIN books : books[x] = Cardinality(chapters)
             /\ \A c \in chapters : c.book = purge.book
             /\ purge.book \in DOMAIN books
  BY <1>1, <1>3 DEF BooksInv, Tidy, OneAtATime, AddsUp, OneBook
<1>4. CASE Books!Deletable(purge.book)
  <2>1. /\ chapters' = chapters \ Books!Of(purge.book) /\ chapters' \subseteq chapters
        /\ purge' = [purge EXCEPT !.at = "book"]
    BY <1>4 DEF Books!PurgeChapters
  <2>2. BookTypes'
    <3>1. IsFiniteSet(chapters')
      BY <1>2, <2>1, FS_Subset DEF BookTypes
    <3> QED
      BY <1>1, <1>2, <2>1, <3>1 DEF BookTypes
  <2>3. OperationTypes' /\ purge'.at = "book" /\ purge'.book = purge.book
    BY <1>1, <1>2, <2>1, PurgesOn
  <2>4. IdsDiffer' /\ RescanIds' /\ Books!ProgressIsKept'
    <3>1. IdsDiffer' /\ Books!ProgressIsKept'
      BY <1>1, <1>2, <1>4, <2>1, DeleteKeeps
    <3> QED
      BY <1>1, <1>2, <2>1, <3>1 DEF RescanIds
  <2>5. ASSUME ~disturbed' PROVE Tidy'
    <3>1. chapters' = {}
      BY <1>1, <1>3, <2>1, <2>5 DEF Books!Of
    <3>2. OneAtATime'
      BY <1>1, <1>3, <2>5 DEF OneAtATime
    <3>3. OneBook'
      BY <1>1, <1>3, <2>3, <2>5, <3>1 DEF Tidy, OneBook
    <3>4. AddsUp'
      BY <1>1, <1>3, <2>3, <2>5, <3>1 DEF AddsUp
    <3> QED
      BY <3>2, <3>3, <3>4 DEF Tidy
  <2> QED
    BY <2>2, <2>3, <2>4, <2>5 DEF BooksInv
<1>5. CASE ~Books!Deletable(purge.book)
  <2>1. chapters' = chapters /\ purge' = Books!Idle /\ purge'.at = "idle"
    BY <1>5, IdleIsIdle DEF Books!PurgeChapters
  <2>2. BookTypes'
    BY <1>1, <1>2, <2>1 DEF BookTypes
  <2>3. OperationTypes'
    BY <1>1, <1>2, <2>1, EndedTypes
  <2>4. IdsDiffer' /\ RescanIds' /\ Books!ProgressIsKept'
    BY <1>1, <1>2, <2>1, SameRows DEF RescanIds
  <2>5. ASSUME ~disturbed' PROVE Tidy'
    <3>1. OneAtATime'
      BY <1>1, <1>3, <2>1, <2>5 DEF OneAtATime
    <3>2. OneBook'
      BY <1>1, <1>3, <2>1, <2>5 DEF Tidy, OneBook
    <3>3. AddsUp'
      BY <1>1, <1>3, <2>1, <2>5 DEF AddsUp
    <3> QED
      BY <3>1, <3>2, <3>3 DEF Tidy
  <2> QED
    BY <2>2, <2>3, <2>4, <2>5 DEF BooksInv
<1> QED
  BY <1>4, <1>5

LEMMA PurgeBookKeeps == BooksInv /\ Books!PurgeBook => BooksInv'
<1> SUFFICES ASSUME BooksInv, Books!PurgeBook PROVE BooksInv'
  OBVIOUS
<1> DEFINE b == purge.book
           Blocked == \E c \in Books!Of(b), u \in Books!Ids \ {b} : progress[u] = c.id
<1>1. /\ purge.at = "book" /\ purge' = Books!Idle /\ purge'.at = "idle"
      /\ UNCHANGED <<exists, bookFiles, made, begun, turns, failures, scan, rescan, edit, disturbed,
                     strayed>>
  BY IdleIsIdle DEF Books!PurgeBook, Books!outside
<1>2. /\ BookTypes /\ OperationTypes /\ IdsDiffer /\ RescanIds /\ Books!ProgressIsKept
      /\ b \in 1 .. made
  BY <1>1 DEF BooksInv, OperationTypes, Works
<1>3. OperationTypes'
  BY <1>1, <1>2, EndedTypes
<1>4. ASSUME ~disturbed'
      PROVE  /\ Tidy /\ scan.at = "idle" /\ rescan.at = "idle" /\ edit.at = "idle"
             /\ DOMAIN books = {b} /\ chapters = {}
  BY <1>1, <1>4 DEF BooksInv, Tidy, OneAtATime, AddsUp, OneBook
<1>5. CASE Blocked
  <2>1. UNCHANGED <<books, chapters, progress, deleted>>
    BY <1>5 DEF Books!PurgeBook
  <2>2. BookTypes'
    BY <1>1, <1>2, <2>1 DEF BookTypes
  <2>3. IdsDiffer' /\ RescanIds' /\ Books!ProgressIsKept'
    BY <1>1, <1>2, <2>1, SameRows DEF RescanIds
  <2>4. disturbed'
    BY <1>4, <1>5 DEF Books!Of
  <2> QED
    BY <1>3, <2>2, <2>3, <2>4 DEF BooksInv
<1>6. CASE ~Blocked
  <2>1. /\ books' = [x \in DOMAIN books \ {b} |-> books[x]]
        /\ chapters' = chapters \ Books!Of(b)
        /\ progress' = [progress EXCEPT ![b] = 0]
        /\ deleted' = deleted \cup {b}
    BY <1>6 DEF Books!PurgeBook
  <2>2. DOMAIN books' = DOMAIN books \ {b} /\ \A x \in DOMAIN books' : books'[x] = books[x]
    BY <2>1
  <2> HIDE DEF b
  <2>3. /\ b \in Books!Ids /\ progress' \in [Books!Ids -> 0 .. MaxChapters]
        /\ progress'[b] = 0 /\ \A u \in Books!Ids \ {b} : progress'[u] = progress[u]
    BY <1>1, <1>2, <2>1, BooksFacts DEF BookTypes
  <2>4. BookTypes'
    <3>1. chapters' \subseteq chapters /\ IsFiniteSet(chapters')
      BY <1>2, <2>1, FS_Subset DEF BookTypes
    <3> QED
      BY <1>1, <1>2, <2>1, <2>2, <2>3, <3>1 DEF BookTypes
  <2>5. IdsDiffer' /\ RescanIds'
    BY <1>1, <1>2, <2>1 DEF IdsDiffer, RescanIds
  <2>6. Books!ProgressIsKept'
    <3> SUFFICES ASSUME NEW u \in Books!Ids, progress'[u] # 0
                 PROVE  \E c \in chapters' : c.id = progress'[u] /\ (u \notin strayed => c.book = u)
      BY <1>1 DEF Books!ProgressIsKept
    <3>1. u # b /\ progress'[u] = progress[u]
      BY <2>3
    <3>2. PICK c \in chapters : c.id = progress[u] /\ (u \notin strayed => c.book = u)
      BY <1>2, <3>1 DEF Books!ProgressIsKept
    <3>3. c \in chapters'
      BY <1>6, <2>1, <3>1, <3>2
    <3> QED
      BY <3>1, <3>2, <3>3
  <2>7. ASSUME ~disturbed' PROVE Tidy'
    <3>1. DOMAIN books' = {} /\ chapters' = {}
      BY <1>4, <2>1, <2>2, <2>7
    <3>2. OneAtATime'
      BY <1>1, <1>4, <2>7 DEF OneAtATime
    <3>3. OneBook'
      BY <1>1, <1>4, <2>7, <3>1 DEF OneBook
    <3>4. AddsUp'
      BY <1>1, <1>4, <2>7, <3>1 DEF AddsUp
    <3> QED
      BY <3>2, <3>3, <3>4 DEF Tidy
  <2> QED
    BY <1>3, <2>4, <2>5, <2>6, <2>7 DEF BooksInv
<1> QED
  BY <1>5, <1>6

LEMMA CrashKeeps == BooksInv /\ Books!Crash => BooksInv'
<1> SUFFICES ASSUME BooksInv, Books!Crash PROVE BooksInv'
  OBVIOUS
<1>1. /\ scan' = Books!Idle /\ rescan' = Books!Idle /\ edit' = Books!Idle /\ purge' = Books!Idle
      /\ rescan'.left = {} /\ disturbed' = TRUE /\ Books!Fault
      /\ UNCHANGED <<exists, bookFiles, books, chapters, progress, made, begun, turns, deleted, strayed>>
  BY IdleIsIdle DEF Books!Crash, Books!outside, Books!rows
<1>2. BookTypes /\ OperationTypes /\ IdsDiffer /\ RescanIds /\ Books!ProgressIsKept
  BY DEF BooksInv
<1>3. BookTypes'
  BY <1>1, <1>2, BookFaultTypes, SameTypes DEF BookTypes
<1>4. OperationTypes'
  BY <1>1, <1>2, EndedTypes
<1>5. IdsDiffer' /\ RescanIds' /\ Books!ProgressIsKept'
  BY <1>1, <1>2, SameRows DEF RescanIds
<1> QED
  BY <1>1, <1>3, <1>4, <1>5 DEF BooksInv

-----------------------------------------------------------------------------
(* Audiobooks: every step *)

LEMMA InitBooks == Books!Init => BooksInv
<1> SUFFICES ASSUME Books!Init PROVE BooksInv
  OBVIOUS
<1>1. /\ exists \in BOOLEAN /\ bookFiles \in SUBSET Files /\ (bookFiles # {} => exists)
      /\ DOMAIN books = {} /\ chapters = {} /\ progress = [b \in Books!Ids |-> 0]
      /\ made = 0 /\ begun = 0 /\ turns = 0 /\ failures = 0
      /\ scan = Books!Idle /\ rescan = Books!Idle /\ edit = Books!Idle /\ purge = Books!Idle
      /\ disturbed = FALSE /\ deleted = {} /\ strayed = {}
  BY DEF Books!Init
<1>2. /\ scan.at = "idle" /\ rescan.at = "idle" /\ edit.at = "idle" /\ purge.at = "idle"
      /\ rescan.left = {}
  BY <1>1, IdleIsIdle
<1>3. BookTypes
  <2>1. /\ 0 \in 0 .. MaxBooks /\ 0 \in 0 .. MaxRuns /\ 0 \in 0 .. MaxChanges
        /\ 0 \in 0 .. MaxBookFaults /\ 0 \in 0 .. MaxChapters
    BY BooksFacts
  <2>2. progress \in [Books!Ids -> 0 .. MaxChapters]
    BY <1>1, <2>1
  <2>3. disturbed \in BOOLEAN /\ IsFiniteSet(chapters)
    BY <1>1, FS_EmptySet
  <2> QED
    BY <1>1, <2>1, <2>2, <2>3 DEF BookTypes
<1>4. OperationTypes
  BY <1>1, <1>2, IdleWorks DEF OperationTypes
<1>5. IdsDiffer /\ RescanIds /\ Books!ProgressIsKept
  BY <1>1, <1>2 DEF IdsDiffer, RescanIds, Books!ProgressIsKept
<1>6. Tidy
  BY <1>1, <1>2 DEF Tidy, OneAtATime, OneBook, AddsUp
<1> QED
  BY <1>3, <1>4, <1>5, <1>6 DEF BooksInv

LEMMA NextBooks == BooksInv /\ [Books!Next]_bookVars => BooksInv'
<1> SUFFICES ASSUME BooksInv, [Books!Next]_bookVars PROVE BooksInv'
  OBVIOUS
<1>1. CASE Books!Change \/ Books!Crash
  BY <1>1, ChangeKeeps, CrashKeeps
<1>2. ASSUME NEW b \in DOMAIN books,
             Books!ScanKnown(b) \/ Books!RescanBuild(b) \/ Books!EditReads(b) \/ Books!PurgeBegins(b)
      PROVE  BooksInv'
  BY <1>2, ScanKnownKeeps, RescanBuildKeeps, EditReadsKeeps, PurgeBeginsKeeps
<1>3. ASSUME NEW b \in DOMAIN books, NEW c \in chapters, Books!SaveProgress(b, c)
      PROVE  BooksInv'
  BY <1>3, SaveProgressKeeps
<1>4. CASE Books!ScanNew \/ Books!ScanClear \/ Books!ScanPut \/ \E p \in scan.left : Books!ScanFill(p)
  BY <1>4, ScanNewKeeps, ScanClearKeeps, ScanPutKeeps, ScanFillKeeps
<1>5. CASE Books!RescanClear \/ Books!RescanPut \/ Books!RescanFails
             \/ \E p \in rescan.left : Books!RescanFill(p)
  BY <1>5, RescanClearKeeps, RescanPutKeeps, RescanFailsKeeps, RescanFillKeeps
<1>6. CASE Books!EditWrites \/ Books!PurgeRefs \/ Books!PurgeChapters \/ Books!PurgeBook
  BY <1>6, EditWritesKeeps, PurgeRefsKeeps, PurgeChaptersKeeps, PurgeBookKeeps
<1>7. CASE UNCHANGED bookVars
  <2> USE <1>7 DEF bookVars
  <2>1. BookTypes'
    BY DEF BooksInv, BookTypes
  <2>2. OperationTypes'
    BY DEF BooksInv, OperationTypes, Works
  <2>3. IdsDiffer' /\ RescanIds' /\ Books!ProgressIsKept'
    BY SameRows DEF BooksInv, RescanIds
  <2>4. disturbed' \/ Tidy'
    BY DEF BooksInv, Tidy, OneAtATime, OneBook, AddsUp
  <2> QED
    BY <2>1, <2>2, <2>3, <2>4 DEF BooksInv
<1> QED
  BY <1>1, <1>2, <1>3, <1>4, <1>5, <1>6, <1>7 DEF Books!Next

LEMMA BooksInvTyped == BooksInv => Books!TypeOK
<1> SUFFICES ASSUME BooksInv PROVE Books!TypeOK
  OBVIOUS
<1>1. 1 .. made \subseteq Books!Ids
  BY BooksFacts DEF BooksInv, BookTypes
<1>2. scan \in Books!Operation /\ rescan \in Books!Operation
  BY DEF BooksInv, OperationTypes, Works, Books!Operation
<1>3. edit \in Books!Operation
  BY DEF BooksInv, OperationTypes, Works, Books!Operation
<1>4. purge \in Books!Operation
  BY DEF BooksInv, OperationTypes, Works, Books!Operation
<1>5. chapters \subseteq [id : 1 .. MaxChapters, book : Books!Ids, file : Files]
  BY <1>1 DEF BooksInv, BookTypes
<1> QED
  BY <1>1, <1>2, <1>3, <1>4, <1>5 DEF BooksInv, BookTypes, Books!TypeOK

LEMMA BooksInvWhole == BooksInv => Books!BooksAreWhole /\ Books!PurgedIsGone
<1> SUFFICES ASSUME BooksInv PROVE Books!BooksAreWhole /\ Books!PurgedIsGone
  OBVIOUS
<1>1. ASSUME ~disturbed, Books!Quiet
      PROVE  /\ \A b \in DOMAIN books : books[b] = Cardinality(Books!Of(b))
             /\ \A c, d \in chapters : c.file = d.file => c = d
  <2>1. Tidy /\ rescan.at = "idle" /\ purge.at = "idle"
    BY <1>1 DEF BooksInv, Books!Quiet
  <2>2. ASSUME NEW b \in DOMAIN books PROVE books[b] = Cardinality(Books!Of(b))
    <3>1. Books!Of(b) = chapters
      BY <2>1 DEF Tidy, OneBook, Books!Of
    <3> QED
      BY <2>1, <3>1 DEF Tidy, AddsUp
  <2> QED
    BY <2>1, <2>2 DEF Tidy, OneBook
<1>2. ~disturbed => deleted \cap DOMAIN books = {}
  BY DEF BooksInv, Tidy, OneBook
<1>3. Books!BooksAreWhole
  BY <1>1, BooksCardinality DEF Books!BooksAreWhole
<1> QED
  BY <1>2, <1>3 DEF Books!PurgedIsGone

LEMMA BooksHold == ScannerSpec => []BooksInv
<1>1. ScannerInit => BooksInv
  BY InitBooks DEF ScannerInit
<1>2. BooksInv /\ [ScannerNext]_<<component, vars, trackVars, bookVars>> => BooksInv'
  BY NextBooks DEF ScannerNext
<1> QED
  BY <1>1, <1>2, PTL DEF ScannerSpec

\* However scans, rescans, edits, purges and crashes (scanner/audiobook_scanner.go,
\* server/nativeapi/audiobook.go) meet, a listener's place exists, and is a chapter of the book
\* unless the request that saved it named one of another; and while
\* none has overlapped another or failed half way, a book counts its chapters, one for each
\* file, and a purged book stays away.
THEOREM BooksAreAlwaysKept == ScannerSpec => []BooksAreKept
<1>1. BooksInv => BooksAreKept
  BY BooksInvWhole DEF BooksAreKept, BooksInv
<1> QED
  BY <1>1, BooksHold, PTL

-----------------------------------------------------------------------------
(* Missing tracks: operators *)

LEMMA TracksFacts ==
    /\ MaxRows \in Nat /\ MaxTrackFaults \in Nat
    /\ Tracks!Ids = 1 .. MaxRows /\ Tracks!None = 0 /\ Tracks!New = 2
    /\ 0 \notin Tracks!Ids /\ Tracks!Ids \subseteq Nat /\ IsFiniteSet(Tracks!Ids)
    /\ \A s \in Scanned : /\ s \in Seq(Libraries)
                          /\ \A m, n \in DOMAIN s : s[m] = s[n] => m = n
<1>1. MaxRows \in Nat /\ MaxTrackFaults \in Nat
  BY ScannerAssumption DEF Tracks!TracksAssumption
<1>2. \A n \in Nat : IsFiniteSet(1 .. n)
  BY FS_Interval
<1>3. Tracks!Ids = 1 .. MaxRows /\ IsFiniteSet(Tracks!Ids) /\ 0 \notin 1 .. MaxRows
  BY <1>1, <1>2 DEF Tracks!Ids
<1>4. \A s \in Scanned : /\ s \in Seq(Libraries)
                         /\ \A m, n \in DOMAIN s : s[m] = s[n] => m = n
  BY ScannerAssumption DEF Tracks!TracksAssumption
<1> QED
  BY <1>1, <1>3, <1>4 DEF Tracks!None, Tracks!New

\* A sequence of all elements of a set, in some order.
LEMMA SeqOfSet ==
    ASSUME NEW S, IsFiniteSet(S), NEW s \in Tracks!SetToSeqs(S)
    PROVE  /\ s \in Seq(S)
           /\ \A x \in S : \E n \in DOMAIN s : s[n] = x
<1> DEFINE D == 1 .. Cardinality(S)
<1>1. s \in [D -> S] /\ \A i, j \in D : i # j => s[i] # s[j]
  BY DEF Tracks!SetToSeqs, Tracks!Cardinality, Cardinality
<1>2. Cardinality(S) \in Nat
  BY FS_CardinalityType
<1>3. s \in Seq(S)
  BY <1>1, <1>2
<1>4. \A n \in Nat : Cardinality(1 .. n) = n
  BY FS_Interval
<1>5. Cardinality(D) = Cardinality(S)
  BY <1>2, <1>4
<1> HIDE DEF D
<1>6. s \in Injection(D, S)
  BY <1>1, Fun_IsInj
<1>7. s \in Surjection(D, S)
  BY <1>5, <1>6, FS_Injection
<1> QED
  BY <1>1, <1>3, <1>7 DEF Surjection

LEMMA TailAt ==
    ASSUME NEW S, NEW s \in Seq(S), s # <<>>
    PROVE  /\ Tail(s) \in Seq(S) /\ Head(s) = s[1] /\ 1 \in DOMAIN s /\ Head(s) \in S
           /\ \A n \in DOMAIN Tail(s) : n + 1 \in DOMAIN s /\ Tail(s)[n] = s[n + 1] /\ n + 1 # 1
           /\ \A n \in DOMAIN s : n # 1 => n - 1 \in DOMAIN Tail(s) /\ Tail(s)[n - 1] = s[n]
OBVIOUS

LEMMA AppendAt ==
    ASSUME NEW S, NEW s \in Seq(S), NEW e \in S
    PROVE  /\ Append(s, e) \in Seq(S)
           /\ \A n \in DOMAIN Append(s, e) : \/ n \in DOMAIN s /\ Append(s, e)[n] = s[n]
                                             \/ n = Len(s) + 1 /\ Append(s, e)[n] = e
           /\ \A n \in DOMAIN s : n \in DOMAIN Append(s, e) /\ Append(s, e)[n] = s[n]
           /\ Len(s) + 1 \in DOMAIN Append(s, e) /\ Append(s, e)[Len(s) + 1] = e
           /\ Len(s) + 1 \notin DOMAIN s
OBVIOUS

-----------------------------------------------------------------------------
(* Missing tracks: the inductive invariant *)

\* The rows that have appeared since the last scan are at their own path until they are
\* discarded; those that were missing are known, and at the path they had.
RowsOwn ==
    /\ missing \subseteq known
    /\ \A i \in Tracks!Ids \ known : rowAt[i] \in {0, i} /\ (rowAt[i] # 0 => created[i] = 2)
    /\ \A i \in known : created[i] # 2
    /\ \A i \in missing : rowAt[i] = i
    /\ \A i \in used : i \notin known /\ rowAt[i] = 0

\* A group has rows that were missing, and new ones of the same library, which is not
\* read again: a new row is in one group.
MissingTrack(t) == t.id \in known /\ t.created # 2
MatchedTrack(t) == t.id \notin known /\ t.path = t.id

GroupsApart ==
    /\ \A m, n \in DOMAIN toRead : toRead[m] = toRead[n] => m = n
    /\ \A n \in DOMAIN queue : \A k \in DOMAIN queue[n].missing :
          MissingTrack(queue[n].missing[k]) /\ queue[n].missing[k].path = queue[n].missing[k].id
    /\ \A n \in DOMAIN queue : \A k \in DOMAIN queue[n].matched :
          /\ MatchedTrack(queue[n].matched[k])
          /\ \A m \in DOMAIN toRead : toRead[m] # fileLib[queue[n].matched[k].path]
    /\ \A m, n \in DOMAIN queue : m # n =>
          \A j \in DOMAIN queue[m].matched, k \in DOMAIN queue[n].matched :
             queue[m].matched[j].id # queue[n].matched[k].id
    /\ \A n \in DOMAIN passed : \A k \in DOMAIN passed[n].missing :
          MissingTrack(passed[n].missing[k])
    /\ \A t \in found : t.path \in crossed /\ (t.id \notin known => t.path = t.id)

\* A row that is still to be matched with is there, unless the second stage found its file.
MatchesThere ==
    \A n \in DOMAIN queue : \A k \in DOMAIN queue[n].matched :
       LET i == queue[n].matched[k].id
       IN  rowAt[i] = i \/ i \in crossed \/ (n = 1 /\ i \in used)

\* A missing row and an equal new one are in a library still to be read, or in a group
\* where the missing one's turn has not come.
ToFind(i, j) ==
    \/ \E n \in DOMAIN toRead : toRead[n] = fileLib[i]
    \/ \E n \in DOMAIN queue :
          /\ \E k \in DOMAIN queue[n].missing : queue[n].missing[k].id = i /\ (n = 1 => k >= next)
          /\ \E k \in DOMAIN queue[n].matched : queue[n].matched[k].id = j

TurnsBegin == queue = <<>> => next = 1

AreFound ==
    \A i \in missing, j \in Tracks!Ids \ known :
       /\ rowAt[j] = j /\ fileLib[i] = fileLib[j] /\ kind[i] = kind[j]
       /\ \E n \in DOMAIN libraries : libraries[n] = fileLib[i]
       => ToFind(i, j)

\* An album was marked by the first move to it, or by one that failed; and the annotations
\* of an album stay until its tracks move.
StarsKept ==
    /\ \A m \in moves : m[2] \in processed
    /\ \A b \in processed : b \in halved \/ \E m \in moves : m[2] = b
    /\ ~swept => \A a \in before : a \in stars \/ \E m \in moves : m[1] = a

TracksInv ==
    /\ Tracks!TypeOK /\ RowsOwn /\ GroupsApart /\ MatchesThere /\ TurnsBegin /\ AreFound
    /\ StarsKept
    /\ Tracks!OneRowPerFile /\ Tracks!AnnotationsStay

-----------------------------------------------------------------------------
(* Missing tracks: moving *)

LEMMA MoveRowMoves ==
    ASSUME Tracks!TypeOK, RowsOwn, NEW track \in Tracks!Tracks, NEW target \in Tracks!Tracks,
           MissingTrack(track), Tracks!MoveRow(track, target), UNCHANGED known,
           \/ UNCHANGED used
           \/ used' = used \cup {target.id} /\ target.id \notin known
    PROVE  /\ rowAt' \in [Tracks!Ids -> Tracks!Ids \cup {0}] /\ created' \in [Tracks!Ids -> 0 .. 2]
           /\ missing' = missing \ {track.id, target.id} /\ rowAt'[target.id] = 0
           /\ track.id # target.id => rowAt'[track.id] = target.path
           /\ \A i \in Tracks!Ids \ {track.id, target.id} : rowAt'[i] = rowAt[i]
           /\ missing' \subseteq {i \in Tracks!Ids : rowAt'[i] # 0}
           /\ RowsOwn'
<1>1. /\ track.id \in Tracks!Ids /\ target.id \in Tracks!Ids /\ target.path \in Tracks!Ids
      /\ track.created \in 0 .. 2 /\ track.id \in known /\ track.created # 2
  BY TracksFacts DEF Tracks!Tracks, MissingTrack
<1>2. /\ rowAt \in [Tracks!Ids -> Tracks!Ids \cup {0}] /\ created \in [Tracks!Ids -> 0 .. 2]
      /\ missing \subseteq {i \in Tracks!Ids : rowAt[i] # 0} /\ known \subseteq Tracks!Ids
      /\ used \subseteq Tracks!Ids /\ 0 \in 0 .. 2
  BY TracksFacts DEF Tracks!TypeOK, Tracks!Rows
<1>3. /\ rowAt' = [rowAt EXCEPT ![track.id] = target.path, ![target.id] = 0]
      /\ missing' = missing \ {track.id, target.id}
      /\ created' = [created EXCEPT ![track.id] = IF rowAt[track.id] = 0 THEN track.created ELSE @,
                                    ![target.id] = 0]
  BY TracksFacts DEF Tracks!MoveRow
<1>4. /\ rowAt' \in [Tracks!Ids -> Tracks!Ids \cup {0}] /\ rowAt'[target.id] = 0
      /\ track.id # target.id => rowAt'[track.id] = target.path
      /\ \A i \in Tracks!Ids \ {track.id, target.id} : rowAt'[i] = rowAt[i]
  BY <1>1, <1>2, <1>3
<1>5. /\ created' \in [Tracks!Ids -> 0 .. 2] /\ created'[target.id] = 0
      /\ track.id # target.id => created'[track.id] \in {track.created, created[track.id]}
      /\ \A i \in Tracks!Ids \ {track.id, target.id} : created'[i] = created[i]
  BY <1>1, <1>2, <1>3
<1>6. missing' \subseteq {i \in Tracks!Ids : rowAt'[i] # 0}
  BY <1>2, <1>3, <1>4
<1>7. RowsOwn'
  <2>1. missing' \subseteq known' /\ \A i \in missing' : rowAt'[i] = i
    BY <1>2, <1>3, <1>4 DEF RowsOwn
  <2>2. \A i \in Tracks!Ids \ known' : rowAt'[i] \in {0, i} /\ (rowAt'[i] # 0 => created'[i] = 2)
    BY <1>1, <1>2, <1>4, <1>5 DEF RowsOwn
  <2>3. \A i \in known' : created'[i] # 2
    BY <1>1, <1>2, <1>5 DEF RowsOwn
  <2>4. \A i \in used' : i \notin known' /\ rowAt'[i] = 0
    BY <1>1, <1>2, <1>4 DEF RowsOwn
  <2> QED
    BY <2>1, <2>2, <2>3, <2>4 DEF RowsOwn
<1> QED
  BY <1>3, <1>4, <1>5, <1>6, <1>7

\* The annotations of albums when a track moves.
LEMMA MoveAlbumMoves ==
    ASSUME Tracks!TypeOK, StarsKept, Tracks!StarsFollow,
           NEW track \in Tracks!Tracks, NEW target \in Tracks!Tracks,
           Tracks!MoveAlbum(track, target), UNCHANGED <<halved, swept, before>>
    PROVE  /\ stars' \subseteq Libraries /\ processed' \subseteq Libraries
           /\ moves' \subseteq Libraries \X Libraries
           /\ StarsKept' /\ Tracks!StarsFollow'
<1> DEFINE a == fileLib[track.path]
           b == fileLib[target.path]
<1>1. /\ a \in Libraries /\ b \in Libraries
      /\ stars \subseteq Libraries /\ processed \subseteq Libraries
      /\ moves \subseteq Libraries \X Libraries
  BY DEF Tracks!TypeOK, Tracks!Tracks
<1>2. CASE a = b
  <2>1. UNCHANGED <<stars, processed, moves>>
    BY <1>2 DEF Tracks!MoveAlbum
  <2> QED
    BY <1>1, <2>1 DEF StarsKept, Tracks!StarsFollow, Tracks!Alone
<1>3. CASE a # b
  <2>1. /\ moves' = moves \cup {<<a, b>>}
        /\ IF b \in processed THEN UNCHANGED <<stars, processed>>
           ELSE Tracks!Reassign(a, b) /\ processed' = processed \cup {b}
    BY <1>3 DEF Tracks!MoveAlbum
  <2> HIDE DEF a, b
  <2>2. /\ processed' = processed \cup {b}
        /\ stars' = stars \/ (stars' = (stars \ {a}) \cup {b} /\ a \in stars /\ b \notin stars)
        /\ b \notin processed /\ a \in stars => b \in stars'
    BY <2>1 DEF Tracks!Reassign
  <2>3. stars' \subseteq Libraries /\ processed' \subseteq Libraries
    BY <1>1, <2>2
  <2>4. moves' \subseteq Libraries \X Libraries
    BY <1>1, <2>1
  <2>5. <<a, b>> \in moves' /\ <<a, b>>[1] = a /\ <<a, b>>[2] = b
    BY <2>1
  <2>6. StarsKept'
    <3>1. \A m \in moves' : m[2] \in processed'
      BY <2>1, <2>2, <2>5 DEF StarsKept
    <3>2. \A c \in processed' : c \in halved' \/ \E m \in moves' : m[2] = c
      BY <2>1, <2>2, <2>5 DEF StarsKept
    <3>3. ~swept' => \A c \in before' : c \in stars' \/ \E m \in moves' : m[1] = c
      BY <2>1, <2>2, <2>5 DEF StarsKept
    <3> QED
      BY <3>1, <3>2, <3>3 DEF StarsKept
  <2>7. Tracks!StarsFollow'
    <3> SUFFICES ASSUME ~swept, NEW m \in moves', m[1] \in before,
                        \A n \in moves' : n[1] \in {m[1], m[2]} \/ n[2] = m[2] => n = m
                 PROVE  m[2] \in stars' \cup halved
      BY DEF Tracks!StarsFollow, Tracks!Alone
    <3>1. CASE m \in moves
      <4>1. m[2] \in stars \cup halved
        BY <2>1, <3>1 DEF Tracks!StarsFollow, Tracks!Alone
      <4>2. a = m[2] => m = <<a, b>>
        BY <2>5
      <4>3. a # m[2]
        BY <1>3, <2>5, <4>2
      <4> QED
        BY <2>2, <4>1, <4>3
    <3>2. CASE m \notin moves
      <4>1. m = <<a, b>> /\ m[1] = a /\ m[2] = b
        BY <2>1, <2>5, <3>2
      <4>2. a \in stars
        BY <2>1, <3>2, <4>1 DEF StarsKept
      <4>3. b \in processed => b \in halved
        BY <2>1, <3>2, <4>1 DEF StarsKept
      <4> QED
        BY <2>2, <4>1, <4>2, <4>3
    <3> QED
      BY <3>1, <3>2
  <2> QED
    BY <2>3, <2>4, <2>6, <2>7
<1> QED
  BY <1>2, <1>3

LEMMA TrackFaultTypes == Tracks!TypeOK /\ Tracks!Fault => trackFaults' \in 0 .. MaxTrackFaults
BY TracksFacts DEF Tracks!TypeOK, Tracks!Fault

\* A transaction that fails may leave a mark.
LEMMA MoveFailsMarks ==
    ASSUME Tracks!TypeOK, StarsKept, Tracks!StarsFollow,
           NEW track \in Tracks!Tracks, NEW target \in Tracks!Tracks,
           Tracks!MoveFails(track, target), UNCHANGED <<moves, swept, before>>
    PROVE  /\ UNCHANGED <<rowAt, missing, created, stars>>
           /\ trackFaults' \in 0 .. MaxTrackFaults
           /\ processed' \subseteq Libraries /\ halved' \subseteq Libraries
           /\ StarsKept' /\ Tracks!StarsFollow'
<1> DEFINE b == fileLib[target.path]
<1>1. b \in Libraries /\ processed \subseteq Libraries /\ halved \subseteq Libraries
  BY DEF Tracks!TypeOK, Tracks!Tracks
<1>2. /\ UNCHANGED <<rowAt, missing, created, stars>> /\ Tracks!Fault
      /\ \/ UNCHANGED <<processed, halved>>
         \/ processed' \in {processed, processed \cup {b}} /\ halved' = halved \cup (processed' \ processed)
  BY DEF Tracks!MoveFails, Tracks!rows
<1> HIDE DEF b
<1>3. /\ processed' \subseteq Libraries /\ halved' \subseteq Libraries
      /\ processed \subseteq processed' /\ halved \subseteq halved'
      /\ processed' \ processed \subseteq halved'
  BY <1>1, <1>2
<1>4. StarsKept'
  BY <1>2, <1>3 DEF StarsKept
<1>5. Tracks!StarsFollow'
  BY <1>2, <1>3 DEF Tracks!StarsFollow, Tracks!Alone
<1> QED
  BY <1>2, <1>3, <1>4, <1>5, TrackFaultTypes

-----------------------------------------------------------------------------
(* Missing tracks: the producer *)

LEMMA SameRowsOwn ==
    RowsOwn /\ UNCHANGED <<rowAt, missing, created, known, used>> => RowsOwn'
BY DEF RowsOwn

LEMMA SameFiles ==
    Tracks!OneRowPerFile /\ UNCHANGED <<rowAt, missing>> /\ crossed \subseteq crossed'
       => Tracks!OneRowPerFile'
BY DEF Tracks!OneRowPerFile, Tracks!Rows

LEMMA SameIdentities ==
    /\ Tracks!IdentitiesStay /\ UNCHANGED <<rowAt, known>>
    /\ purged \subseteq purged' /\ taken \subseteq taken'
    => Tracks!IdentitiesStay'
BY DEF Tracks!IdentitiesStay

LEMMA SameStars ==
    /\ StarsKept /\ Tracks!StarsFollow /\ UNCHANGED <<stars, before, processed, moves, halved, swept>>
    => StarsKept' /\ Tracks!StarsFollow'
BY DEF StarsKept, Tracks!StarsFollow, Tracks!Alone

LEMMA SameGroups ==
    ASSUME GroupsApart, UNCHANGED <<toRead, queue, passed, found, known, fileLib>>,
           crossed \subseteq crossed'
    PROVE  GroupsApart'
BY DEF GroupsApart, MissingTrack, MatchedTrack

LEMMA SameMatches ==
    MatchesThere /\ UNCHANGED <<queue, rowAt, used>> /\ crossed \subseteq crossed' => MatchesThere'
BY DEF MatchesThere

LEMMA SameToFind ==
    /\ TurnsBegin /\ AreFound
    /\ UNCHANGED <<missing, known, rowAt, fileLib, kind, libraries, toRead, queue, next>>
    => TurnsBegin' /\ AreFound'
BY DEF TurnsBegin, AreFound, ToFind

\* The rows of a set, as they are read, in some order.
LEMMA RowsRead ==
    ASSUME Tracks!TypeOK, NEW S \in SUBSET Tracks!Rows,
           NEW s \in Tracks!SetToSeqs({Tracks!Track(i) : i \in S})
    PROVE  /\ s \in Seq(Tracks!Tracks)
           /\ \A n \in DOMAIN s : \E i \in S : s[n].id = i /\ s[n].path = rowAt[i]
                                               /\ s[n].created = created[i]
           /\ \A i \in S : \E n \in DOMAIN s : s[n].id = i
<1> DEFINE T == {Tracks!Track(i) : i \in S}
           f == [i \in S |-> Tracks!Track(i)]
<1>1. \A i \in S : /\ Tracks!Track(i) \in Tracks!Tracks
                   /\ Tracks!Track(i).id = i /\ Tracks!Track(i).path = rowAt[i]
                   /\ Tracks!Track(i).created = created[i]
  BY TracksFacts DEF Tracks!TypeOK, Tracks!Rows, Tracks!Track, Tracks!Tracks
<1>2. IsFiniteSet(S)
  BY TracksFacts, FS_Subset DEF Tracks!Rows
<1>3. f \in Surjection(S, T)
  BY Fun_IsSurj
<1>4. IsFiniteSet(T)
  BY <1>2, <1>3, FS_Surjection
<1>5. \A x \in T : \E i \in S : x = Tracks!Track(i)
  OBVIOUS
<1>6. \A i \in S : Tracks!Track(i) \in T
  OBVIOUS
<1>7. s \in Tracks!SetToSeqs(T)
  OBVIOUS
<1> HIDE DEF T, f
<1>8. s \in Seq(T) /\ \A x \in T : \E n \in DOMAIN s : s[n] = x
  BY <1>4, <1>7, SeqOfSet
<1>9. \A n \in DOMAIN s : s[n] \in T
  BY <1>8
<1>10. T \subseteq Tracks!Tracks
  BY <1>1, <1>5
<1>11. s \in Seq(Tracks!Tracks)
  BY <1>8, <1>10
<1>12. \A n \in DOMAIN s : \E i \in S : s[n].id = i /\ s[n].path = rowAt[i] /\ s[n].created = created[i]
  BY <1>1, <1>5, <1>9
<1>13. \A i \in S : \E n \in DOMAIN s : s[n].id = i
  BY <1>1, <1>6, <1>8
<1> QED
  BY <1>11, <1>12, <1>13

LEMMA ReadKeeps == TracksInv /\ Tracks!Read => TracksInv'
<1> SUFFICES ASSUME TracksInv, Tracks!Read PROVE TracksInv'
  OBVIOUS
<1> DEFINE l == Head(toRead)
           away == Tracks!InLibrary(l) \cap missing
<1>1. /\ toRead # <<>> /\ toRead' = Tail(toRead)
      /\ UNCHANGED <<fileLib, kind, rowAt, missing, created, stars, libraries, purging, passed, next,
                     used, hasMatches, cross, found, processed, trackPhase, trackFaults, known, before,
                     purged, crossed, taken, moves, halved, swept>>
  BY DEF Tracks!Read, Tracks!files, Tracks!rows, Tracks!stage1, Tracks!stage2, Tracks!history,
         Tracks!scan
<1>2. /\ Tracks!TypeOK /\ RowsOwn /\ GroupsApart /\ MatchesThere /\ TurnsBegin /\ AreFound
      /\ StarsKept
      /\ Tracks!OneRowPerFile /\ Tracks!IdentitiesStay /\ Tracks!StarsFollow
  BY DEF TracksInv, Tracks!AnnotationsStay
<1>3. /\ toRead \in Seq(Libraries) /\ Tail(toRead) \in Seq(Libraries)
      /\ l = toRead[1] /\ 1 \in DOMAIN toRead
      /\ \A n \in DOMAIN Tail(toRead) :
            n + 1 \in DOMAIN toRead /\ Tail(toRead)[n] = toRead[n + 1] /\ n + 1 # 1
      /\ \A n \in DOMAIN toRead : n # 1 => n - 1 \in DOMAIN Tail(toRead)
                                           /\ Tail(toRead)[n - 1] = toRead[n]
  <2>1. toRead \in Seq(Libraries)
    BY <1>2 DEF Tracks!TypeOK
  <2> QED
    BY <1>1, <2>1, TailAt
<1>4. /\ \A m, n \in DOMAIN toRead : toRead[m] = toRead[n] => m = n
      /\ \A n \in DOMAIN toRead' : toRead'[n] # l
      /\ \A m, n \in DOMAIN toRead' : toRead'[m] = toRead'[n] => m = n
      /\ \A x : (\A m \in DOMAIN toRead : toRead[m] # x) => \A m \in DOMAIN toRead' : toRead'[m] # x
  <2>1. \A m, n \in DOMAIN toRead : toRead[m] = toRead[n] => m = n
    BY <1>2 DEF GroupsApart
  <2>2. \A n \in DOMAIN toRead' : toRead'[n] # l
    BY <1>1, <1>3, <2>1
  <2>3. ASSUME NEW m \in DOMAIN toRead', NEW n \in DOMAIN toRead', toRead'[m] = toRead'[n]
        PROVE  m = n
    <3>1. m \in Nat /\ n \in Nat
      BY <1>1, <1>3
    <3>2. m + 1 = n + 1
      BY <1>1, <1>3, <2>1, <2>3
    <3> QED
      BY <3>1, <3>2
  <2>4. \A x : (\A m \in DOMAIN toRead : toRead[m] # x) => \A m \in DOMAIN toRead' : toRead'[m] # x
    BY <1>1, <1>3
  <2> QED
    BY <2>1, <2>2, <2>3, <2>4
<1> HIDE DEF l
<1>5. ASSUME NEW i \in missing, fileLib[i] = l PROVE i \in away
  BY <1>2, <1>5 DEF RowsOwn, Tracks!TypeOK, Tracks!InLibrary
<1>6. RowsOwn' /\ Tracks!OneRowPerFile' /\ Tracks!IdentitiesStay' /\ StarsKept' /\ Tracks!StarsFollow'
  BY <1>1, <1>2, SameRowsOwn, SameFiles, SameIdentities, SameStars
<1>7. CASE away = {}
  <2>1. queue' = queue
    BY <1>7 DEF Tracks!Read, l
  <2>2. Tracks!TypeOK'
    BY <1>1, <1>2, <1>3, <2>1 DEF Tracks!TypeOK, Tracks!Rows
  <2>3. GroupsApart'
    BY <1>1, <1>2, <1>4, <2>1 DEF GroupsApart, MissingTrack, MatchedTrack
  <2>4. MatchesThere'
    BY <1>1, <1>2, <2>1, SameMatches
  <2>5. AreFound'
    <3> SUFFICES ASSUME NEW i \in missing, NEW j \in Tracks!Ids \ known, ToFind(i, j) PROVE ToFind(i, j)'
      BY <1>1, <1>2 DEF AreFound
    <3>1. ASSUME NEW n \in DOMAIN toRead, toRead[n] = fileLib[i] PROVE ToFind(i, j)'
      <4>1. n # 1
        BY <1>3, <1>5, <1>7, <3>1
      <4> QED
        BY <1>1, <1>3, <3>1, <4>1 DEF ToFind
    <3> QED
      BY <1>1, <2>1, <3>1 DEF ToFind
  <2> QED
    BY <1>1, <1>2, <1>6, <2>1, <2>2, <2>3, <2>4, <2>5 DEF TracksInv, Tracks!AnnotationsStay, TurnsBegin
<1>8. CASE away # {}
  <2>1. PICK m \in Tracks!SetToSeqs({Tracks!Track(i) : i \in away}),
             c \in Tracks!SetToSeqs({Tracks!Track(i) : i \in Tracks!Candidates(l)}) :
           queue' = Append(queue, [missing |-> m, matched |-> c])
    BY <1>8 DEF Tracks!Read, l
  <2>2. /\ m \in Seq(Tracks!Tracks)
        /\ \A n \in DOMAIN m : \E i \in away : m[n].id = i /\ m[n].path = rowAt[i]
                                               /\ m[n].created = created[i]
        /\ \A i \in away : \E n \in DOMAIN m : m[n].id = i
    <3>1. away \subseteq Tracks!Rows
      BY DEF Tracks!InLibrary
    <3> HIDE DEF away
    <3> QED
      BY <1>2, <3>1, RowsRead
  <2>3. /\ c \in Seq(Tracks!Tracks)
        /\ \A n \in DOMAIN c : \E i \in Tracks!Candidates(l) : c[n].id = i /\ c[n].path = rowAt[i]
        /\ \A i \in Tracks!Candidates(l) : \E n \in DOMAIN c : c[n].id = i
    <3>1. Tracks!Candidates(l) \subseteq Tracks!Rows
      BY DEF Tracks!InLibrary, Tracks!Candidates
    <3> DEFINE young == Tracks!Candidates(l)
    <3>2. young \in SUBSET Tracks!Rows /\ c \in Tracks!SetToSeqs({Tracks!Track(i) : i \in young})
      BY <3>1
    <3> HIDE DEF young
    <3>3. /\ c \in Seq(Tracks!Tracks)
          /\ \A n \in DOMAIN c : \E i \in young : c[n].id = i /\ c[n].path = rowAt[i]
                                                  /\ c[n].created = created[i]
          /\ \A i \in young : \E n \in DOMAIN c : c[n].id = i
      BY <1>2, <3>2, RowsRead
    <3> QED
      BY <3>3 DEF young
  <2> DEFINE g == [missing |-> m, matched |-> c]
             lastPos == Len(queue) + 1
  <2>4. g \in Tracks!Groups /\ g.missing = m /\ g.matched = c
    BY <2>2, <2>3 DEF Tracks!Groups
  <2>5. queue \in Seq(Tracks!Groups)
    BY <1>2 DEF Tracks!TypeOK
  <2> HIDE DEF g
  <2>6. /\ queue' \in Seq(Tracks!Groups)
        /\ \A n \in DOMAIN queue' : \/ n \in DOMAIN queue /\ queue'[n] = queue[n]
                                    \/ n = lastPos /\ queue'[n] = g
        /\ \A n \in DOMAIN queue : n \in DOMAIN queue' /\ queue'[n] = queue[n]
        /\ lastPos \in DOMAIN queue' /\ queue'[lastPos] = g /\ lastPos \notin DOMAIN queue
    BY <2>1, <2>4, <2>5, AppendAt DEF g
  <2> HIDE DEF lastPos
  <2>7. Tracks!TypeOK'
    BY <1>1, <1>2, <1>3, <2>6 DEF Tracks!TypeOK, Tracks!Rows
  <2>8. \A k \in DOMAIN m : MissingTrack(m[k]) /\ m[k].path = m[k].id
    BY <1>2, <2>2 DEF RowsOwn, MissingTrack
  <2>9. \A i \in Tracks!Candidates(l) : i \notin known /\ rowAt[i] = i /\ fileLib[i] = l
    BY <1>2 DEF Tracks!Candidates, Tracks!InLibrary, Tracks!Rows, Tracks!New, Tracks!None, RowsOwn
  <2>10. \A k \in DOMAIN c : /\ MatchedTrack(c[k]) /\ rowAt[c[k].id] = c[k].id
                             /\ fileLib[c[k].path] = l
    BY <2>3, <2>9 DEF MatchedTrack
  <2>11. GroupsApart'
    <3>1. \A n \in DOMAIN queue' : \A k \in DOMAIN queue'[n].missing :
             MissingTrack(queue'[n].missing[k]) /\ queue'[n].missing[k].path = queue'[n].missing[k].id
      <4> SUFFICES ASSUME NEW n \in DOMAIN queue' PROVE
             \A k \in DOMAIN queue'[n].missing :
             MissingTrack(queue'[n].missing[k]) /\ queue'[n].missing[k].path = queue'[n].missing[k].id
        OBVIOUS
      <4>1. CASE n \in DOMAIN queue
        BY <1>2, <2>6, <4>1 DEF GroupsApart
      <4>2. CASE n = lastPos
        BY <2>4, <2>6, <2>8, <4>2
      <4> QED
        BY <2>6, <4>1, <4>2
    <3>2. \A n \in DOMAIN queue' : \A k \in DOMAIN queue'[n].matched :
             /\ MatchedTrack(queue'[n].matched[k])
             /\ \A x \in DOMAIN toRead' : toRead'[x] # fileLib[queue'[n].matched[k].path]
      <4> SUFFICES ASSUME NEW n \in DOMAIN queue', NEW k \in DOMAIN queue'[n].matched PROVE
             /\ MatchedTrack(queue'[n].matched[k])
             /\ \A x \in DOMAIN toRead' : toRead'[x] # fileLib[queue'[n].matched[k].path]
        OBVIOUS
      <4>1. CASE n \in DOMAIN queue
        <5> DEFINE x0 == fileLib[queue'[n].matched[k].path]
        <5>1. MatchedTrack(queue'[n].matched[k]) /\ \A x \in DOMAIN toRead : toRead[x] # x0
          BY <1>2, <2>6, <4>1 DEF GroupsApart
        <5> HIDE DEF x0
        <5>2. \A x \in DOMAIN toRead' : toRead'[x] # x0
          BY <1>4, <5>1
        <5> QED
          BY <5>1, <5>2 DEF x0
      <4>2. CASE n = lastPos
        BY <1>4, <2>4, <2>6, <2>10, <4>2
      <4> QED
        BY <2>6, <4>1, <4>2
    <3>3. ASSUME NEW n \in DOMAIN queue, NEW j \in DOMAIN queue[n].matched, NEW k \in DOMAIN c
          PROVE  queue[n].matched[j].id # c[k].id
      <4>1. fileLib[queue[n].matched[j].path] # l /\ MatchedTrack(queue[n].matched[j])
        BY <1>2, <1>3 DEF GroupsApart
      <4> QED
        BY <2>10, <4>1 DEF MatchedTrack
    <3>4. \A x, n \in DOMAIN queue' : x # n =>
             \A j \in DOMAIN queue'[x].matched, k \in DOMAIN queue'[n].matched :
                queue'[x].matched[j].id # queue'[n].matched[k].id
      <4> SUFFICES ASSUME NEW x \in DOMAIN queue', NEW n \in DOMAIN queue', x # n,
                          NEW j \in DOMAIN queue'[x].matched, NEW k \in DOMAIN queue'[n].matched
                   PROVE  queue'[x].matched[j].id # queue'[n].matched[k].id
        OBVIOUS
      <4>1. CASE x \in DOMAIN queue /\ n \in DOMAIN queue
        BY <1>2, <2>6, <4>1 DEF GroupsApart
      <4>2. CASE x \in DOMAIN queue /\ n = lastPos
        BY <2>4, <2>6, <3>3, <4>2
      <4>3. CASE x = lastPos /\ n \in DOMAIN queue
        BY <2>4, <2>6, <3>3, <4>3
      <4> QED
        BY <2>6, <4>1, <4>2, <4>3
    <3> QED
      <4>1. UNCHANGED <<known, fileLib, passed, found, crossed>>
        BY <1>1
      <4>2. /\ \A n \in DOMAIN passed : \A k \in DOMAIN passed[n].missing :
                  MissingTrack(passed[n].missing[k])
            /\ \A t \in found : t.path \in crossed /\ (t.id \notin known => t.path = t.id)
        BY <1>2 DEF GroupsApart
      <4> QED
        BY <1>4, <3>1, <3>2, <3>4, <4>1, <4>2 DEF GroupsApart, MissingTrack, MatchedTrack
  <2>12. MatchesThere'
    BY <1>1, <1>2, <2>4, <2>6, <2>10 DEF MatchesThere
  <2>13. AreFound'
    <3> SUFFICES ASSUME NEW i \in missing, NEW j \in Tracks!Ids \ known, ToFind(i, j),
                        rowAt[j] = j, fileLib[i] = fileLib[j]
                 PROVE  ToFind(i, j)'
      BY <1>1, <1>2 DEF AreFound
    <3>1. ASSUME fileLib[i] = l PROVE ToFind(i, j)'
      <4>1. PICK k \in DOMAIN m : m[k].id = i
        BY <1>5, <2>2, <3>1
      <4>2. j \in Tracks!Candidates(l)
        <5>1. created[j] = 2 /\ j \notin missing /\ rowAt[j] # 0
          BY <1>2, TracksFacts DEF RowsOwn
        <5> QED
          BY <3>1, <5>1, TracksFacts DEF Tracks!Candidates, Tracks!InLibrary, Tracks!Rows
      <4>3. PICK k2 \in DOMAIN c : c[k2].id = j
        BY <2>3, <4>2
      <4>4. k >= next \/ lastPos # 1
        <5>1. CASE queue = <<>>
          <6>1. next = 1 /\ \A x \in DOMAIN m : x >= 1
            BY <1>2, <2>2, <5>1 DEF TurnsBegin
          <6> QED
            BY <6>1
        <5>2. CASE queue # <<>>
          BY <2>5, <5>2 DEF lastPos
        <5> QED
          BY <5>1, <5>2
      <4> QED
        BY <1>1, <2>4, <2>6, <4>1, <4>3, <4>4 DEF ToFind
    <3>2. ASSUME NEW n \in DOMAIN toRead, toRead[n] = fileLib[i], fileLib[i] # l PROVE ToFind(i, j)'
      <4>1. n # 1
        BY <1>3, <3>2
      <4> QED
        BY <1>1, <1>3, <3>2, <4>1 DEF ToFind
    <3> QED
      BY <1>1, <2>6, <3>1, <3>2 DEF ToFind
  <2>14. TurnsBegin'
    <3>1. queue' # <<>>
      BY <2>6
    <3> QED
      BY <3>1 DEF TurnsBegin
  <2> QED
    BY <1>6, <2>7, <2>11, <2>12, <2>13, <2>14 DEF TracksInv, Tracks!AnnotationsStay
<1> QED
  BY <1>7, <1>8

-----------------------------------------------------------------------------
(* Missing tracks: the first stage *)

LEMMA InvParts ==
    TracksInv =>
    /\ Tracks!TypeOK /\ RowsOwn /\ GroupsApart /\ MatchesThere /\ TurnsBegin /\ AreFound
    /\ StarsKept /\ Tracks!OneRowPerFile /\ Tracks!IdentitiesStay /\ Tracks!StarsFollow
BY DEF TracksInv, Tracks!AnnotationsStay

LEMMA GroupTypes ==
    Tracks!TypeOK =>
    /\ \A n \in DOMAIN queue : /\ queue[n].missing \in Seq(Tracks!Tracks)
                               /\ queue[n].matched \in Seq(Tracks!Tracks)
    /\ \A n \in DOMAIN passed : passed[n].missing \in Seq(Tracks!Tracks)
<1> SUFFICES ASSUME Tracks!TypeOK
             PROVE  /\ \A n \in DOMAIN queue : /\ queue[n].missing \in Seq(Tracks!Tracks)
                                               /\ queue[n].matched \in Seq(Tracks!Tracks)
                    /\ \A n \in DOMAIN passed : passed[n].missing \in Seq(Tracks!Tracks)
  OBVIOUS
<1>1. queue \in Seq(Tracks!Groups) /\ passed \in Seq(Tracks!Groups)
  BY DEF Tracks!TypeOK
<1>2. \A g \in Tracks!Groups : /\ g.missing \in Seq(Tracks!Tracks)
                               /\ g.matched \in Seq(Tracks!Tracks)
  BY DEF Tracks!Groups
<1>3. /\ \A n \in DOMAIN queue : queue[n] \in Tracks!Groups
      /\ \A n \in DOMAIN passed : passed[n] \in Tracks!Groups
  BY <1>1
<1> QED
  BY <1>2, <1>3

LEMMA TrackTypes ==
    \A t \in Tracks!Tracks :
       t.id \in Tracks!Ids /\ t.path \in Tracks!Ids /\ t.created \in 0 .. 2
BY TracksFacts DEF Tracks!Tracks

\* The track whose turn it is, and what it is matched with.
LEMMA FirstGroup ==
    ASSUME Tracks!TypeOK, GroupsApart, Tracks!Working1
    PROVE  /\ 1 \in DOMAIN queue /\ Tracks!Group = queue[1] /\ queue[1] \in Tracks!Groups
           /\ next \in DOMAIN queue[1].missing /\ Tracks!Missing1 = queue[1].missing[next]
           /\ Tracks!Missing1 \in Tracks!Tracks /\ MissingTrack(Tracks!Missing1)
           /\ Tracks!Missing1.path = Tracks!Missing1.id
<1>1. queue \in Seq(Tracks!Groups) /\ queue # <<>> /\ next \in Nat \ {0}
  BY DEF Tracks!TypeOK, Tracks!Working1
<1>2. 1 \in DOMAIN queue /\ Tracks!Group = queue[1] /\ queue[1] \in Tracks!Groups
  BY <1>1, TailAt DEF Tracks!Group
<1>3. queue[1].missing \in Seq(Tracks!Tracks)
  BY <1>2 DEF Tracks!Groups
<1>4. next \in DOMAIN queue[1].missing
  BY <1>1, <1>2, <1>3 DEF Tracks!Working1
<1>5. Tracks!Missing1 = queue[1].missing[next]
  BY <1>2 DEF Tracks!Missing1
<1>6. Tracks!Missing1 \in Tracks!Tracks
  BY <1>3, <1>4, <1>5
<1> QED
  BY <1>2, <1>4, <1>5, <1>6 DEF GroupsApart

LEMMA MatchTarget ==
    ASSUME Tracks!TypeOK, GroupsApart, Tracks!Working1, NEW target \in Tracks!Match
    PROVE  /\ target \in Tracks!Tracks /\ MatchedTrack(target) /\ target.id \notin used
           /\ \E n \in DOMAIN queue[1].matched : target = queue[1].matched[n]
<1>1. /\ 1 \in DOMAIN queue /\ Tracks!Group = queue[1] /\ queue[1].matched \in Seq(Tracks!Tracks)
  BY FirstGroup DEF Tracks!Groups
<1>2. \A S : Tracks!Lowest(S) \subseteq S /\ Tracks!Highest(S) \subseteq S
  BY DEF Tracks!Lowest, Tracks!Highest
<1>3. \E n \in Tracks!Unused : target = queue[1].matched[n]
  BY <1>1, <1>2 DEF Tracks!Match
<1>4. PICK n \in Tracks!Unused : target = queue[1].matched[n]
  BY <1>3
<1>5. n \in DOMAIN queue[1].matched /\ queue[1].matched[n].id \notin used
  BY <1>1 DEF Tracks!Unused
<1>6. target \in Tracks!Tracks
  BY <1>1, <1>4, <1>5
<1> QED
  BY <1>1, <1>4, <1>5, <1>6 DEF GroupsApart

\* An equal track that nothing was matched with makes a match.
LEMMA MatchExists ==
    ASSUME Tracks!TypeOK, GroupsApart, Tracks!Working1, NEW k \in DOMAIN queue[1].matched,
           queue[1].matched[k].id \notin used,
           kind[Tracks!Missing1.path] = kind[queue[1].matched[k].path]
    PROVE  Tracks!Match # {}
<1> DEFINE equal == {n \in Tracks!Unused : Tracks!Equals(Tracks!Missing1.path, Tracks!Group.matched[n].path)}
<1>1. Tracks!Group = queue[1] /\ queue[1].matched \in Seq(Tracks!Tracks)
  BY FirstGroup DEF Tracks!Groups
<1>2. k \in equal
  BY <1>1 DEF Tracks!Unused, Tracks!Equals
<1>3. equal \subseteq Nat
  BY <1>1 DEF Tracks!Unused
<1>4. Tracks!Match = {Tracks!Group.matched[n] : n \in Tracks!Lowest(equal)}
  BY <1>2 DEF Tracks!Match
<1> HIDE DEF equal
<1>5. \E x \in equal : \A y \in equal : x <= y
  BY <1>2, <1>3, LeastOfNaturals
<1>6. Tracks!Lowest(equal) # {}
  BY <1>5 DEF Tracks!Lowest
<1> QED
  BY <1>4, <1>6

LEMMA RecoverKeeps == TracksInv /\ Tracks!Recover => TracksInv'
<1> SUFFICES ASSUME TracksInv, Tracks!Recover PROVE TracksInv'
  OBVIOUS
<1> DEFINE t == Tracks!Missing1
<1>1. PICK target \in Tracks!Match :
         /\ Tracks!MoveRow(t, target) /\ Tracks!MoveAlbum(t, target)
         /\ used' = used \cup {target.id}
  BY DEF Tracks!Recover
<1>2. /\ Tracks!Working1 /\ hasMatches' = TRUE /\ next' = next + 1
      /\ UNCHANGED <<fileLib, kind, libraries, purging, toRead, queue, passed, cross, found, trackPhase,
                     trackFaults, swept, known, before, purged, crossed, taken, halved>>
  BY DEF Tracks!Recover, Tracks!files, Tracks!stage2, Tracks!scan, Tracks!groups
<1>3. /\ Tracks!TypeOK /\ RowsOwn /\ GroupsApart /\ MatchesThere /\ TurnsBegin /\ AreFound
      /\ StarsKept /\ Tracks!OneRowPerFile /\ Tracks!IdentitiesStay /\ Tracks!StarsFollow
  BY InvParts
<1>4. /\ 1 \in DOMAIN queue /\ next \in DOMAIN queue[1].missing /\ t = queue[1].missing[next]
      /\ t \in Tracks!Tracks /\ MissingTrack(t) /\ t.path = t.id
  BY <1>2, <1>3, FirstGroup
<1>5. /\ target \in Tracks!Tracks /\ MatchedTrack(target) /\ target.id \notin used
      /\ \E n \in DOMAIN queue[1].matched : target = queue[1].matched[n]
  BY <1>2, <1>3, MatchTarget
<1> HIDE DEF t
<1> DEFINE i0 == t.id
           j0 == target.id
<1>6. /\ i0 \in known /\ j0 \notin known /\ target.path = j0 /\ i0 # j0
      /\ i0 \in Tracks!Ids /\ j0 \in Tracks!Ids
  BY <1>4, <1>5 DEF MissingTrack, MatchedTrack, Tracks!Tracks
<1>7. /\ rowAt' \in [Tracks!Ids -> Tracks!Ids \cup {0}] /\ created' \in [Tracks!Ids -> 0 .. 2]
      /\ missing' = missing \ {i0, j0} /\ rowAt'[j0] = 0 /\ rowAt'[i0] = j0
      /\ \A i \in Tracks!Ids \ {i0, j0} : rowAt'[i] = rowAt[i]
      /\ missing' \subseteq {i \in Tracks!Ids : rowAt'[i] # 0}
      /\ RowsOwn'
  BY <1>1, <1>2, <1>3, <1>4, <1>5, <1>6, MoveRowMoves
<1>8. /\ stars' \subseteq Libraries /\ processed' \subseteq Libraries
      /\ moves' \subseteq Libraries \X Libraries
      /\ StarsKept' /\ Tracks!StarsFollow'
  BY <1>1, <1>2, <1>3, <1>4, <1>5, MoveAlbumMoves
<1> HIDE DEF i0
<1>9. Tracks!TypeOK'
  <2>1. used' \subseteq Tracks!Ids /\ next' \in Nat \ {0} /\ hasMatches' \in BOOLEAN
    BY <1>1, <1>2, <1>3, <1>6 DEF Tracks!TypeOK
  <2> QED
    BY <1>2, <1>3, <1>7, <1>8, <2>1, TracksFacts DEF Tracks!TypeOK, Tracks!Rows
<1>10. GroupsApart'
  BY <1>2, <1>3, SameGroups
<1>11. MatchesThere'
  <2> SUFFICES ASSUME NEW n \in DOMAIN queue, NEW k \in DOMAIN queue[n].matched
               PROVE  LET i == queue[n].matched[k].id
                      IN  rowAt'[i] = i \/ i \in crossed \/ (n = 1 /\ i \in used')
    BY <1>2 DEF MatchesThere
  <2> DEFINE i == queue[n].matched[k].id
  <2>1. i \in Tracks!Ids /\ i \notin known
    <3>1. queue[n].matched \in Seq(Tracks!Tracks) /\ MatchedTrack(queue[n].matched[k])
      BY <1>3, GroupTypes DEF GroupsApart
    <3>2. queue[n].matched[k] \in Tracks!Tracks
      BY <3>1
    <3> QED
      BY <3>1, <3>2, TrackTypes DEF MatchedTrack
  <2>2. i = j0 => n = 1
    BY <1>3, <1>4, <1>5 DEF GroupsApart
  <2>3. rowAt[i] = i \/ i \in crossed \/ (n = 1 /\ i \in used)
    BY <1>3 DEF MatchesThere
  <2> HIDE DEF i
  <2>4. i # i0
    BY <1>6, <2>1
  <2>5. CASE i = j0
    BY <1>1, <2>2, <2>5 DEF i
  <2>6. CASE i # j0
    BY <1>1, <1>7, <2>1, <2>3, <2>4, <2>6 DEF i
  <2> QED
    BY <2>5, <2>6
<1>12. AreFound'
  <2> SUFFICES ASSUME NEW i \in missing', NEW j \in Tracks!Ids \ known, rowAt'[j] = j,
                      fileLib[i] = fileLib[j], kind[i] = kind[j],
                      \E n \in DOMAIN libraries : libraries[n] = fileLib[i]
               PROVE  ToFind(i, j)'
    BY <1>2 DEF AreFound
  <2>1. i \in missing /\ i # i0 /\ j # j0 /\ j # i0
    BY <1>6, <1>7, TracksFacts
  <2>2. rowAt[j] = j
    BY <1>7, <2>1
  <2>3. ToFind(i, j)
    BY <1>3, <2>1, <2>2 DEF AreFound
  <2>4. ASSUME NEW k \in DOMAIN queue[1].missing, queue[1].missing[k].id = i, k >= next
        PROVE  k >= next + 1
    <3>1. k # next
      BY <1>4, <2>1, <2>4 DEF i0
    <3>2. k \in Nat /\ next \in Nat
      <4>1. queue[1].missing \in Seq(Tracks!Tracks) /\ next \in Nat
        BY <1>3, <1>4, GroupTypes DEF Tracks!TypeOK
      <4> QED
        BY <4>1
    <3> QED
      BY <2>4, <3>1, <3>2
  <2> QED
    BY <1>2, <2>3, <2>4 DEF ToFind
<1>13. Tracks!OneRowPerFile'
  <2>1. rowAt[j0] = j0 \/ j0 \in crossed
    BY <1>3, <1>4, <1>5 DEF MatchesThere
  <2>2. j0 \notin missing
    BY <1>3, <1>6 DEF RowsOwn
  <2>3. ASSUME NEW i \in Tracks!Ids, i \notin {i0, j0}, i \notin missing', rowAt'[i] = j0
        PROVE  j0 \in crossed
    <3>1. i \notin missing /\ rowAt[i] = j0
      BY <1>7, <2>3
    <3> QED
      BY <1>3, <1>6, <2>1, <2>2, <2>3, <3>1, TracksFacts DEF Tracks!OneRowPerFile, Tracks!Rows
  <2> SUFFICES ASSUME NEW i \in Tracks!Ids, NEW j \in Tracks!Ids, i # j, rowAt'[i] # 0,
                      rowAt'[i] = rowAt'[j], i \notin missing', j \notin missing'
               PROVE  rowAt'[i] \in crossed
    BY <1>2, TracksFacts DEF Tracks!OneRowPerFile, Tracks!Rows
  <2>4. i # j0 /\ j # j0
    BY <1>7
  <2>5. CASE i = i0
    BY <1>7, <2>3, <2>4, <2>5
  <2>6. CASE j = i0
    BY <1>7, <2>3, <2>4, <2>6
  <2>7. CASE i # i0 /\ j # i0
    <3>1. rowAt[i] = rowAt'[i] /\ rowAt[j] = rowAt'[j] /\ i \notin missing /\ j \notin missing
      BY <1>7, <2>4, <2>7
    <3> QED
      BY <1>3, <3>1, TracksFacts DEF Tracks!OneRowPerFile, Tracks!Rows
  <2> QED
    BY <2>5, <2>6, <2>7
<1>14. Tracks!IdentitiesStay'
  <2> SUFFICES ASSUME NEW i \in known PROVE rowAt'[i] # 0 \/ i \in purged \cup taken
    BY <1>2, TracksFacts DEF Tracks!IdentitiesStay
  <2>1. i \in Tracks!Ids /\ i # j0
    BY <1>3, <1>6 DEF Tracks!TypeOK
  <2>2. rowAt'[i] = rowAt[i] \/ rowAt'[i] = j0
    BY <1>7, <2>1
  <2> QED
    BY <1>3, <1>6, <2>2, TracksFacts DEF Tracks!IdentitiesStay
<1>15. TurnsBegin'
  BY <1>2 DEF TurnsBegin, Tracks!Working1
<1> QED
  BY <1>7, <1>8, <1>9, <1>10, <1>11, <1>12, <1>13, <1>14, <1>15 DEF TracksInv, Tracks!AnnotationsStay

LEMMA NoMatchKeeps == TracksInv /\ Tracks!NoMatch => TracksInv'
<1> SUFFICES ASSUME TracksInv, Tracks!NoMatch PROVE TracksInv'
  OBVIOUS
<1>1. /\ Tracks!Working1 /\ Tracks!Match = {} /\ next' = next + 1
      /\ UNCHANGED <<fileLib, kind, rowAt, missing, created, stars, libraries, purging, toRead, queue,
                     passed, used, hasMatches, cross, found, processed, trackPhase, trackFaults, known,
                     before, purged, crossed, taken, moves, halved, swept>>
  BY DEF Tracks!NoMatch, Tracks!files, Tracks!rows, Tracks!stage2, Tracks!history, Tracks!scan,
         Tracks!groups
<1>2. /\ Tracks!TypeOK /\ RowsOwn /\ GroupsApart /\ MatchesThere /\ TurnsBegin /\ AreFound
      /\ StarsKept /\ Tracks!OneRowPerFile /\ Tracks!IdentitiesStay /\ Tracks!StarsFollow
  BY InvParts
<1>3. /\ RowsOwn' /\ Tracks!OneRowPerFile' /\ Tracks!IdentitiesStay' /\ StarsKept'
      /\ Tracks!StarsFollow' /\ GroupsApart' /\ MatchesThere'
  BY <1>1, <1>2, SameRowsOwn, SameFiles, SameIdentities, SameStars, SameGroups, SameMatches
<1>4. next' \in Nat \ {0}
  BY <1>1, <1>2 DEF Tracks!TypeOK
<1>5. Tracks!TypeOK'
  BY <1>1, <1>2, <1>4 DEF Tracks!TypeOK, Tracks!Rows
<1>6. TurnsBegin'
  BY <1>1 DEF TurnsBegin, Tracks!Working1
<1>7. /\ 1 \in DOMAIN queue /\ next \in DOMAIN queue[1].missing
      /\ Tracks!Missing1 = queue[1].missing[next]
      /\ Tracks!Missing1.path = Tracks!Missing1.id
  BY <1>1, <1>2, FirstGroup
<1>8. AreFound'
  <2> SUFFICES ASSUME NEW i \in missing, NEW j \in Tracks!Ids \ known, rowAt[j] = j,
                      fileLib[i] = fileLib[j], kind[i] = kind[j], ToFind(i, j)
               PROVE  ToFind(i, j)'
    BY <1>1, <1>2 DEF AreFound
  <2>1. ASSUME NEW k \in DOMAIN queue[1].missing, queue[1].missing[k].id = i, k >= next,
               NEW h \in DOMAIN queue[1].matched, queue[1].matched[h].id = j
        PROVE  k >= next + 1
    <3>1. j \notin used
      BY <1>2, TracksFacts DEF RowsOwn
    <3>2. queue[1].matched[h].path = j
      BY <1>2, <1>7, <2>1 DEF GroupsApart, MatchedTrack
    <3>3. k # next
      <4> SUFFICES ASSUME k = next PROVE FALSE
        OBVIOUS
      <4>1. Tracks!Missing1.path = i
        BY <1>7, <2>1
      <4> QED
        BY <1>1, <1>2, <2>1, <3>1, <3>2, <4>1, MatchExists
    <3>4. k \in Nat /\ next \in Nat
      <4>1. queue[1].missing \in Seq(Tracks!Tracks) /\ next \in Nat
        BY <1>2, <1>7, GroupTypes DEF Tracks!TypeOK
      <4> QED
        BY <4>1
    <3> QED
      BY <2>1, <3>3, <3>4
  <2> QED
    BY <1>1, <2>1 DEF ToFind
<1> QED
  BY <1>3, <1>5, <1>6, <1>8 DEF TracksInv, Tracks!AnnotationsStay

LEMMA RecoverFailsKeeps == TracksInv /\ Tracks!RecoverFails => TracksInv'
<1> SUFFICES ASSUME TracksInv, Tracks!RecoverFails PROVE TracksInv'
  OBVIOUS
<1>1. PICK target \in Tracks!Match : Tracks!MoveFails(Tracks!Missing1, target)
  BY DEF Tracks!RecoverFails
<1>2. /\ Tracks!Working1 /\ trackPhase' = "failed"
      /\ UNCHANGED <<fileLib, kind, libraries, purging, toRead, queue, passed, next, used, hasMatches,
                     cross, found, swept, known, before, purged, crossed, taken, moves>>
  BY DEF Tracks!RecoverFails, Tracks!files, Tracks!stage1, Tracks!stage2, Tracks!scan, Tracks!groups
<1>3. /\ Tracks!TypeOK /\ RowsOwn /\ GroupsApart /\ MatchesThere /\ TurnsBegin /\ AreFound
      /\ StarsKept /\ Tracks!OneRowPerFile /\ Tracks!IdentitiesStay /\ Tracks!StarsFollow
  BY InvParts
<1>4. Tracks!Missing1 \in Tracks!Tracks /\ target \in Tracks!Tracks
  BY <1>2, <1>3, FirstGroup, MatchTarget
<1>5. /\ UNCHANGED <<rowAt, missing, created, stars>>
      /\ trackFaults' \in 0 .. MaxTrackFaults
      /\ processed' \subseteq Libraries /\ halved' \subseteq Libraries
      /\ StarsKept' /\ Tracks!StarsFollow'
  BY <1>1, <1>2, <1>3, <1>4, MoveFailsMarks
<1>6. /\ RowsOwn' /\ Tracks!OneRowPerFile' /\ Tracks!IdentitiesStay' /\ GroupsApart' /\ MatchesThere'
      /\ TurnsBegin' /\ AreFound'
  BY <1>2, <1>3, <1>5, SameRowsOwn, SameFiles, SameIdentities, SameGroups, SameMatches, SameToFind
<1>7. Tracks!TypeOK'
  BY <1>2, <1>3, <1>5 DEF Tracks!TypeOK, Tracks!Rows
<1> QED
  BY <1>5, <1>6, <1>7 DEF TracksInv, Tracks!AnnotationsStay

LEMMA PassKeeps == TracksInv /\ Tracks!Pass => TracksInv'
<1> SUFFICES ASSUME TracksInv, Tracks!Pass PROVE TracksInv'
  OBVIOUS
<1>1. /\ queue # <<>> /\ next > Len(Tracks!Group.missing) /\ queue' = Tail(queue)
      /\ passed' = (IF hasMatches THEN passed ELSE Append(passed, Tracks!Group))
      /\ next' = 1 /\ used' = {} /\ hasMatches' = FALSE
      /\ UNCHANGED <<fileLib, kind, rowAt, missing, created, stars, libraries, purging, toRead,
                     cross, found, processed, trackPhase, trackFaults, known,
                     before, purged, crossed, taken, moves, halved, swept>>
  BY DEF Tracks!Pass, Tracks!files, Tracks!rows, Tracks!stage2, Tracks!history, Tracks!scan
<1>2. /\ Tracks!TypeOK /\ RowsOwn /\ GroupsApart /\ MatchesThere /\ TurnsBegin /\ AreFound
      /\ StarsKept /\ Tracks!OneRowPerFile /\ Tracks!IdentitiesStay /\ Tracks!StarsFollow
  BY InvParts
<1>3. /\ Tracks!OneRowPerFile' /\ Tracks!IdentitiesStay' /\ StarsKept' /\ Tracks!StarsFollow'
  BY <1>1, <1>2, SameFiles, SameIdentities, SameStars
<1>4. RowsOwn'
  BY <1>1, <1>2 DEF RowsOwn
<1>5. /\ queue \in Seq(Tracks!Groups) /\ passed \in Seq(Tracks!Groups) /\ next \in Nat
  BY <1>2 DEF Tracks!TypeOK
<1>6. /\ Tracks!Group = queue[1] /\ queue[1] \in Tracks!Groups /\ 1 \in DOMAIN queue
      /\ queue' \in Seq(Tracks!Groups)
      /\ \A n \in DOMAIN queue' : n + 1 \in DOMAIN queue /\ queue'[n] = queue[n + 1] /\ n + 1 # 1
      /\ \A n \in DOMAIN queue : n # 1 => n - 1 \in DOMAIN queue' /\ queue'[n - 1] = queue[n]
  BY <1>1, <1>5, TailAt DEF Tracks!Group
<1>7. /\ passed' \in Seq(Tracks!Groups)
      /\ \A n \in DOMAIN passed' : \/ n \in DOMAIN passed /\ passed'[n] = passed[n]
                                   \/ passed'[n] = queue[1]
  <2>1. CASE hasMatches
    BY <1>1, <1>5, <2>1
  <2>2. CASE ~hasMatches
    <3>1. passed' = Append(passed, queue[1])
      BY <1>1, <1>6, <2>2
    <3> QED
      BY <1>5, <1>6, <3>1, AppendAt
  <2> QED
    BY <2>1, <2>2
<1>8. Tracks!TypeOK'
  <2>1. 1 \in Nat \ {0} /\ {} \subseteq Tracks!Ids /\ FALSE \in BOOLEAN
    OBVIOUS
  <2> QED
    BY <1>1, <1>2, <1>6, <1>7, <2>1 DEF Tracks!TypeOK, Tracks!Rows
<1>9. TurnsBegin'
  BY <1>1 DEF TurnsBegin
<1>10. GroupsApart'
  <2>1. \A n \in DOMAIN queue' : \A k \in DOMAIN queue'[n].missing :
           MissingTrack(queue'[n].missing[k]) /\ queue'[n].missing[k].path = queue'[n].missing[k].id
    BY <1>2, <1>6 DEF GroupsApart
  <2>2. \A n \in DOMAIN queue' : \A k \in DOMAIN queue'[n].matched :
          /\ MatchedTrack(queue'[n].matched[k])
          /\ \A m \in DOMAIN toRead : toRead[m] # fileLib[queue'[n].matched[k].path]
    BY <1>2, <1>6 DEF GroupsApart
  <2>3. ASSUME NEW m \in DOMAIN queue', NEW n \in DOMAIN queue', m # n,
               NEW j \in DOMAIN queue'[m].matched, NEW k \in DOMAIN queue'[n].matched
        PROVE  queue'[m].matched[j].id # queue'[n].matched[k].id
    <3>1. m \in Nat /\ n \in Nat
      BY <1>6
    <3>2. /\ m + 1 \in DOMAIN queue /\ n + 1 \in DOMAIN queue /\ m + 1 # n + 1
          /\ queue'[m] = queue[m + 1] /\ queue'[n] = queue[n + 1]
      BY <1>6, <2>3, <3>1
    <3> QED
      BY <1>2, <3>2 DEF GroupsApart
  <2>4. \A n \in DOMAIN passed' : \A k \in DOMAIN passed'[n].missing :
           MissingTrack(passed'[n].missing[k])
    BY <1>2, <1>6, <1>7 DEF GroupsApart
  <2>5. /\ \A m, n \in DOMAIN toRead : toRead[m] = toRead[n] => m = n
        /\ \A t \in found : t.path \in crossed /\ (t.id \notin known => t.path = t.id)
    BY <1>2 DEF GroupsApart
  <2>6. UNCHANGED <<toRead, known, found, crossed, fileLib>>
    BY <1>1
  <2> QED
    BY <2>1, <2>2, <2>3, <2>4, <2>5, <2>6 DEF GroupsApart, MissingTrack, MatchedTrack
<1>11. MatchesThere'
  <2> SUFFICES ASSUME NEW n \in DOMAIN queue', NEW k \in DOMAIN queue'[n].matched
               PROVE  LET i == queue'[n].matched[k].id
                      IN  rowAt[i] = i \/ i \in crossed \/ (n = 1 /\ i \in {})
    BY <1>1 DEF MatchesThere
  <2>1. n + 1 \in DOMAIN queue /\ queue'[n] = queue[n + 1] /\ n + 1 # 1
    BY <1>6
  <2> QED
    BY <1>2, <2>1 DEF MatchesThere
<1>12. AreFound'
  <2> SUFFICES ASSUME NEW i, NEW j, ToFind(i, j) PROVE ToFind(i, j)'
    BY <1>1, <1>2 DEF AreFound
  <2>1. ASSUME NEW n \in DOMAIN queue, NEW k \in DOMAIN queue[n].missing, queue[n].missing[k].id = i,
               n = 1 => k >= next, NEW h \in DOMAIN queue[n].matched, queue[n].matched[h].id = j
        PROVE  ToFind(i, j)'
    <3>1. n # 1
      <4> SUFFICES ASSUME n = 1 PROVE FALSE
        OBVIOUS
      <4>1. queue[1].missing \in Seq(Tracks!Tracks)
        BY <1>2, <1>6, GroupTypes
      <4>2. k <= Len(queue[1].missing) /\ k \in Nat /\ Len(queue[1].missing) \in Nat
        BY <2>1, <4>1
      <4> QED
        BY <1>1, <1>5, <1>6, <2>1, <4>2
    <3>2. n - 1 \in DOMAIN queue' /\ queue'[n - 1] = queue[n]
      BY <1>6, <3>1
    <3>3. k \in Nat /\ k >= 1
      <4>1. queue[n].missing \in Seq(Tracks!Tracks)
        BY <1>2, GroupTypes
      <4> QED
        BY <4>1
    <3> QED
      BY <1>1, <2>1, <3>2, <3>3 DEF ToFind
  <2>2. ASSUME NEW n \in DOMAIN toRead, toRead[n] = fileLib[i] PROVE ToFind(i, j)'
    BY <1>1, <2>2 DEF ToFind
  <2> QED
    BY <2>1, <2>2 DEF ToFind
<1> QED
  BY <1>3, <1>4, <1>8, <1>9, <1>10, <1>11, <1>12 DEF TracksInv, Tracks!AnnotationsStay

-----------------------------------------------------------------------------
(* Missing tracks: the second stage *)

LEMMA SecondGroup ==
    ASSUME Tracks!TypeOK, GroupsApart, Tracks!Working2
    PROVE  Tracks!Missing2 \in Tracks!Tracks /\ MissingTrack(Tracks!Missing2)
<1>1. passed \in Seq(Tracks!Groups) /\ passed # <<>> /\ cross \in Nat \ {0}
  BY DEF Tracks!TypeOK, Tracks!Working2
<1>2. 1 \in DOMAIN passed /\ Head(passed) = passed[1]
  BY <1>1, TailAt
<1>3. passed[1].missing \in Seq(Tracks!Tracks)
  BY <1>2, GroupTypes
<1>4. cross \in DOMAIN passed[1].missing
  BY <1>1, <1>2, <1>3 DEF Tracks!Working2
<1>5. Tracks!Missing2 = passed[1].missing[cross]
  BY <1>2 DEF Tracks!Missing2
<1>6. Tracks!Missing2 \in Tracks!Tracks
  BY <1>3, <1>4, <1>5
<1> QED
  BY <1>2, <1>4, <1>5, <1>6 DEF GroupsApart

LEMMA FindKeeps == TracksInv /\ Tracks!Find => TracksInv'
<1> SUFFICES ASSUME TracksInv, Tracks!Find PROVE TracksInv'
  OBVIOUS
<1>1. /\ UNCHANGED <<fileLib, kind, rowAt, missing, created, stars, libraries, purging, toRead, queue,
                     passed, next, used, hasMatches, processed, trackPhase, trackFaults, known,
                     before, purged, taken, moves, halved, swept>>
      /\ \/ cross' = cross + 1 /\ UNCHANGED <<found, crossed>>
         \/ \E i \in Tracks!CrossMatch : /\ found' = {Tracks!Track(i)}
                                         /\ crossed' = crossed \cup {rowAt[i]}
                                         /\ UNCHANGED cross
  BY DEF Tracks!Find, Tracks!files, Tracks!rows, Tracks!stage1, Tracks!scan, Tracks!groups
<1>2. /\ Tracks!TypeOK /\ RowsOwn /\ GroupsApart /\ MatchesThere /\ TurnsBegin /\ AreFound
      /\ StarsKept /\ Tracks!OneRowPerFile /\ Tracks!IdentitiesStay /\ Tracks!StarsFollow
  BY InvParts
<1>3. /\ cross' \in Nat \ {0} /\ found' \subseteq Tracks!Tracks
      /\ crossed' \subseteq Tracks!Ids /\ crossed \subseteq crossed'
      /\ \A t \in found' : t.path \in crossed' /\ (t.id \notin known => t.path = t.id)
  <2>1. CASE cross' = cross + 1 /\ UNCHANGED <<found, crossed>>
    BY <1>2, <2>1 DEF Tracks!TypeOK, GroupsApart
  <2>2. CASE \E i \in Tracks!CrossMatch : /\ found' = {Tracks!Track(i)}
                                          /\ crossed' = crossed \cup {rowAt[i]}
                                          /\ UNCHANGED cross
    <3>1. PICK i \in Tracks!CrossMatch : /\ found' = {Tracks!Track(i)}
                                         /\ crossed' = crossed \cup {rowAt[i]}
                                         /\ UNCHANGED cross
      BY <2>2
    <3>2. i \in Tracks!Recent
      BY <3>1 DEF Tracks!CrossMatch
    <3>3. i \in Tracks!Ids /\ rowAt[i] # 0
      BY <3>2, TracksFacts DEF Tracks!Recent, Tracks!Rows
    <3>4. /\ rowAt[i] \in Tracks!Ids /\ created[i] \in 0 .. 2
          /\ cross \in Nat \ {0} /\ crossed \subseteq Tracks!Ids
      BY <1>2, <3>3, TracksFacts DEF Tracks!TypeOK
    <3>5. /\ Tracks!Track(i) \in Tracks!Tracks
          /\ Tracks!Track(i).id = i /\ Tracks!Track(i).path = rowAt[i]
      BY <3>3, <3>4, TracksFacts DEF Tracks!Track, Tracks!Tracks
    <3>6. i \notin known => rowAt[i] = i
      BY <1>2, <3>3 DEF RowsOwn
    <3> QED
      BY <3>1, <3>4, <3>5, <3>6
  <2> QED
    BY <1>1, <2>1, <2>2
<1>4. Tracks!TypeOK'
  BY <1>1, <1>2, <1>3 DEF Tracks!TypeOK, Tracks!Rows
<1>5. /\ RowsOwn' /\ Tracks!OneRowPerFile' /\ Tracks!IdentitiesStay' /\ StarsKept'
      /\ Tracks!StarsFollow' /\ MatchesThere' /\ TurnsBegin' /\ AreFound'
  BY <1>1, <1>2, <1>3, SameRowsOwn, SameFiles, SameIdentities, SameStars, SameMatches, SameToFind
<1>6. GroupsApart'
  BY <1>1, <1>2, <1>3 DEF GroupsApart, MissingTrack, MatchedTrack
<1> QED
  BY <1>4, <1>5, <1>6 DEF TracksInv, Tracks!AnnotationsStay

LEMMA FindFailsKeeps == TracksInv /\ Tracks!FindFails => TracksInv'
<1> SUFFICES ASSUME TracksInv, Tracks!FindFails PROVE TracksInv'
  OBVIOUS
<1>1. /\ Tracks!Fault /\ cross' = cross + 1
      /\ UNCHANGED <<fileLib, kind, rowAt, missing, created, stars, libraries, purging, toRead, queue,
                     passed, next, used, hasMatches, found, processed, trackPhase, known,
                     before, purged, crossed, taken, moves, halved, swept>>
  BY DEF Tracks!FindFails, Tracks!files, Tracks!rows, Tracks!stage1, Tracks!scan, Tracks!groups,
         Tracks!history
<1>2. /\ Tracks!TypeOK /\ RowsOwn /\ GroupsApart /\ MatchesThere /\ TurnsBegin /\ AreFound
      /\ StarsKept /\ Tracks!OneRowPerFile /\ Tracks!IdentitiesStay /\ Tracks!StarsFollow
  BY InvParts
<1>3. cross' \in Nat \ {0} /\ trackFaults' \in 0 .. MaxTrackFaults
  BY <1>1, <1>2, TrackFaultTypes DEF Tracks!TypeOK
<1>4. Tracks!TypeOK'
  BY <1>1, <1>2, <1>3 DEF Tracks!TypeOK, Tracks!Rows
<1>5. /\ RowsOwn' /\ Tracks!OneRowPerFile' /\ Tracks!IdentitiesStay' /\ StarsKept'
      /\ Tracks!StarsFollow' /\ GroupsApart' /\ MatchesThere' /\ TurnsBegin' /\ AreFound'
  BY <1>1, <1>2, SameRowsOwn, SameFiles, SameIdentities, SameStars, SameGroups, SameMatches, SameToFind
<1> QED
  BY <1>4, <1>5 DEF TracksInv, Tracks!AnnotationsStay

LEMMA MoveKeeps == TracksInv /\ Tracks!Move => TracksInv'
<1> SUFFICES ASSUME TracksInv, Tracks!Move PROVE TracksInv'
  OBVIOUS
<1> DEFINE t == Tracks!Missing2
<1>1. PICK target \in found :
         /\ Tracks!MoveRow(t, target) /\ Tracks!MoveAlbum(t, target)
         /\ taken' = taken \cup {target.id}
  BY DEF Tracks!Move
<1>2. /\ Tracks!Working2 /\ cross' = cross + 1 /\ found' = {}
      /\ UNCHANGED <<fileLib, kind, libraries, purging, toRead, queue, passed, next, used, hasMatches,
                     trackPhase, trackFaults, swept, known, before, purged, crossed, halved>>
  BY DEF Tracks!Move, Tracks!files, Tracks!stage1, Tracks!scan, Tracks!groups
<1>3. /\ Tracks!TypeOK /\ RowsOwn /\ GroupsApart /\ MatchesThere /\ TurnsBegin /\ AreFound
      /\ StarsKept /\ Tracks!OneRowPerFile /\ Tracks!IdentitiesStay /\ Tracks!StarsFollow
  BY InvParts
<1>4. t \in Tracks!Tracks /\ MissingTrack(t)
  BY <1>2, <1>3, SecondGroup
<1>5. /\ target \in Tracks!Tracks
      /\ target.path \in crossed /\ (target.id \notin known => target.path = target.id)
  BY <1>3 DEF Tracks!TypeOK, GroupsApart
<1> HIDE DEF t
<1> DEFINE i0 == t.id
           j0 == target.id
           p0 == target.path
<1>6. /\ i0 \in known /\ i0 \in Tracks!Ids /\ j0 \in Tracks!Ids /\ p0 \in Tracks!Ids
      /\ p0 \in crossed /\ (j0 \notin known => p0 = j0)
  BY <1>4, <1>5, TrackTypes DEF MissingTrack
<1>7. /\ rowAt' \in [Tracks!Ids -> Tracks!Ids \cup {0}] /\ created' \in [Tracks!Ids -> 0 .. 2]
      /\ missing' = missing \ {i0, j0} /\ rowAt'[j0] = 0
      /\ i0 # j0 => rowAt'[i0] = p0
      /\ \A i \in Tracks!Ids \ {i0, j0} : rowAt'[i] = rowAt[i]
      /\ missing' \subseteq {i \in Tracks!Ids : rowAt'[i] # 0}
      /\ RowsOwn'
  BY <1>1, <1>2, <1>3, <1>4, <1>5, MoveRowMoves
<1>8. /\ stars' \subseteq Libraries /\ processed' \subseteq Libraries
      /\ moves' \subseteq Libraries \X Libraries
      /\ StarsKept' /\ Tracks!StarsFollow'
  BY <1>1, <1>2, <1>3, <1>4, <1>5, MoveAlbumMoves
<1> HIDE DEF i0, p0
<1>9. Tracks!TypeOK'
  <2>1. taken' \subseteq Tracks!Ids /\ cross' \in Nat \ {0} /\ found' \subseteq Tracks!Tracks
    BY <1>1, <1>2, <1>3, <1>6 DEF Tracks!TypeOK
  <2> QED
    BY <1>2, <1>3, <1>7, <1>8, <2>1, TracksFacts DEF Tracks!TypeOK, Tracks!Rows
<1>10. GroupsApart'
  BY <1>2, <1>3 DEF GroupsApart, MissingTrack, MatchedTrack
<1>11. MatchesThere'
  <2> SUFFICES ASSUME NEW n \in DOMAIN queue, NEW k \in DOMAIN queue[n].matched
               PROVE  LET i == queue[n].matched[k].id
                      IN  rowAt'[i] = i \/ i \in crossed \/ (n = 1 /\ i \in used)
    BY <1>2 DEF MatchesThere
  <2> DEFINE i == queue[n].matched[k].id
  <2>1. i \in Tracks!Ids /\ i \notin known
    <3>1. queue[n].matched \in Seq(Tracks!Tracks) /\ MatchedTrack(queue[n].matched[k])
      BY <1>3, GroupTypes DEF GroupsApart
    <3>2. queue[n].matched[k] \in Tracks!Tracks
      BY <3>1
    <3> QED
      BY <3>1, <3>2, TrackTypes DEF MatchedTrack
  <2>2. rowAt[i] = i \/ i \in crossed \/ (n = 1 /\ i \in used)
    BY <1>3 DEF MatchesThere
  <2> HIDE DEF i
  <2>3. i = j0 => i \in crossed
    BY <1>6, <2>1
  <2>4. i # j0 => rowAt'[i] = rowAt[i]
    BY <1>6, <1>7, <2>1
  <2> QED
    BY <2>2, <2>3, <2>4 DEF i
<1>12. AreFound'
  <2> SUFFICES ASSUME NEW i \in missing', NEW j \in Tracks!Ids \ known, rowAt'[j] = j,
                      fileLib[i] = fileLib[j], kind[i] = kind[j],
                      \E n \in DOMAIN libraries : libraries[n] = fileLib[i]
               PROVE  ToFind(i, j)'
    BY <1>2 DEF AreFound
  <2>1. i \in missing /\ j # j0 /\ j # i0
    BY <1>6, <1>7, TracksFacts
  <2>2. rowAt[j] = j
    BY <1>7, <2>1
  <2>3. ToFind(i, j)
    BY <1>3, <2>1, <2>2 DEF AreFound
  <2> QED
    BY <1>2, <2>3 DEF ToFind
<1>13. Tracks!OneRowPerFile'
  <2> SUFFICES ASSUME NEW i \in Tracks!Ids, NEW j \in Tracks!Ids, i # j, rowAt'[i] # 0,
                      rowAt'[i] = rowAt'[j], i \notin missing', j \notin missing'
               PROVE  rowAt'[i] \in crossed
    BY <1>2, TracksFacts DEF Tracks!OneRowPerFile, Tracks!Rows
  <2>1. i # j0 /\ j # j0
    BY <1>7
  <2>2. CASE i = i0
    BY <1>6, <1>7, <2>1, <2>2
  <2>3. CASE j = i0
    BY <1>6, <1>7, <2>1, <2>3
  <2>4. CASE i # i0 /\ j # i0
    <3>1. rowAt[i] = rowAt'[i] /\ rowAt[j] = rowAt'[j] /\ i \notin missing /\ j \notin missing
      BY <1>7, <2>1, <2>4
    <3> QED
      BY <1>3, <3>1, TracksFacts DEF Tracks!OneRowPerFile, Tracks!Rows
  <2> QED
    BY <2>2, <2>3, <2>4
<1>14. Tracks!IdentitiesStay'
  <2> SUFFICES ASSUME NEW i \in known PROVE rowAt'[i] # 0 \/ i \in purged \cup taken'
    BY <1>2, TracksFacts DEF Tracks!IdentitiesStay
  <2>1. i \in Tracks!Ids
    BY <1>3 DEF Tracks!TypeOK
  <2>2. i = j0 \/ rowAt'[i] = rowAt[i] \/ rowAt'[i] = p0
    BY <1>7, <2>1
  <2>3. taken \subseteq taken' /\ j0 \in taken' /\ p0 # 0
    BY <1>1, <1>6, TracksFacts
  <2> QED
    BY <1>3, <2>2, <2>3, TracksFacts DEF Tracks!IdentitiesStay
<1>15. TurnsBegin'
  BY <1>2, <1>3 DEF TurnsBegin
<1> QED
  BY <1>7, <1>8, <1>9, <1>10, <1>11, <1>12, <1>13, <1>14, <1>15 DEF TracksInv, Tracks!AnnotationsStay

LEMMA MoveIsLostKeeps == TracksInv /\ Tracks!MoveIsLost => TracksInv'
<1> SUFFICES ASSUME TracksInv, Tracks!MoveIsLost PROVE TracksInv'
  OBVIOUS
<1>1. PICK target \in found : Tracks!MoveFails(Tracks!Missing2, target)
  BY DEF Tracks!MoveIsLost
<1>2. /\ Tracks!Working2 /\ cross' = cross + 1 /\ found' = {}
      /\ UNCHANGED <<fileLib, kind, libraries, purging, toRead, queue, passed, next, used, hasMatches,
                     trackPhase, swept, known, before, purged, crossed, taken, moves>>
  BY DEF Tracks!MoveIsLost, Tracks!files, Tracks!stage1, Tracks!scan, Tracks!groups
<1>3. /\ Tracks!TypeOK /\ RowsOwn /\ GroupsApart /\ MatchesThere /\ TurnsBegin /\ AreFound
      /\ StarsKept /\ Tracks!OneRowPerFile /\ Tracks!IdentitiesStay /\ Tracks!StarsFollow
  BY InvParts
<1>4. Tracks!Missing2 \in Tracks!Tracks /\ target \in Tracks!Tracks
  BY <1>2, <1>3, SecondGroup DEF Tracks!TypeOK
<1>5. /\ UNCHANGED <<rowAt, missing, created, stars>>
      /\ trackFaults' \in 0 .. MaxTrackFaults
      /\ processed' \subseteq Libraries /\ halved' \subseteq Libraries
      /\ StarsKept' /\ Tracks!StarsFollow'
  BY <1>1, <1>2, <1>3, <1>4, MoveFailsMarks
<1>6. /\ RowsOwn' /\ Tracks!OneRowPerFile' /\ Tracks!IdentitiesStay' /\ MatchesThere'
      /\ TurnsBegin' /\ AreFound'
  BY <1>2, <1>3, <1>5, SameRowsOwn, SameFiles, SameIdentities, SameMatches, SameToFind
<1>7. GroupsApart'
  BY <1>2, <1>3 DEF GroupsApart, MissingTrack, MatchedTrack
<1>8. cross' \in Nat \ {0} /\ found' \subseteq Tracks!Tracks
  BY <1>2, <1>3 DEF Tracks!TypeOK
<1>9. Tracks!TypeOK'
  BY <1>2, <1>3, <1>5, <1>8 DEF Tracks!TypeOK, Tracks!Rows
<1> QED
  BY <1>5, <1>6, <1>7, <1>9 DEF TracksInv, Tracks!AnnotationsStay

LEMMA NextGroupKeeps == TracksInv /\ Tracks!NextGroup => TracksInv'
<1> SUFFICES ASSUME TracksInv, Tracks!NextGroup PROVE TracksInv'
  OBVIOUS
<1>1. /\ passed # <<>> /\ passed' = Tail(passed) /\ cross' = 1
      /\ UNCHANGED <<fileLib, kind, rowAt, missing, created, stars, libraries, purging, toRead, queue,
                     next, used, hasMatches, found, processed, trackPhase, trackFaults, known,
                     before, purged, crossed, taken, moves, halved, swept>>
  BY DEF Tracks!NextGroup, Tracks!files, Tracks!rows, Tracks!stage1, Tracks!scan, Tracks!history
<1>2. /\ Tracks!TypeOK /\ RowsOwn /\ GroupsApart /\ MatchesThere /\ TurnsBegin /\ AreFound
      /\ StarsKept /\ Tracks!OneRowPerFile /\ Tracks!IdentitiesStay /\ Tracks!StarsFollow
  BY InvParts
<1>3. /\ passed' \in Seq(Tracks!Groups)
      /\ \A n \in DOMAIN passed' : n + 1 \in DOMAIN passed /\ passed'[n] = passed[n + 1]
  BY <1>1, <1>2, TailAt DEF Tracks!TypeOK
<1>4. Tracks!TypeOK'
  BY <1>1, <1>2, <1>3 DEF Tracks!TypeOK, Tracks!Rows
<1>5. /\ RowsOwn' /\ Tracks!OneRowPerFile' /\ Tracks!IdentitiesStay' /\ StarsKept'
      /\ Tracks!StarsFollow' /\ MatchesThere' /\ TurnsBegin' /\ AreFound'
  BY <1>1, <1>2, SameRowsOwn, SameFiles, SameIdentities, SameStars, SameMatches, SameToFind
<1>6. GroupsApart'
  BY <1>1, <1>2, <1>3 DEF GroupsApart, MissingTrack, MatchedTrack
<1> QED
  BY <1>4, <1>5, <1>6 DEF TracksInv, Tracks!AnnotationsStay

-----------------------------------------------------------------------------
(* Missing tracks: rows that are deleted, and the end *)

LEMMA DeleteDeletes ==
    ASSUME Tracks!TypeOK, RowsOwn, Tracks!IdentitiesStay, Tracks!OneRowPerFile, MatchesThere,
           GroupsApart, AreFound,
           NEW ids \in SUBSET missing, Tracks!Delete(ids),
           UNCHANGED <<fileLib, kind, libraries, known, used, taken, crossed, queue, toRead, next>>
    PROVE  /\ rowAt' \in [Tracks!Ids -> Tracks!Ids \cup {0}] /\ created' \in [Tracks!Ids -> 0 .. 2]
           /\ missing' \subseteq {i \in Tracks!Ids : rowAt'[i] # 0}
           /\ purged' \subseteq Tracks!Ids
           /\ RowsOwn' /\ Tracks!IdentitiesStay' /\ Tracks!OneRowPerFile' /\ MatchesThere' /\ AreFound'
<1>1. /\ rowAt \in [Tracks!Ids -> Tracks!Ids \cup {0}] /\ created \in [Tracks!Ids -> 0 .. 2]
      /\ missing \subseteq {i \in Tracks!Ids : rowAt[i] # 0} /\ known \subseteq Tracks!Ids
      /\ used \subseteq Tracks!Ids /\ purged \subseteq Tracks!Ids /\ 0 \in 0 .. 2
  BY TracksFacts DEF Tracks!TypeOK, Tracks!Rows
<1>2. /\ rowAt' = [i \in Tracks!Ids |-> IF i \in ids THEN 0 ELSE rowAt[i]]
      /\ created' = [i \in Tracks!Ids |-> IF i \in ids THEN 0 ELSE created[i]]
      /\ missing' = missing \ ids /\ purged' = purged \cup ids
  BY TracksFacts DEF Tracks!Delete
<1>3. /\ rowAt' \in [Tracks!Ids -> Tracks!Ids \cup {0}] /\ created' \in [Tracks!Ids -> 0 .. 2]
      /\ \A i \in ids : rowAt'[i] = 0 /\ created'[i] = 0
      /\ \A i \in Tracks!Ids \ ids : rowAt'[i] = rowAt[i] /\ created'[i] = created[i]
  BY <1>1, <1>2
<1>4. missing' \subseteq {i \in Tracks!Ids : rowAt'[i] # 0} /\ purged' \subseteq Tracks!Ids
  BY <1>1, <1>2, <1>3
<1>5. ids \subseteq known
  BY DEF RowsOwn
<1>6. RowsOwn'
  <2>1. missing' \subseteq known' /\ \A i \in missing' : rowAt'[i] = i
    BY <1>1, <1>2, <1>3 DEF RowsOwn
  <2>2. \A i \in Tracks!Ids \ known' : rowAt'[i] \in {0, i} /\ (rowAt'[i] # 0 => created'[i] = 2)
    BY <1>3, <1>5 DEF RowsOwn
  <2>3. \A i \in known' : created'[i] # 2
    BY <1>1, <1>3 DEF RowsOwn
  <2>4. \A i \in used' : i \notin known' /\ rowAt'[i] = 0
    BY <1>1, <1>3 DEF RowsOwn
  <2> QED
    BY <2>1, <2>2, <2>3, <2>4 DEF RowsOwn
<1>7. Tracks!IdentitiesStay'
  BY <1>1, <1>2, <1>3, TracksFacts DEF Tracks!IdentitiesStay
<1>8. Tracks!OneRowPerFile'
  BY <1>1, <1>2, <1>3, TracksFacts DEF Tracks!OneRowPerFile, Tracks!Rows
<1>9. MatchesThere'
  <2> SUFFICES ASSUME NEW n \in DOMAIN queue, NEW k \in DOMAIN queue[n].matched
               PROVE  rowAt'[queue[n].matched[k].id] = rowAt[queue[n].matched[k].id]
    BY DEF MatchesThere
  <2>1. queue[n].matched \in Seq(Tracks!Tracks) /\ MatchedTrack(queue[n].matched[k])
    BY GroupTypes DEF GroupsApart
  <2>2. queue[n].matched[k] \in Tracks!Tracks
    BY <2>1
  <2> QED
    BY <1>3, <1>5, <2>1, <2>2, TrackTypes DEF MatchedTrack
<1>10. AreFound'
  <2> SUFFICES ASSUME NEW i \in missing', NEW j \in Tracks!Ids \ known, rowAt'[j] = j,
                      fileLib[i] = fileLib[j], kind[i] = kind[j],
                      \E n \in DOMAIN libraries : libraries[n] = fileLib[i]
               PROVE  ToFind(i, j)'
    BY DEF AreFound
  <2>1. i \in missing /\ rowAt[j] = j
    BY <1>2, <1>3, <1>5
  <2>2. ToFind(i, j)
    BY <2>1 DEF AreFound
  <2> QED
    BY <2>2 DEF ToFind
<1> QED
  BY <1>3, <1>4, <1>6, <1>7, <1>8, <1>9, <1>10

LEMMA FinalizeKeeps == TracksInv /\ Tracks!Finalize => TracksInv'
<1> SUFFICES ASSUME TracksInv, Tracks!Finalize PROVE TracksInv'
  OBVIOUS
<1>1. /\ trackPhase' = "end"
      /\ Tracks!Delete(missing) \/ UNCHANGED <<rowAt, missing, created, purged>>
      /\ UNCHANGED <<fileLib, kind, stars, libraries, purging, toRead, queue, passed, next, used,
                     hasMatches, cross, found, processed, trackFaults, swept, known,
                     before, crossed, taken, moves, halved>>
  BY DEF Tracks!Finalize, Tracks!files, Tracks!rows, Tracks!stage1, Tracks!stage2, Tracks!scan,
         Tracks!groups
<1>2. /\ Tracks!TypeOK /\ RowsOwn /\ GroupsApart /\ MatchesThere /\ TurnsBegin /\ AreFound
      /\ StarsKept /\ Tracks!OneRowPerFile /\ Tracks!IdentitiesStay /\ Tracks!StarsFollow
  BY InvParts
<1>3. /\ rowAt' \in [Tracks!Ids -> Tracks!Ids \cup {0}] /\ created' \in [Tracks!Ids -> 0 .. 2]
      /\ missing' \subseteq {i \in Tracks!Ids : rowAt'[i] # 0}
      /\ purged' \subseteq Tracks!Ids
      /\ RowsOwn' /\ Tracks!IdentitiesStay' /\ Tracks!OneRowPerFile' /\ MatchesThere' /\ AreFound'
  <2>1. CASE Tracks!Delete(missing)
    BY <1>1, <1>2, <2>1, DeleteDeletes
  <2>2. CASE UNCHANGED <<rowAt, missing, created, purged>>
    <3>1. RowsOwn' /\ Tracks!IdentitiesStay' /\ Tracks!OneRowPerFile' /\ MatchesThere' /\ AreFound'
      BY <1>1, <1>2, <2>2, SameRowsOwn, SameFiles, SameIdentities, SameMatches, SameToFind
    <3> QED
      BY <1>2, <2>2, <3>1, TracksFacts DEF Tracks!TypeOK, Tracks!Rows
  <2> QED
    BY <1>1, <2>1, <2>2
<1>4. GroupsApart' /\ TurnsBegin' /\ StarsKept' /\ Tracks!StarsFollow'
  BY <1>1, <1>2, SameGroups, SameStars DEF TurnsBegin
<1>5. Tracks!TypeOK'
  BY <1>1, <1>2, <1>3, TracksFacts DEF Tracks!TypeOK, Tracks!Rows
<1> QED
  BY <1>3, <1>4, <1>5 DEF TracksInv, Tracks!AnnotationsStay

LEMMA AdminDeleteKeeps ==
    ASSUME TracksInv, NEW ids \in SUBSET missing, Tracks!AdminDelete(ids) PROVE TracksInv'
<1>1. /\ Tracks!Fault /\ Tracks!Delete(ids) /\ swept' = TRUE /\ stars' \subseteq stars
      /\ UNCHANGED <<fileLib, kind, libraries, purging, toRead, queue, passed, next, used,
                     hasMatches, cross, found, processed, trackPhase, known,
                     before, crossed, taken, moves, halved>>
  BY DEF Tracks!AdminDelete, Tracks!files, Tracks!stage1, Tracks!stage2, Tracks!scan, Tracks!groups
<1>2. /\ Tracks!TypeOK /\ RowsOwn /\ GroupsApart /\ MatchesThere /\ TurnsBegin /\ AreFound
      /\ StarsKept /\ Tracks!OneRowPerFile /\ Tracks!IdentitiesStay /\ Tracks!StarsFollow
  BY InvParts
<1>3. /\ rowAt' \in [Tracks!Ids -> Tracks!Ids \cup {0}] /\ created' \in [Tracks!Ids -> 0 .. 2]
      /\ missing' \subseteq {i \in Tracks!Ids : rowAt'[i] # 0}
      /\ purged' \subseteq Tracks!Ids
      /\ RowsOwn' /\ Tracks!IdentitiesStay' /\ Tracks!OneRowPerFile' /\ MatchesThere' /\ AreFound'
  BY <1>1, <1>2, DeleteDeletes
<1>4. GroupsApart' /\ TurnsBegin'
  BY <1>1, <1>2, SameGroups DEF TurnsBegin
<1>5. StarsKept' /\ Tracks!StarsFollow'
  BY <1>1, <1>2 DEF StarsKept, Tracks!StarsFollow
<1>6. trackFaults' \in 0 .. MaxTrackFaults /\ swept' \in BOOLEAN /\ stars' \subseteq Libraries
  BY <1>1, <1>2, TrackFaultTypes DEF Tracks!TypeOK
<1>7. Tracks!TypeOK'
  BY <1>1, <1>2, <1>3, <1>6, TracksFacts DEF Tracks!TypeOK, Tracks!Rows
<1> QED
  BY <1>3, <1>4, <1>5, <1>7 DEF TracksInv, Tracks!AnnotationsStay

LEMMA InitTracks == Tracks!Init => TracksInv
<1> SUFFICES ASSUME Tracks!Init PROVE TracksInv
  OBVIOUS
<1>1. /\ fileLib \in [Tracks!Ids -> Libraries] /\ kind \in [Tracks!Ids -> Tracks!Kinds]
      /\ rowAt = [i \in Tracks!Ids |-> i]
      /\ missing \in SUBSET Tracks!Ids
      /\ created \in [Tracks!Ids -> 0 .. 2] /\ \A i \in missing : created[i] # 2
      /\ stars \in SUBSET Libraries
      /\ libraries \in Scanned /\ purging \in BOOLEAN
      /\ toRead = libraries /\ queue = <<>> /\ passed = <<>>
      /\ next = 1 /\ used = {} /\ hasMatches = FALSE
      /\ cross = 1 /\ found = {}
      /\ processed = {}
      /\ trackPhase = "run" /\ trackFaults = 0
      /\ known = {i \in Tracks!Ids : created[i] # 2} /\ before = stars
      /\ purged = {} /\ crossed = {} /\ taken = {} /\ moves = {} /\ halved = {}
      /\ swept = FALSE
  BY TracksFacts DEF Tracks!Init
<1>2. libraries \in Seq(Libraries) /\ \A m, n \in DOMAIN libraries : libraries[m] = libraries[n] => m = n
  BY <1>1, TracksFacts
<1>3. rowAt \in [Tracks!Ids -> Tracks!Ids \cup {0}] /\ \A i \in Tracks!Ids : rowAt[i] = i /\ i # 0
  BY <1>1, TracksFacts
<1>4. Tracks!TypeOK
  <2>1. missing \subseteq Tracks!Rows
    BY <1>1, <1>3, TracksFacts DEF Tracks!Rows
  <2>2. queue \in Seq(Tracks!Groups) /\ passed \in Seq(Tracks!Groups)
    BY <1>1
  <2>3. trackFaults \in 0 .. MaxTrackFaults /\ next \in Nat \ {0} /\ cross \in Nat \ {0}
    BY <1>1, TracksFacts
  <2>4. created \in [Tracks!Ids -> 0 .. Tracks!New] /\ rowAt \in [Tracks!Ids -> Tracks!Ids \cup {Tracks!None}]
    BY <1>1, <1>3, TracksFacts
  <2>5. known \subseteq Tracks!Ids /\ toRead \in Seq(Libraries)
    BY <1>1, <1>2
  <2> QED
    BY <1>1, <1>2, <2>1, <2>2, <2>3, <2>4, <2>5 DEF Tracks!TypeOK
<1>5. RowsOwn
  BY <1>1, <1>3 DEF RowsOwn
<1>6. GroupsApart /\ MatchesThere /\ TurnsBegin
  BY <1>1, <1>2 DEF GroupsApart, MatchesThere, TurnsBegin
<1>7. AreFound
  BY <1>1 DEF AreFound, ToFind
<1>8. StarsKept /\ Tracks!StarsFollow
  BY <1>1 DEF StarsKept, Tracks!StarsFollow
<1>9. Tracks!OneRowPerFile /\ Tracks!IdentitiesStay
  BY <1>1, <1>3, TracksFacts DEF Tracks!OneRowPerFile, Tracks!IdentitiesStay, Tracks!Rows
<1> QED
  BY <1>4, <1>5, <1>6, <1>7, <1>8, <1>9 DEF TracksInv, Tracks!AnnotationsStay

LEMMA TracksRest == TracksInv /\ UNCHANGED trackVars => TracksInv'
<1> SUFFICES ASSUME TracksInv, UNCHANGED trackVars PROVE TracksInv'
  OBVIOUS
<1>1. UNCHANGED <<fileLib, kind, rowAt, missing, created, stars, libraries, purging, toRead, queue,
                  passed, next, used, hasMatches, cross, found, processed, trackPhase, trackFaults,
                  known, before, purged, crossed, taken, moves, halved, swept>>
  BY DEF trackVars
<1>2. /\ Tracks!TypeOK /\ RowsOwn /\ GroupsApart /\ MatchesThere /\ TurnsBegin /\ AreFound
      /\ StarsKept /\ Tracks!OneRowPerFile /\ Tracks!IdentitiesStay /\ Tracks!StarsFollow
  BY InvParts
<1>3. Tracks!TypeOK'
  BY <1>1, <1>2 DEF Tracks!TypeOK, Tracks!Rows
<1>4. /\ RowsOwn' /\ Tracks!OneRowPerFile' /\ Tracks!IdentitiesStay' /\ StarsKept'
      /\ Tracks!StarsFollow' /\ GroupsApart' /\ MatchesThere' /\ TurnsBegin' /\ AreFound'
  BY <1>1, <1>2, SameRowsOwn, SameFiles, SameIdentities, SameStars, SameGroups, SameMatches, SameToFind
<1> QED
  BY <1>3, <1>4 DEF TracksInv, Tracks!AnnotationsStay

LEMMA TracksStep == TracksInv /\ Tracks!Next => TracksInv'
<1> SUFFICES ASSUME TracksInv, Tracks!Next PROVE TracksInv'
  OBVIOUS
<1>1. ASSUME NEW ids \in SUBSET missing, Tracks!AdminDelete(ids) PROVE TracksInv'
  BY <1>1, AdminDeleteKeeps
<1> QED
  BY <1>1, ReadKeeps, RecoverKeeps, NoMatchKeeps, RecoverFailsKeeps, PassKeeps, FindKeeps,
     FindFailsKeeps, MoveKeeps, MoveIsLostKeeps, NextGroupKeeps, FinalizeKeeps DEF Tracks!Next

LEMMA TracksHold == ScannerSpec => []TracksInv
<1>1. ScannerInit => TracksInv
  BY InitTracks DEF ScannerInit
<1>2. TracksInv /\ [ScannerNext]_<<component, vars, trackVars, bookVars>> => TracksInv'
  <2> SUFFICES ASSUME TracksInv, [ScannerNext]_<<component, vars, trackVars, bookVars>>
               PROVE  TracksInv'
    OBVIOUS
  <2>1. Tracks!Next \/ UNCHANGED trackVars
    BY DEF ScannerNext
  <2> QED
    BY <2>1, TracksStep, TracksRest
<1> QED
  BY <1>1, <1>2, PTL DEF ScannerSpec

\* A track that is missing and an equal one that has appeared are still to be found,
\* so that there are none when nothing is left to be read or to be matched.
LEMMA NoneLeft == TracksInv => Tracks!MovesAreFound
<1> SUFFICES ASSUME TracksInv, toRead = <<>>, queue = <<>>,
                    NEW i \in missing, NEW j \in Tracks!Rows \ missing,
                    fileLib[rowAt[i]] = fileLib[rowAt[j]], created[j] = 2,
                    kind[rowAt[i]] = kind[rowAt[j]],
                    NEW n \in DOMAIN libraries, libraries[n] = fileLib[rowAt[i]]
             PROVE  FALSE
  BY TracksFacts DEF Tracks!MovesAreFound, Tracks!Equals
<1>1. RowsOwn /\ AreFound
  BY InvParts
<1>2. j \in Tracks!Ids /\ rowAt[j] # 0
  BY TracksFacts DEF Tracks!Rows
<1>3. j \notin known /\ rowAt[j] = j /\ rowAt[i] = i
  BY <1>1, <1>2 DEF RowsOwn
<1>4. ToFind(i, j)
  BY <1>1, <1>2, <1>3 DEF AreFound
<1> QED
  BY <1>4 DEF ToFind

\* A file on disk has one row, but for those the second stage finds, and at the end no
\* track of a library that was looked at is missing while an equal one has appeared there.
THEOREM MovesAreAlwaysRight == ScannerSpec => []MovesAreRight
<1>1. TracksInv => MovesAreRight
  BY NoneLeft, InvParts DEF MovesAreRight
<1> QED
  BY <1>1, TracksHold, PTL

\* What users have attached to tracks and albums survives moves: the rows they know stay
\* until they are deleted as missing, or the second stage takes them, and the annotations
\* of an album follow its tracks.
THEOREM AnnotationsAlwaysStay == ScannerSpec => []AnnotationsStay
<1>1. TracksInv => AnnotationsStay
  BY DEF TracksInv, AnnotationsStay
<1> QED
  BY <1>1, TracksHold, PTL

-----------------------------------------------------------------------------
(* The scanner *)

LEMMA ScannerScans == ScannerSpec => Spec
<1>1. ScannerInit => Init
  BY DEF ScannerInit
<1>2. [ScannerNext]_<<component, vars, trackVars, bookVars>> => [Next]_vars
  BY DEF ScannerNext
<1> QED
  BY <1>1, <1>2, PTL DEF ScannerSpec, Spec

\* The variables of the three components keep their types, whichever runs.
THEOREM TypesAreOK == ScannerSpec => []TypesOK
<1>1. Spec => []TypeOK
  BY ScannerAssumption, TypeCorrect
<1>2. TypeOK /\ TracksInv /\ BooksInv => TypesOK
  BY BooksInvTyped DEF TypesOK, TracksInv
<1> QED
  BY <1>1, <1>2, ScannerScans, TracksHold, BooksHold, PTL
=============================================================================
