---------------------------- MODULE PluginManager ----------------------------
(***************************************************************************)
(* One plugin in the plugin manager (plugins/manager*.go): its package in  *)
(* the plugins folder, its row in the database, and what is loaded in      *)
(* memory.  Requests of administrators, the watcher of the folder, Start   *)
(* and Stop run at the same time, each a sequence of statements on the row *)
(* and of critical sections on the map.                                    *)
(*                                                                         *)
(* The plugin requires permission for users: settings 0 stand for a row    *)
(* without users.  Each load that gets to its host services makes a new    *)
(* instance; numbers serve again once an instance is closed.  Requests     *)
(* that come before Start are left out.                                    *)
(***************************************************************************)
EXTENDS Naturals, FiniteSetsExt

CONSTANTS
    Ops,             \* operations that may be under way at a time
    Settings,        \* settings with users
    Versions,        \* packages the folder may hold
    MaxRequests,     \* bound: operations begun
    MaxInstances,    \* bound: instances at a time
    Faults           \* the package can be unreadable, and a write can fail

\* what the constants satisfy
ManagerAssumption ==
    /\ 0 \notin Settings \cup Versions /\ Settings # {} /\ Versions # {}
    /\ MaxRequests \in Nat /\ MaxInstances \in Nat /\ Faults \in BOOLEAN

VARIABLES
    file,               \* the version in the folder (None: there is no package)
    row,                \* of the database
    loaded,             \* m.plugins: the instance (None)
    with,               \* the settings an open instance was made with
    open,               \* instances whose host services are open
    stop,               \* Stop: "no", "begun" or "done"
    started,
    pc, kind, copy, seen, inst,    \* of an operation: its row, folder, instance
    \* history: operations begun; whether two overlapped or a write failed;
    \* open instances whose load failed, or that another put out of the map
    requests, excused, abandoned

memory  == <<loaded, with, open>>
manager == <<stop, started>>
locals  == <<pc, kind, copy, seen, inst>>
history == <<requests, excused, abandoned>>
vars    == <<file, row, memory, manager, locals, history>>

None == 0
NoRow == [present |-> FALSE, enabled |-> FALSE, settings |-> 0, sha |-> None]
Rows == [present : BOOLEAN, enabled : BOOLEAN, settings : Settings \cup {0},
         sha : Versions \cup {None}]
Kinds == {"start", "boot", "rescan", "event", "enable", "disable", "update", "deleteUser"}
Steps == {"idle", "rows", "decide", "load", "compile", "unload", "close", "put", "delete"}
Instances == 1 .. MaxInstances

\* the plugin was enabled, disabled or unknown when the server last stopped
Init ==
    /\ file \in Versions \cup {None}
    /\ row \in {NoRow} \cup
               {[present |-> TRUE, enabled |-> e, settings |-> CHOOSE s \in Settings : TRUE,
                 sha |-> CHOOSE v \in Versions : TRUE] : e \in BOOLEAN}
    /\ loaded = None /\ with = [i \in Instances |-> 0] /\ open = {}
    /\ stop = "no" /\ started = FALSE
    /\ pc = [o \in Ops |-> "idle"] /\ kind = [o \in Ops |-> "start"]
    /\ copy = [o \in Ops |-> NoRow] /\ seen = [o \in Ops |-> None]
    /\ inst = [o \in Ops |-> None]
    /\ requests = 0 /\ excused = FALSE /\ abandoned = {}

Goto(o, step) == pc' = [pc EXCEPT ![o] = step]

\* an operation that ends holds nothing; Start goes on to load what is enabled
Ended(o) ==
    LET boot == kind[o] = "start" IN
    /\ Goto(o, IF boot THEN "decide" ELSE "idle")
    /\ kind' = [kind EXCEPT ![o] = IF boot THEN "boot" ELSE "start"]
    /\ copy' = [copy EXCEPT ![o] = NoRow] /\ seen' = [seen EXCEPT ![o] = None]
    /\ inst' = [inst EXCEPT ![o] = None]

\* the operation goes on with the row it holds, changed to r
With(o, r, step) ==
    /\ Goto(o, step)
    /\ copy' = [copy EXCEPT ![o] = r]
    /\ UNCHANGED <<kind, seen, inst>>

-----------------------------------------------------------------------------
(* Beginnings *)

Begin(o, k, step) ==
    /\ pc[o] = "idle" /\ requests < MaxRequests
    /\ requests' = requests + 1
    /\ excused' = (excused \/ \E p \in Ops \ {o} : pc[p] # "idle")
    /\ Goto(o, step)
    /\ kind' = [kind EXCEPT ![o] = k]
    /\ UNCHANGED <<inst, abandoned, memory, stop>>

Start(o) ==
    /\ ~started /\ started' = TRUE
    /\ Begin(o, "start", "rows")
    /\ seen' = [seen EXCEPT ![o] = file]
    /\ UNCHANGED <<file, row, copy>>

RescanPlugins(o) ==
    /\ started /\ Begin(o, "rescan", "rows")
    /\ seen' = [seen EXCEPT ![o] = file]
    /\ UNCHANGED <<file, row, copy, started>>

\* the debounce timer of the watcher has ended
ProcessPluginEvent(o) ==
    /\ started /\ stop = "no" /\ Begin(o, "event", "rows")
    /\ seen' = [seen EXCEPT ![o] = file]
    /\ UNCHANGED <<file, row, copy, started>>

\* each reads the row first
EnablePlugin(o) ==
    /\ started /\ row.present /\ ~row.enabled /\ row.settings # 0
    /\ Begin(o, "enable", "load")
    /\ copy' = [copy EXCEPT ![o] = row]
    /\ UNCHANGED <<file, row, seen, started>>

DisablePlugin(o) ==
    /\ started /\ row.present /\ row.enabled
    /\ Begin(o, "disable", "unload")
    /\ copy' = [copy EXCEPT ![o] = [row EXCEPT !.enabled = FALSE]]
    /\ UNCHANGED <<file, row, seen, started>>

\* without users an enabled plugin is disabled, if its manifest can be read
UpdatePluginSettings(o, s) ==
    /\ started /\ row.present
    /\ \E lacks \in {row.enabled /\ s = 0 /\ file # None} \cup IF Faults THEN {FALSE} ELSE {} :
           /\ Begin(o, "update", IF lacks THEN "unload" ELSE "put")
           /\ copy' = [copy EXCEPT ![o] = [row EXCEPT !.settings = s, !.enabled = @ /\ ~lacks]]
    /\ UNCHANGED <<file, row, seen, started>>

\* the only user of the plugin is deleted, which disables it in the database
DeleteUser(o) ==
    /\ started /\ row.settings # 0
    /\ row' = [row EXCEPT !.settings = 0, !.enabled = FALSE]
    /\ Begin(o, "deleteUser", "decide")
    /\ UNCHANGED <<file, copy, seen, started>>

-----------------------------------------------------------------------------
(* The row and the package are read again, and compared *)

\* a rescan lists the folder first; the watcher reads the package first
ReadRow(o) ==
    /\ pc[o] = "rows"
    /\ With(o, row, "decide")
    /\ UNCHANGED <<file, row, memory, manager, history>>

Disabled(r) == [r EXCEPT !.enabled = FALSE]
Unloading(r) == IF r.enabled THEN "unload" ELSE "put"

\* what the hash of the row is compared with
Hash(o) == IF kind[o] = "event" THEN seen[o] ELSE file

\* a package that cannot be read is taken for one that is gone, by a rescan
Remove(o) ==
    /\ \/ seen[o] = None
       \/ kind[o] # "event" /\ (file = None \/ Faults)
    /\ IF copy[o].present
       THEN With(o, [copy[o] EXCEPT !.sha = None],
                 IF copy[o].enabled THEN "unload" ELSE "delete")
       ELSE Ended(o)

Unchanged(o) == seen[o] # None /\ Hash(o) = copy[o].sha /\ Ended(o)

Differs(o) == seen[o] # None /\ Hash(o) \notin {copy[o].sha, None}

\* a package whose manifest cannot be read disables the plugin
Broken(o) ==
    /\ Differs(o) /\ (Faults \/ file = None)
    /\ IF copy[o].present THEN With(o, Disabled(copy[o]), Unloading(copy[o])) ELSE Ended(o)

\* a new or changed package: the plugin is stored as disabled
Changed(o) ==
    /\ Differs(o) /\ file # None
    /\ With(o, [Disabled(copy[o]) EXCEPT !.present = TRUE, !.sha = file], Unloading(copy[o]))

SyncDecides(o) ==
    /\ pc[o] = "decide" /\ kind[o] \in {"start", "rescan", "event"}
    /\ Remove(o) \/ Broken(o) \/ Unchanged(o) \/ Changed(o)
    /\ UNCHANGED <<file, row, memory, manager, history>>

LoadEnabledPlugins(o) ==
    /\ pc[o] = "decide" /\ kind[o] = "boot"
    /\ IF row.enabled THEN With(o, row, "load") ELSE Ended(o)
    /\ UNCHANGED <<file, row, memory, manager, history>>

UnloadDisabledPlugins(o) ==
    /\ pc[o] = "decide" /\ kind[o] = "deleteUser"
    /\ IF row.present /\ ~row.enabled /\ loaded # None THEN With(o, row, "unload") ELSE Ended(o)
    /\ UNCHANGED <<file, row, memory, manager, history>>

-----------------------------------------------------------------------------
(* loadPluginWithConfig *)

\* a load that fails disables the plugin
LoadFails(o) == With(o, Disabled(copy[o]), "put")

MutMayLoad == TRUE         \* mutant: not asked again
MayLoad == stop = "no"    \* the second check, after loadWg.Add

\* the package is opened and the host services are made
LoadBegins(o) ==
    /\ pc[o] = "load"
    /\ \/ /\ MayLoad /\ file # None /\ open # Instances
          /\ LET new == Min(Instances \ open) IN
             /\ with' = [with EXCEPT ![new] = copy[o].settings]
             /\ open' = open \cup {new}
             /\ inst' = [inst EXCEPT ![o] = new]
          /\ Goto(o, "compile")
          /\ UNCHANGED <<kind, copy, seen>>
       \/ /\ ~MayLoad \/ file = None \/ Faults
          /\ LoadFails(o)
          /\ UNCHANGED <<with, open>>
    /\ UNCHANGED <<file, row, loaded, manager, history>>

\* what the map held, if anything, is overwritten and never closed
LoadEnds(o) ==
    /\ pc[o] = "compile"
    /\ loaded' = inst[o]
    /\ abandoned' = abandoned \cup ({loaded} \ {None})
    /\ IF kind[o] = "enable"
       THEN With(o, [copy[o] EXCEPT !.enabled = TRUE], "put")
       ELSE Ended(o)
    /\ UNCHANGED <<file, row, with, open, manager, requests, excused>>

\* the services that were made are not closed
CompileFails(o) ==
    /\ pc[o] = "compile" /\ Faults
    /\ abandoned' = abandoned \cup {inst[o]}
    /\ LoadFails(o)
    /\ UNCHANGED <<file, row, memory, manager, requests, excused>>

-----------------------------------------------------------------------------
(* unloadPlugin, and the database *)

\* what comes after the plugin has been unloaded
AfterUnload(o) ==
    CASE kind[o] = "update" /\ copy[o].enabled -> "load"
      [] kind[o] \in {"deleteUser", "enable"} -> "idle"
      [] kind[o] \in {"start", "rescan", "event"} /\ copy[o].sha = None -> "delete"
      [] OTHER -> "put"

Continue(o) ==
    IF AfterUnload(o) = "idle" THEN Ended(o)
    ELSE LET r == IF AfterUnload(o) = "load" THEN copy[o] ELSE Disabled(copy[o]) IN
         /\ Goto(o, AfterUnload(o))
         /\ copy' = [copy EXCEPT ![o] = r]
         /\ inst' = [inst EXCEPT ![o] = None]
         /\ UNCHANGED <<kind, seen>>

Unload(o) ==
    /\ pc[o] = "unload"
    /\ IF loaded = None
       THEN Continue(o)
       ELSE /\ Goto(o, "close") /\ inst' = [inst EXCEPT ![o] = loaded]
            /\ UNCHANGED <<kind, copy, seen>>
    /\ loaded' = None
    /\ UNCHANGED <<file, row, with, open, manager, history>>

CloseInstance(i) ==
    /\ open' = open \ {i} /\ abandoned' = abandoned \ {i}
    /\ with' = [j \in Instances |-> IF j = i THEN 0 ELSE with[j]]

Close(o) ==
    /\ pc[o] = "close"
    /\ CloseInstance(inst[o])
    /\ Continue(o)
    /\ UNCHANGED <<file, row, loaded, manager, requests, excused>>

\* the whole row is written, and an enabled plugin is loaded again
Put(o) ==
    /\ pc[o] = "put"
    /\ row' = copy[o]
    /\ IF kind[o] = "update" /\ copy[o].enabled
       THEN With(o, copy[o], "unload")
       ELSE Ended(o)
    /\ UNCHANGED <<file, memory, manager, history>>

MutUponFailure(o) == "idle"    \* mutant: EnablePlugin leaves the plugin loaded
UponFailure(o) == IF kind[o] = "enable" /\ copy[o].enabled THEN "unload" ELSE "idle"

\* only EnablePlugin undoes what it has done
PutFails(o) ==
    /\ pc[o] = "put" /\ Faults
    /\ IF UponFailure(o) = "idle" THEN Ended(o) ELSE With(o, copy[o], "unload")
    /\ excused' = (excused \/ (kind[o] # "enable" /\ ~copy[o].enabled))
    /\ UNCHANGED <<file, row, memory, manager, requests, abandoned>>

Delete(o) ==
    /\ pc[o] = "delete"
    /\ row' = NoRow
    /\ Ended(o)
    /\ UNCHANGED <<file, memory, manager, history>>

-----------------------------------------------------------------------------
(* The folder, and the end *)

PackageChanges(v) ==
    /\ v # file
    /\ file' = v
    /\ UNCHANGED <<row, memory, manager, locals, history>>

StopBegins ==
    /\ started /\ stop = "no"
    /\ stop' = "begun"
    /\ UNCHANGED <<file, row, memory, started, locals, history>>

\* no load is under way: loadWg.Wait has returned
StopEnds ==
    /\ stop = "begun"
    /\ \A o \in Ops : pc[o] # "compile"
    /\ stop' = "done"
    /\ loaded' = None
    /\ CloseInstance(loaded)
    /\ UNCHANGED <<file, row, started, locals, requests, excused>>

-----------------------------------------------------------------------------
Begins(o) ==
    \/ Start(o) \/ RescanPlugins(o) \/ ProcessPluginEvent(o)
    \/ EnablePlugin(o) \/ DisablePlugin(o) \/ DeleteUser(o)
    \/ \E s \in Settings \cup {0} : UpdatePluginSettings(o, s)

Step(o) ==
    \/ ReadRow(o) \/ SyncDecides(o) \/ LoadEnabledPlugins(o) \/ UnloadDisabledPlugins(o)
    \/ LoadBegins(o) \/ LoadEnds(o) \/ CompileFails(o)
    \/ Unload(o) \/ Close(o) \/ Put(o) \/ PutFails(o) \/ Delete(o)

Next ==
    \/ \E o \in Ops : Begins(o) \/ Step(o)
    \/ \E v \in Versions \cup {None} : PackageChanges(v)
    \/ StopBegins \/ StopEnds

Spec == Init /\ [][Next]_vars

-----------------------------------------------------------------------------
(* Properties *)

\* The variables have their types.
TypeOK ==
    /\ file \in Versions \cup {None} /\ row \in Rows
    /\ loaded \in open \cup {None}
    /\ with \in [Instances -> Settings \cup {0}]
    /\ open \subseteq Instances
    /\ stop \in {"no", "begun", "done"} /\ started \in BOOLEAN
    /\ pc \in [Ops -> Steps] /\ kind \in [Ops -> Kinds] /\ copy \in [Ops -> Rows]
    /\ seen \in [Ops -> Versions \cup {None}] /\ inst \in [Ops -> Instances \cup {None}]
    /\ requests \in 0 .. MaxRequests /\ excused \in BOOLEAN /\ abandoned \subseteq open

AtRest == \A o \in Ops : pc[o] = "idle"

\* Between operations the plugin is loaded just when its row says that it is
\* enabled, with the settings of the row, unless operations have overlapped,
\* a write has failed, or the manager is stopped.
LoadedAsStored ==
    started /\ AtRest /\ stop = "no" /\ ~excused =>
        /\ loaded # None <=> row.enabled
        /\ loaded # None => with[loaded] = row.settings

\* Once Stop has returned nothing is loaded, or gets loaded, however requests
\* and Stop were interleaved; the services that are open are of a load that
\* failed or was overwritten, or about to be closed.
NoneAfterStop ==
    stop = "done" =>
        /\ loaded = None
        /\ \A o \in Ops : pc[o] # "compile"
        /\ open \subseteq abandoned \cup {inst[o] : o \in {p \in Ops : pc[p] = "close"}}
=============================================================================
