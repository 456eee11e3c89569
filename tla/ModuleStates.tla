---------------------------- MODULE ModuleStates ----------------------------
(***************************************************************************)
(* The states of modules: the buttons that mark them                       *)
(* (odoo/addons/base/models/ir_module.py) and the loading that does what   *)
(* is marked (odoo/modules/loading.py, graph.py).                          *)
(*                                                                         *)
(* A button commits its marks before the registry is loaded, so that other *)
(* buttons come in between and during the load.  One load runs at a time   *)
(* (Registry._lock).  It commits after each module it installs or          *)
(* upgrades, and the new state of that module only with the next commit.   *)
(***************************************************************************)
EXTENDS Naturals, FiniteSets, FiniteSetsExt

CONSTANTS
    Modules,     \* numbered in the order of the graph
    Deps,        \* the dependencies of each
    AutoInstall,        \* those installed as soon as their dependencies are
    Excludes,    \* what a module is incompatible with
    MaxButtons   \* bound on the buttons pressed

ASSUME ModuleStatesAssumption ==
    /\ Modules \subseteq Nat /\ IsFiniteSet(Modules) /\ AutoInstall \subseteq Modules /\ MaxButtons \in Nat
    /\ Deps \in [Modules -> SUBSET Modules] /\ \A m \in Modules : \A d \in Deps[m] : d < m
    /\ Excludes \in [Modules -> SUBSET Modules]

VARIABLES
    state,    \* the committed state of each module
    data,     \* the modules whose tables and records are in the database
    load,     \* what the loading is at
    seen,     \* the states in its snapshot, with its own writes
    pending,  \* the modules it has installed whose state is not committed
    stale,    \* the modules whose state others have changed since its snapshot
    buttons

moduleVars == <<state, data, load, seen, pending, stale, buttons>>

Marks == {"to install", "to upgrade", "to remove"}
States == {"uninstalled", "installed"} \cup Marks
None == [m \in Modules |-> "uninstalled"]
Idle == [at |-> "idle", update |-> FALSE, phase |-> "old", graph |-> {}, package |-> None,
         loaded |-> {}, worked |-> FALSE, again |-> FALSE, first |-> None, pressed |-> 0]

ModulesTypeOK ==
    /\ state \in [Modules -> States] /\ data \subseteq Modules
    /\ load.at \in {"idle", "select", "graph", "end"} /\ load.update \in BOOLEAN
    /\ load.phase \in {"old", "new"} /\ load.graph \subseteq Modules
    /\ load.package \in [Modules -> States] /\ load.loaded \subseteq load.graph
    /\ load.worked \in BOOLEAN /\ load.again \in BOOLEAN /\ load.first \in [Modules -> States]
    /\ load.pressed \in 0..MaxButtons
    /\ seen \in [Modules -> States] /\ Cardinality(pending) <= 1 /\ pending \subseteq data
    /\ stale \subseteq Modules /\ buttons \in 0..MaxButtons

In(s, states) == {m \in Modules : s[m] \in states}
Assign(s, ms, st) == [m \in Modules |-> IF m \in ms THEN st ELSE s[m]]

ModulesInit ==
    /\ state \in [Modules -> {"uninstalled", "installed"}]
    /\ data = In(state, {"installed"})
    /\ \A m \in data : Deps[m] \subseteq data
    /\ seen = None /\ load = Idle /\ pending = {} /\ stale = {} /\ buttons = 0

-----------------------------------------------------------------------------
(* The marks of the buttons                                                 *)

\* the least set with ms that Step adds nothing to
Least(ms, Step(_)) == {m \in Modules : \A S \in SUBSET Modules : ms \subseteq S /\ Step(S) \subseteq S => m \in S}

\* _state_update('to install', ['uninstalled']): what it goes through, and what it writes
ToUpdate(s, ms) == {d \in Modules : s[d] # "to install" /\ \E m \in ms : d \in Deps[m]}
StateUpdate(s, ms) == Assign(s, ms \cap In(s, {"uninstalled"}), "to install")

Wanted == {"installed", "to install", "to upgrade"}
MustInstall(s) == {m \in AutoInstall \cap In(s, {"uninstalled"}) :
    Deps[m] \subseteq In(s, Wanted) /\ Deps[m] \cap In(s, {"to install"}) # {}}

\* button_install(): the modules, and those that must come with them
Installed(s, ms) == StateUpdate(s, Least(ms, LAMBDA S : ToUpdate(s, S) \cup MustInstall(StateUpdate(s, S))))
Compatible(s) == \A m \in In(s, Wanted) : Excludes[m] \cap In(s, Wanted) = {}

\* downstream_dependencies()
Dependents(ms) == {m \in Modules : Deps[m] \cap ms # {}}
Downstream(s, m) == Least({m}, LAMBDA S : Dependents(S) \ In(s, {"uninstalled", "to remove"}))

\* button_upgrade(): the installed modules that depend on it, and what they lack
Upgraded(s, m) ==
    LET todo == Least({m}, LAMBDA S : Dependents(S) \cap In(s, {"installed"}))
        marked == Assign(s, todo, "to upgrade")
    IN Installed(marked, {d \in In(marked, {"uninstalled"}) : \E n \in todo : d \in Deps[n]})

Restored(s) == [m \in Modules |-> IF s[m] \in {"to remove", "to upgrade"} THEN "installed"
                                  ELSE IF s[m] = "to install" THEN "uninstalled" ELSE s[m]]

\* a transaction of its own that changes the states
Changes(s) == /\ state' = s
              /\ stale' = IF load.at = "idle" THEN {} ELSE stale \cup {m \in Modules : s[m] # state[m]}
Press(s) == /\ buttons < MaxButtons /\ buttons' = buttons + 1
            /\ \A m \in pending : s[m] = state[m]       \* waits for rows the loading has written
            /\ Changes(s)
            /\ UNCHANGED <<data, load, seen, pending>>

Install(m) == LET s == Installed(state, {m}) IN state[m] = "uninstalled" /\ Compatible(s) /\ Press(s)
Uninstall_Alone(m) == state[m] \in {"installed", "to upgrade"} /\ Press(Assign(state, {m}, "to remove"))
Uninstall(m) == state[m] \in {"installed", "to upgrade"} /\ Press(Assign(state, Downstream(state, m), "to remove"))
Upgrade(m) == LET s == Upgraded(state, m) IN state[m] \in {"installed", "to upgrade"} /\ Compatible(s) /\ Press(s)

\* button_*_cancel(), of the module alone
Cancel(m) == state[m] \in Marks /\ Press(Assign(state, {m}, Restored(state)[m]))

\* the wizard's Cancel
CancelAll == In(state, Marks) # {} /\ Press(Restored(state))

-----------------------------------------------------------------------------
(* load_modules(), from Registry.new()                                      *)

Begins(update) ==
    /\ load' = [Idle EXCEPT !.at = "select", !.update = update, !.first = state', !.pressed = buttons]
    /\ seen' = state' /\ pending' = {} /\ stale' = {}

Load(update) ==
    /\ load.at = "idle"
    /\ UNCHANGED <<state, data, buttons>>
    /\ Begins(update)

Selected_NoUpgrade == IF load.phase = "old" THEN {"installed", "to remove"} ELSE {"to install"}
Selected == IF load.phase = "old" THEN {"installed", "to upgrade", "to remove"} ELSE {"to install"}
NewNames == In(seen, Selected) \ load.graph

\* the old modules, then the new ones, as long as one of them was installed or upgraded
NextPhase(l) ==
    IF l.update /\ l.phase = "old" THEN [l EXCEPT !.at = "select", !.phase = "new"]
    ELSE IF l.again THEN [l EXCEPT !.at = "select", !.phase = "old", !.again = FALSE]
    ELSE [l EXCEPT !.at = "end"]

\* load_marked_modules(), Graph.add_modules(): modules join when their dependencies have
Added == Least(load.graph, LAMBDA S : {m \in NewNames : Deps[m] \subseteq S})

Select ==
    /\ load.at = "select"
    /\ load' = IF NewNames = {} THEN NextPhase(load)
               ELSE [load EXCEPT !.at = "graph", !.graph = Added, !.worked = FALSE,
                                 !.package = [m \in Modules |-> IF m \in Added THEN seen[m] ELSE @[m]]]
    /\ UNCHANGED <<state, data, seen, pending, stale, buttons>>

Current == Min(load.graph \ load.loaded)
Updates == load.package[Current] \in {"to install", "to upgrade"}

\* load_module_graph(): a module that is as it was is only loaded
LoadModule ==
    /\ load.at = "graph" /\ load.graph # load.loaded /\ ~Updates
    /\ load' = [load EXCEPT !.loaded = @ \cup {Current}]
    /\ UNCHANGED <<state, data, seen, pending, stale, buttons>>

\* its data are committed, with the state of the one before; its own state is written then
LoadCommit == state' = Assign(state, pending, "installed")
UpdateModule_StateFirst ==
    /\ load.at = "graph" /\ load.graph # load.loaded /\ Updates /\ Current \notin stale
    /\ state' = Assign(state, {Current}, "installed")
    /\ load' = [load EXCEPT !.loaded = @ \cup {Current}, !.package[Current] = "installed",
                            !.worked = TRUE, !.again = TRUE]
    /\ seen' = state' /\ stale' = {}
    /\ UNCHANGED <<data, pending, buttons>>
UpdateModule ==
    /\ load.at = "graph" /\ load.graph # load.loaded /\ Updates
    /\ Current \notin stale
    /\ LoadCommit
    /\ data' = data \cup {Current}
    /\ pending' = {Current}
    /\ seen' = Assign(state', {Current}, "installed") /\ stale' = {}
    /\ load' = [load EXCEPT !.loaded = @ \cup {Current}, !.package[Current] = "installed",
                            !.worked = TRUE, !.again = TRUE]
    /\ UNCHANGED buttons

\* when nothing was installed or upgraded, what is left cannot be
GraphLoaded_Again ==
    /\ load.at = "graph" /\ load.graph = load.loaded
    /\ load' = [load EXCEPT !.at = "select"]
    /\ UNCHANGED <<state, data, seen, pending, stale, buttons>>
GraphLoaded ==
    /\ load.at = "graph" /\ load.graph = load.loaded
    /\ load' = IF load.worked THEN [load EXCEPT !.at = "select"] ELSE NextPhase(load)
    /\ UNCHANGED <<state, data, seen, pending, stale, buttons>>

\* module_uninstall(), and the registry is loaded once more
ToRemove == In(seen, {"to remove"})
Remove ==
    /\ load.at = "end" /\ load.update /\ ToRemove # {}
    /\ ToRemove \cap stale = {}
    /\ state' = Assign(Assign(state, pending, "installed"), ToRemove, "uninstalled")
    /\ data' = data \ ToRemove
    /\ Begins(TRUE)
    /\ UNCHANGED buttons

Ends == load' = [Idle EXCEPT !.first = state'] /\ seen' = state' /\ pending' = {} /\ stale' = {}
Loaded ==
    /\ load.at = "end" /\ ~(load.update /\ ToRemove # {})
    /\ LoadCommit
    /\ Ends
    /\ UNCHANGED <<data, buttons>>

\* an error of a module or a row that was changed: rollback, then reset_modules_state()
LoadFails_KeepsInstalls ==
    /\ load.at # "idle"
    /\ state' = [m \in Modules |-> IF state[m] \in Marks THEN "installed" ELSE state[m]]
    /\ Ends
    /\ UNCHANGED <<data, buttons>>
LoadFails ==
    /\ load.at # "idle"
    /\ state' = Restored(state)
    /\ Ends
    /\ UNCHANGED <<data, buttons>>

\* the process dies: the marks stay
Crash == load.at # "idle" /\ UNCHANGED <<state, data, buttons>> /\ Ends

\* reset_modules_state() by the scheduled actions that have waited for long
CronReset ==
    /\ load.at = "idle" /\ In(state, Marks) # {}
    /\ state' = Restored(state)
    /\ Ends
    /\ UNCHANGED <<data, buttons>>

LoadStep == Select \/ LoadModule \/ UpdateModule \/ GraphLoaded \/ Remove \/ Loaded \/ LoadFails

Button(m) == Install(m) \/ Uninstall(m) \/ Upgrade(m) \/ Cancel(m)

ModulesNext ==
    \/ CancelAll \/ \E m \in Modules : Button(m)
    \/ \E update \in BOOLEAN : Load(update)
    \/ LoadStep \/ Crash \/ CronReset

ModulesSpec == ModulesInit /\ [][ModulesNext]_moduleVars

\* a load that is under way goes on
ModulesFairSpec == ModulesSpec /\ WF_moduleVars(LoadStep)

-----------------------------------------------------------------------------
(* Properties                                                               *)

(* Modules that are or were installed have their data.  A single step can   *)
(* end this: Uninstall, when it meets a dependent that is only to be        *)
(* installed.  No load does, wherever it fails.                             *)
HaveData == In(state, {"installed", "to upgrade", "to remove"}) \subseteq data
UninstallsTheNew == \E m \in Modules : state[m] = "to install" /\ state'[m] = "to remove"
DataIsKept == [][HaveData => HaveData' \/ UninstallsTheNew]_moduleVars

(* An installed module has its dependencies and keeps them, one that is to  *)
(* be installed has or gets them.  Four things end this: a button that      *)
(* installs over a module to be removed, one that cancels a part of what    *)
(* another marked, one that removes what is only to be installed, as above, *)
(* and a load that goes on with what it read before a button was pressed.   *)
Sound(s) ==
    /\ \A m \in In(s, {"to remove"}) : Deps[m] \subseteq In(s, {"installed", "to upgrade", "to remove"})
    /\ \A m \in In(s, {"installed", "to upgrade"}) : Deps[m] \subseteq In(s, {"installed", "to upgrade"})
    /\ \A m \in In(s, {"to install"}) : Deps[m] \subseteq In(s, Wanted)
Disturbed == load.at # "idle" /\ load.pressed < buttons
DependenciesAreKept == [][Sound(state) =>
    \/ Sound(state')
    \/ UninstallsTheNew
    \/ Disturbed /\ buttons' = buttons
    \/ \E m \in Modules : \/ Cancel(m)
                          \/ (Install(m) \/ Upgrade(m)) /\ In(state, {"to remove"}) # {}]_moduleVars

(* A load that starts from sound marks and is not disturbed leaves none.    *)
LoadSettles == [][Loaded /\ load.update /\ load.pressed = buttons /\ Sound(load.first)
                    => In(state', Marks) = {}]_moduleVars

(* Every load ends, also one that meets modules it cannot load.             *)
LoadEnds == load.at # "idle" ~> load.at = "idle"

(* reset_modules_state(): the states are what they were before the marks.   *)
ResetRestores == [][state' = Restored(state) => \A m \in Modules : state'[m] = "installed" => m \in data]_moduleVars
==============================================================================
