------------------------------ MODULE SystemBuild ------------------------------
(***************************************************************************)
(* async_build_system (_setup.py): one read after the other, each of which *)
(* a hub that restarts may answer short or not at all, and the parsers of  *)
(* _parse_router.py; the consumer's retry; and afterwards the part of      *)
(* apply_event (_events.py) that concerns the whole router.                *)
(*                                                                         *)
(* A layout is an installation: addrs, the addresses in the order of the   *)
(* inventory; unknown, those of a type the library does not model; grp,    *)
(* the groups by address that the SMR holds; flags, the global flags.      *)
(***************************************************************************)
EXTENDS Integers, Sequences, FiniteSets, Lists

CONSTANTS
    Layouts,        \* installations
    MaxBuilds       \* bound on attempts to build

ASSUME BuildAssumption ==
    /\ MaxBuilds \in Nat
    /\ \A l \in Layouts :
        /\ l.addrs \in Seq(Nat \ {0}) /\ l.flags \in Seq(Nat)
        /\ l.grp \in Seq(Nat \ {0}) /\ l.grp # <<>>
        /\ \A i, j \in 1..Len(l.addrs) : l.addrs[i] = l.addrs[j] => i = j

VARIABLES
    layout,
    step,           \* what is read next, "built" or "failed"
    moduleGrp,      \* router.module_grp
    lists,          \* router.flags
    modules,        \* router.modules, by address
    seen,           \* addresses the inventory mentioned
    status,         \* the blocks of the compact status, by address
    aligned,        \* it divides into whole blocks and is long enough
    at,             \* the module whose definitions or settings come next
    named, typed,   \* modules whose definitions, whose settings were read
    routerRead,     \* apply_router_status had a whole status
    raised,         \* the exception that ended the build, or "none"
    builds,
    hit             \* what the last event reached: a module, 0 for the router, -1 for
                    \* nothing, or -2 if it raised

answers   == <<moduleGrp, lists, modules, seen, status, aligned, at, named, typed, routerRead>>
buildVars == <<layout, step, answers, raised, builds, hit>>

\* Fault: the flags of the attempt before are kept.
FaultFresh ==
    /\ moduleGrp' = <<>> /\ lists' = lists /\ modules' = <<>>
    /\ seen' = {} /\ status' = <<>> /\ aligned' = FALSE
    /\ at' = 1 /\ named' = {} /\ typed' = {} /\ routerRead' = FALSE

Fresh ==    \* build_router
    /\ moduleGrp' = <<>> /\ lists' = <<>> /\ modules' = <<>>
    /\ seen' = {} /\ status' = <<>> /\ aligned' = FALSE
    /\ at' = 1 /\ named' = {} /\ typed' = {} /\ routerRead' = FALSE

BuildInit ==
    /\ layout \in Layouts
    /\ step = "idle"
    /\ moduleGrp = <<>> /\ lists = <<>> /\ modules = <<>>
    /\ seen = {} /\ status = <<>> /\ aligned = FALSE
    /\ at = 1 /\ named = {} /\ typed = {} /\ routerRead = FALSE
    /\ raised = "none" /\ builds = 0 /\ hit = -1

-------------------------------------------------------------------------------
\* A read or a parser raises; IndexError becomes a protocol error, which is a
\* HabitronError like the errors of the client.
Converted(exc) == IF exc = "IndexError" THEN "HabitronError" ELSE exc

Raise(exc) ==
    /\ step' = "failed"
    /\ raised' = Converted(exc)
    /\ UNCHANGED <<layout, answers, builds, hit>>

Continue(next) == step' = next /\ UNCHANGED <<layout, raised, builds, hit>>

StartBuild ==
    /\ step = "idle" \/ (step = "failed" /\ raised = "HabitronError")
    /\ builds < MaxBuilds
    /\ builds' = builds + 1
    /\ step' = "smr"
    /\ raised' = "none"
    /\ Fresh
    /\ UNCHANGED <<layout, hit>>

\* parse_router_definitions: cut in front of its groups max() of nothing raises
\* ValueError, cut anywhere else before the tail IndexError.
ReadSmr ==
    /\ step = "smr"
    /\ \/ Raise("HabitronError")
       \/ Raise("IndexError")
       \/ Raise("ValueError")
       \/ /\ moduleGrp' = layout.grp
          /\ Continue("descriptions")
          /\ UNCHANGED <<lists, modules, seen, status, aligned, at, named, typed, routerRead>>

\* parse_global_descriptions: lines that are missing are not missed.
ReadDescriptions ==
    /\ step = "descriptions"
    /\ \/ Raise("HabitronError")        \* unreadable, or shorter than its header
       \/ Raise("IndexError")           \* cut inside a line
       \/ \E k \in 0..Len(layout.flags) :
            /\ lists' = lists \o SubSeq(layout.flags, 1, k)
            /\ Continue("inventory")
            /\ UNCHANGED <<moduleGrp, modules, seen, status, aligned, at, named, typed, routerRead>>

\* parse_module_inventory: entries up to the cut, one of a type the library does not
\* model is passed by; module_grp[addr - 1] may not exist.
IsModelled(a) == a \notin layout.unknown

ReadInventory ==
    /\ step = "inventory"
    /\ \/ Raise("HabitronError")
       \/ Raise("IndexError")           \* cut inside an entry's header
       \/ \E k \in 0..Len(layout.addrs) :
            LET entries == SubSeq(layout.addrs, 1, k)
                built   == Entries(entries, {i \in 1..k : IsModelled(entries[i])})
            IN  IF \E i \in 1..Len(built) : built[i] > Len(moduleGrp) THEN Raise("IndexError")
                ELSE /\ modules' = built
                     /\ seen' = {entries[i] : i \in 1..k}
                     /\ Continue("status")
                     /\ UNCHANGED <<moduleGrp, lists, status, aligned, at, named, typed, routerRead>>

\* Fault: an incomplete inventory is accepted.
FaultIncomplete(blocks, whole) == FALSE

\* _raise_on_incomplete_inventory, for a status with these blocks: a status cut
\* inside a block, or too short to slice, claims nothing.
Incomplete(blocks, whole) == whole /\ \E i \in 1..Len(blocks) : blocks[i] \notin seen

AfterModules == IF at > Len(modules) THEN "router" ELSE "definitions"

ReadStatus ==
    /\ step = "status"
    /\ \/ Raise("HabitronError")
       \/ \E k \in 0..Len(layout.addrs), whole \in BOOLEAN :
            LET blocks == SubSeq(layout.addrs, 1, k) IN
            IF Incomplete(blocks, whole) THEN Raise("HabitronError")
            ELSE /\ status' = blocks
                 /\ aligned' = whole
                 /\ Continue(AfterModules)
                 /\ UNCHANGED <<moduleGrp, lists, modules, seen, at, named, typed, routerRead>>

\* An empty block of definitions leaves the module as it was built.
ReadModuleDefinitions ==
    /\ step = "definitions"
    /\ \/ Raise("HabitronError")
       \/ Raise("IndexError")
       \/ /\ named' \in {named, named \cup {modules[at]}}
          /\ Continue("settings")
          /\ UNCHANGED <<moduleGrp, lists, modules, seen, status, aligned, at, typed, routerRead>>

\* A cut block of settings is a protocol error, an empty one is not.
ReadModuleSettings ==
    /\ step = "settings"
    /\ \/ Raise("HabitronError")
       \/ /\ typed' \in {typed, typed \cup {modules[at]}}
          /\ at' = at + 1
          /\ Continue(IF at + 1 > Len(modules) THEN "router" ELSE "definitions")
          /\ UNCHANGED <<moduleGrp, lists, modules, seen, status, aligned, named, routerRead>>

\* A short router status is logged and skipped, one a single byte short is read.
ReadRouterStatus ==
    /\ step = "router"
    /\ \/ Raise("HabitronError")
       \/ Raise("IndexError")
       \/ /\ routerRead' \in BOOLEAN
          /\ Continue("built")
          /\ UNCHANGED <<moduleGrp, lists, modules, seen, status, aligned, at, named, typed>>

-------------------------------------------------------------------------------
(***************************************************************************)
(* apply_event, as far as it is not about one module's members.            *)
(***************************************************************************)
\* list.index: the first position of a group; 0 stands for ValueError.
PositionOf(g) ==
    LET positions == {i \in 1..Len(moduleGrp) : moduleGrp[i] = g}
    IN  IF positions = {} THEN 0 ELSE CHOOSE i \in positions : \A j \in positions : i <= j

\* Fault: the position is taken one too far.
FaultModeTarget(g) ==
    IF g = 0 THEN 0
    ELSE IF PositionOf(g) + 1 \in 1..Len(modules) THEN modules[PositionOf(g) + 1] ELSE -2

\* The router for group 0, else the module at the group's position in module_grp; a group
\* no address has is a ValueError, a position without a module an IndexError, and both
\* leave apply_event, since its try covers the events of one module only.
ModeTarget(g) ==
    IF g = 0 THEN 0
    ELSE IF PositionOf(g) \in 1..Len(modules) THEN modules[PositionOf(g)] ELSE -2

ModeEvent(g) ==
    /\ step = "built"
    /\ hit' = ModeTarget(g)
    /\ UNCHANGED <<layout, step, answers, raised, builds>>

FlagEvent(n) ==     \* mod_id 0: a flag of the router
    /\ step = "built"
    /\ hit' = IF \E i \in 1..Len(lists) : lists[i] = n THEN 0 ELSE -1
    /\ UNCHANGED <<layout, step, answers, raised, builds>>

ModuleEvent(a) ==   \* _get_module
    /\ step = "built"
    /\ hit' = IF \E i \in 1..Len(modules) : modules[i] = a THEN a ELSE -1
    /\ UNCHANGED <<layout, step, answers, raised, builds>>

-------------------------------------------------------------------------------
Groups == {0} \cup {layout.grp[i] : i \in 1..Len(layout.grp)}

BuildNext ==
    \/ StartBuild
    \/ ReadSmr \/ ReadDescriptions \/ ReadInventory \/ ReadStatus
    \/ ReadModuleDefinitions \/ ReadModuleSettings \/ ReadRouterStatus
    \/ \E g \in Groups : ModeEvent(g)
    \/ \E i \in 1..Len(layout.flags) : FlagEvent(layout.flags[i])
    \/ \E i \in 1..Len(layout.addrs) : ModuleEvent(layout.addrs[i])

BuildSpec == BuildInit /\ [][BuildNext]_buildVars

-------------------------------------------------------------------------------
(***************************************************************************)
(* Properties.                                                             *)
(***************************************************************************)
Steps == {"idle", "smr", "descriptions", "inventory", "status", "definitions", "settings",
          "router", "built", "failed"}

\* The modules are those of the inventory, and an attempt never finds the flags or
\* modules of the one before it in its router.
BuildTypeOK ==
    /\ layout \in Layouts /\ step \in Steps
    /\ Len(lists) <= Len(layout.flags)
    /\ Len(modules) <= Len(layout.addrs)
    /\ \A i \in 1..Len(modules) : modules[i] \in seen /\ modules[i] <= Len(moduleGrp)
    /\ at \in 1..(Len(modules) + 1)
    /\ named \cup typed \subseteq {modules[i] : i \in 1..Len(modules)}
    /\ step \in {"definitions", "settings"} => at <= Len(modules)
    /\ builds \in 0..MaxBuilds

\* A built router has every module the bus status named and the library models,
\* even if the inventory was cut: an answer without them fails the build.
ModelComplete ==
    step = "built" /\ aligned =>
        \A i \in 1..Len(status) :
            IsModelled(status[i]) => \E j \in 1..Len(modules) : modules[j] = status[i]

\* MODE for a group sets the mode of a module of that group, provided the modules
\* stand in the order of their addresses without a gap: only then the position of
\* the group in module_grp, by address, is a position in router.modules.
Dense == \A i \in 1..Len(moduleGrp) : i \in 1..Len(modules) /\ modules[i] = i

ModeReachesItsGroup ==
    [][\A g \in Groups \ {0} : ModeEvent(g) /\ Dense => moduleGrp[hit'] = g]_buildVars
===============================================================================
