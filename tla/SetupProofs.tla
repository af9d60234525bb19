------------------------------ MODULE SetupProofs ------------------------------
(***************************************************************************)
(* Proofs about SystemBuild for every installation, and about HostReadings *)
(* for every table of readings.                                            *)
(***************************************************************************)
EXTENDS Setup, ListsProofs, TLAPS

-------------------------------------------------------------------------------
(***************************************************************************)
(* SystemBuild.                                                            *)
(***************************************************************************)
\* Once the SMR was read, the router has the groups of its installation.
BuildInv ==
    /\ layout \in Layouts
    /\ step \notin {"idle", "smr", "failed"} => moduleGrp = layout.grp

\* A read that raises ends the attempt.
LEMMA RaiseKeepsInv ==
  ASSUME BuildInv, NEW exc, Raise(exc)
  PROVE  BuildInv'
  BY DEF Raise, BuildInv

\* A read that succeeds keeps the groups, or is the one that reads them.
LEMMA ContinueKeepsInv ==
  ASSUME BuildInv, NEW next \in Steps \ {"idle", "smr", "failed"}, Continue(next),
         moduleGrp' = layout.grp
  PROVE  BuildInv'
  BY DEF Continue, BuildInv

LEMMA BuildInductive == BuildInv /\ [BuildNext]_buildVars => BuildInv'
  <1> SUFFICES ASSUME BuildInv, [BuildNext]_buildVars  PROVE BuildInv'
    OBVIOUS
  <1>1. CASE StartBuild
    BY <1>1 DEF StartBuild, BuildInv
  <1>2. CASE ReadSmr
    BY <1>2, RaiseKeepsInv, ContinueKeepsInv DEF ReadSmr, Steps
  <1>3. CASE ReadDescriptions
    BY <1>3, RaiseKeepsInv, ContinueKeepsInv DEF ReadDescriptions, Steps, BuildInv
  <1>4. CASE ReadInventory
    BY <1>4, RaiseKeepsInv, ContinueKeepsInv DEF ReadInventory, Steps, BuildInv
  <1>5. CASE ReadStatus
    <2>1. AfterModules \in {"router", "definitions"}  BY DEF AfterModules
    <2> QED  BY <1>5, <2>1, RaiseKeepsInv, ContinueKeepsInv DEF ReadStatus, Steps, BuildInv
  <1>6. CASE ReadModuleDefinitions
    BY <1>6, RaiseKeepsInv, ContinueKeepsInv DEF ReadModuleDefinitions, Steps, BuildInv
  <1>7. CASE ReadModuleSettings
    BY <1>7, RaiseKeepsInv, ContinueKeepsInv DEF ReadModuleSettings, Steps, BuildInv
  <1>8. CASE ReadRouterStatus
    BY <1>8, RaiseKeepsInv, ContinueKeepsInv DEF ReadRouterStatus, Steps, BuildInv
  <1>9. ASSUME NEW x, ModeEvent(x) \/ FlagEvent(x) \/ ModuleEvent(x)  PROVE BuildInv'
    BY <1>9 DEF ModeEvent, FlagEvent, ModuleEvent, answers, BuildInv
  <1>10. CASE UNCHANGED buildVars
    BY <1>10 DEF buildVars, answers, BuildInv
  <1> QED
    BY <1>1, <1>2, <1>3, <1>4, <1>5, <1>6, <1>7, <1>8, <1>9, <1>10 DEF BuildNext

LEMMA BuildStarts == BuildInit => BuildInv
  BY DEF BuildInit, BuildInv

-------------------------------------------------------------------------------
\* list.index of a group that some address has is a position that holds it.
LEMMA PositionHoldsGroup ==
  ASSUME BuildInv, moduleGrp = layout.grp, NEW g \in Groups \ {0}
  PROVE  PositionOf(g) \in 1..Len(moduleGrp) /\ moduleGrp[PositionOf(g)] = g
  <1> DEFINE positions == {i \in 1..Len(moduleGrp) : moduleGrp[i] = g}
  <1>1. Len(moduleGrp) \in Nat  BY BuildAssumption DEF BuildInv
  <1>2. positions # {} /\ positions \in SUBSET Nat  BY <1>1 DEF Groups
  <1>3. \E i \in positions : \A j \in positions : i <= j
    <2> HIDE DEF positions
    <2> QED  BY <1>2, FirstPosition
  <1>4. PositionOf(g) = CHOOSE i \in positions : \A j \in positions : i <= j
    BY <1>2 DEF PositionOf
  <1>5. PositionOf(g) \in positions
    <2> HIDE DEF positions
    <2> QED  BY <1>3, <1>4
  <1> QED  BY <1>5

\* apply_event, MODE of a group: where the modules stand in the order of their
\* addresses without a gap, the mode set is that of a module of the group.
THEOREM ModeFindsItsGroup == BuildSpec => ModeReachesItsGroup
  <1>1. BuildInv /\ [BuildNext]_buildVars =>
          [\A g \in Groups \ {0} : ModeEvent(g) /\ Dense => moduleGrp[hit'] = g]_buildVars
    <2> SUFFICES ASSUME BuildInv, NEW g \in Groups \ {0}, ModeEvent(g), Dense
                 PROVE  moduleGrp[hit'] = g
      OBVIOUS
    <2>1. moduleGrp = layout.grp /\ hit' = ModeTarget(g)  BY DEF ModeEvent, BuildInv
    <2>2. PositionOf(g) \in 1..Len(moduleGrp) /\ moduleGrp[PositionOf(g)] = g
      BY <2>1, PositionHoldsGroup
    <2>3. PositionOf(g) \in 1..Len(modules) /\ modules[PositionOf(g)] = PositionOf(g)
      BY <2>2 DEF Dense
    <2> QED  BY <2>1, <2>2, <2>3 DEF ModeTarget
  <1> QED  BY <1>1, BuildStarts, BuildInductive, PTL DEF BuildSpec, ModeReachesItsGroup
-------------------------------------------------------------------------------
\* A list is made of the modelled ones among the first n entries.
Gathered(list, entries, n) ==
    /\ list \in Seq(Nat) /\ Len(list) <= n
    /\ \A i \in 1..Len(list) : \E j \in 1..n : list[i] = entries[j]
    /\ \A j \in 1..n : IsModelled(entries[j]) => \E i \in 1..Len(list) : list[i] = entries[j]

\* parse_module_inventory: every entry of a modelled type becomes a module, no other does.
LEMMA InventoryGathers ==
  ASSUME NEW entries \in Seq(Nat)
  PROVE  Gathered(Entries(entries, {i \in 1..Len(entries) : IsModelled(entries[i])}),
                  entries, Len(entries))
  <1> DEFINE modelled == {i \in 1..Len(entries) : IsModelled(entries[i])}
             list == Entries(entries, modelled)
  <1>1. /\ list \in Seq(Nat) /\ Len(list) <= Len(entries)
        /\ \E f : Picks(f, list, entries, modelled, Len(entries))
    <2> HIDE DEF modelled
    <2> QED  BY EntriesPick
  <1>2. PICK f : Picks(f, list, entries, modelled, Len(entries))  BY <1>1
  <1>3. \A j \in 1..Len(entries) : j \in modelled <=> IsModelled(entries[j])  OBVIOUS
  <1> HIDE DEF list, modelled
  <1>4. \A i \in 1..Len(list) : f[i] \in 1..Len(entries) /\ list[i] = entries[f[i]]
    BY <1>2 DEF Picks
  <1>5. \A j \in 1..Len(entries) : IsModelled(entries[j]) => \E i \in 1..Len(list) : f[i] = j
    BY <1>2, <1>3 DEF Picks
  <1>6. \A j \in 1..Len(entries) : IsModelled(entries[j]) => \E i \in 1..Len(list) : list[i] = entries[j]
    BY <1>4, <1>5
  <1>7. Gathered(list, entries, Len(entries))  BY <1>1, <1>4, <1>6 DEF Gathered
  <1> QED  BY <1>7 DEF list, modelled

-------------------------------------------------------------------------------
(***************************************************************************)
(* BuildTypeOK and ModelComplete.  The inductive invariant adds what a     *)
(* fresh router still is before the read that fills a part of it, and that *)
(* the modules are the modelled ones among the addresses seen.             *)
(***************************************************************************)
PartsInv ==
    /\ BuildTypeOK
    /\ moduleGrp \in {<<>>, layout.grp}
    /\ lists \in Seq(Nat) /\ modules \in Seq(Nat)
    /\ step \in {"smr", "descriptions"} => lists = <<>>
    /\ step \in {"smr", "descriptions", "inventory"} =>
            modules = <<>> /\ at = 1 /\ named = {} /\ typed = {}

AfterInventory == {"status", "definitions", "settings", "router", "built"}

SeenInv ==
    /\ step \in AfterInventory =>
            \A a \in seen : IsModelled(a) => \E j \in 1..Len(modules) : modules[j] = a
    /\ step \in AfterInventory \ {"status"} /\ aligned => \A i \in 1..Len(status) : status[i] \in seen

\* The lists of an installation are lists of numbers.
LEMMA LayoutTyped ==
  ASSUME layout \in Layouts
  PROVE  /\ layout.flags \in Seq(Nat) /\ Len(layout.flags) \in Nat
         /\ layout.addrs \in Seq(Nat) /\ Len(layout.addrs) \in Nat
         /\ layout.grp \in Seq(Nat \ {0}) /\ Len(layout.grp) \in Nat
  <1>1. \A s \in Seq(Nat \ {0}) : s \in Seq(Nat)
    <2> TAKE s \in Seq(Nat \ {0})
    <2>1. Len(s) \in Nat /\ s = [i \in 1..Len(s) |-> s[i]] /\ \A i \in 1..Len(s) : s[i] \in Nat
      OBVIOUS
    <2>2. [i \in 1..Len(s) |-> s[i]] \in Seq(Nat)
      <3> DEFINE f(i) == s[i]
      <3>1. \A i \in 1..Len(s) : f(i) \in Nat  BY <2>1
      <3> HIDE DEF f
      <3>2. [i \in 1..Len(s) |-> f(i)] \in Seq(Nat)  BY <2>1, <3>1
      <3> QED  BY <3>2 DEF f
    <2> QED  BY <2>1, <2>2
  <1>2. layout.flags \in Seq(Nat) /\ layout.addrs \in Seq(Nat \ {0}) /\ layout.grp \in Seq(Nat \ {0})
    BY BuildAssumption
  <1> QED  BY <1>1, <1>2

LEMMA PartsStart == BuildInit => PartsInv /\ SeenInv
  <1> SUFFICES ASSUME BuildInit  PROVE PartsInv /\ SeenInv  OBVIOUS
  <1>1. Len(layout.flags) \in Nat /\ Len(layout.addrs) \in Nat /\ MaxBuilds \in Nat
    BY BuildAssumption DEF BuildInit
  <1>2. <<>> \in Seq(Nat) /\ Len(<<>>) = 0  OBVIOUS
  <1> QED  BY <1>1, <1>2 DEF BuildInit, PartsInv, BuildTypeOK, SeenInv, AfterInventory, Steps

\* A read that raises leaves everything but the step.
LEMMA RaiseKeepsParts ==
  ASSUME PartsInv, NEW exc, Raise(exc)
  PROVE  PartsInv' /\ SeenInv'
  <1>1. PartsInv'  BY DEF Raise, answers, PartsInv, BuildTypeOK, Steps
  <1>2. SeenInv'  BY DEF Raise, SeenInv, AfterInventory
  <1> QED  BY <1>1, <1>2

\* Cutting an answer keeps a list of numbers, not longer than the whole.
LEMMA CutList ==
  ASSUME NEW whole \in Seq(Nat), NEW k \in 0..Len(whole)
  PROVE  SubSeq(whole, 1, k) \in Seq(Nat) /\ Len(SubSeq(whole, 1, k)) = k
         /\ \A i \in 1..k : SubSeq(whole, 1, k)[i] = whole[i]
  OBVIOUS

LEMMA InventoryKeepsParts ==
  ASSUME PartsInv, ReadInventory
  PROVE  PartsInv' /\ SeenInv'
  <1>1. CASE \E exc : Raise(exc)
    BY <1>1, RaiseKeepsParts
  <1>2. ASSUME ~ \E exc : Raise(exc)  PROVE PartsInv' /\ SeenInv'
    <2>0. layout.addrs \in Seq(Nat) /\ Len(layout.addrs) \in Nat
      BY LayoutTyped DEF PartsInv, BuildTypeOK
    <2>1. PICK k \in 0..Len(layout.addrs) :
            LET entries == SubSeq(layout.addrs, 1, k)
                built   == Entries(entries, {i \in 1..k : IsModelled(entries[i])})
            IN  /\ ~ \E i \in 1..Len(built) : built[i] > Len(moduleGrp)
                /\ modules' = built
                /\ seen' = {entries[i] : i \in 1..k}
                /\ Continue("status")
                /\ UNCHANGED <<moduleGrp, lists, status, aligned, at, named, typed, routerRead>>
      BY <1>2 DEF ReadInventory
    <2> DEFINE entries == SubSeq(layout.addrs, 1, k)
               built   == Entries(entries, {i \in 1..k : IsModelled(entries[i])})
    <2>2. entries \in Seq(Nat) /\ Len(entries) = k  BY <2>0, CutList
    <2>3. Gathered(built, entries, k)
      <3> HIDE DEF entries
      <3>1. Gathered(Entries(entries, {i \in 1..Len(entries) : IsModelled(entries[i])}),
                     entries, Len(entries))
        BY <2>2, InventoryGathers
      <3> QED  BY <3>1, <2>2
    <2>4. /\ \A i \in 1..Len(built) : ~(built[i] > Len(moduleGrp))
          /\ modules' = built
          /\ seen' = {entries[i] : i \in 1..k}
          /\ moduleGrp' = moduleGrp /\ lists' = lists /\ at' = at /\ named' = named /\ typed' = typed
      BY <2>1
    <2>5. layout' = layout /\ builds' = builds /\ step' = "status"
      BY <2>1 DEF Continue
    <2>6. step = "inventory"  BY DEF ReadInventory
    <2> HIDE DEF entries, built
    <2>7. /\ built \in Seq(Nat) /\ Len(built) \in Nat /\ Len(built) <= k
          /\ \A i \in 1..Len(built) : \E j \in 1..k : built[i] = entries[j]
          /\ \A j \in 1..k : IsModelled(entries[j]) => \E i \in 1..Len(built) : built[i] = entries[j]
      <3>1. built \in Seq(Nat) /\ Len(built) <= k  BY <2>3 DEF Gathered
      <3>2. Len(built) \in Nat  BY <3>1
      <3> QED  BY <2>3, <3>1, <3>2, Zenon DEF Gathered
    <2>8. Len(moduleGrp) \in Nat
      <3>1. layout.grp \in Seq(Nat \ {0})  BY BuildAssumption DEF PartsInv, BuildTypeOK
      <3> QED  BY <3>1 DEF PartsInv
    <2>9. \A i \in 1..Len(built) : built[i] \in seen' /\ built[i] <= Len(moduleGrp)
      <3>1. \A i \in 1..Len(built) : built[i] \in Nat  BY <2>7
      <3>2. \A i \in 1..Len(built) : built[i] <= Len(moduleGrp)  BY <3>1, <2>4, <2>8
      <3>3. \A i \in 1..Len(built) : \E j \in 1..k : built[i] = entries[j]  BY <2>7
      <3>4. \A i \in 1..Len(built) : built[i] \in seen'  BY <3>3, <2>4
      <3> QED  BY <3>2, <3>4
    <2>10. Len(built) <= Len(layout.addrs)  BY <2>0, <2>7
    <2>11. at = 1 /\ named = {} /\ typed = {}  BY <2>6 DEF PartsInv
    <2>12. at \in 1..(Len(built) + 1)  BY <2>7, <2>11
    <2>13. BuildTypeOK'
      BY <2>4, <2>5, <2>9, <2>10, <2>11, <2>12 DEF PartsInv, BuildTypeOK, Steps
    <2>14. PartsInv'
      BY <2>13, <2>4, <2>5, <2>7 DEF PartsInv
    <2>15. \A a \in seen' : IsModelled(a) => \E j \in 1..Len(built) : built[j] = a
      BY <2>4, <2>7
    <2>16. SeenInv'
      BY <2>15, <2>4, <2>5 DEF SeenInv, IsModelled
    <2> QED  BY <2>14, <2>16
  <1> QED  BY <1>1, <1>2

LEMMA PartsInductive == PartsInv /\ SeenInv /\ [BuildNext]_buildVars => PartsInv' /\ SeenInv'
  <1> SUFFICES ASSUME PartsInv, SeenInv, [BuildNext]_buildVars  PROVE PartsInv' /\ SeenInv'
    OBVIOUS
  <1>0. layout.flags \in Seq(Nat) /\ layout.addrs \in Seq(Nat) /\ Len(layout.flags) \in Nat
        /\ Len(layout.addrs) \in Nat /\ layout.grp \in Seq(Nat \ {0}) /\ Len(modules) \in Nat
    BY LayoutTyped DEF PartsInv, BuildTypeOK
  <1>r. ASSUME NEW exc, Raise(exc)  PROVE PartsInv' /\ SeenInv'
    BY <1>r, RaiseKeepsParts
  <1>1. CASE StartBuild
    <2>1. <<>> \in Seq(Nat) /\ Len(<<>>) = 0  OBVIOUS
    <2>2. builds' \in 0..MaxBuilds  BY <1>1, BuildAssumption DEF StartBuild, PartsInv, BuildTypeOK
    <2>3. BuildTypeOK'
      BY <1>1, <1>0, <2>1, <2>2 DEF StartBuild, Fresh, PartsInv, BuildTypeOK, Steps
    <2>4. PartsInv'  BY <1>1, <2>1, <2>3 DEF StartBuild, Fresh, PartsInv
    <2>5. SeenInv'  BY <1>1 DEF StartBuild, SeenInv, AfterInventory
    <2> QED  BY <2>4, <2>5
  <1>2. CASE ReadSmr
    <2> SUFFICES ASSUME moduleGrp' = layout.grp, Continue("descriptions"),
                        UNCHANGED <<lists, modules, seen, status, aligned, at, named, typed, routerRead>>
                 PROVE  PartsInv' /\ SeenInv'
      BY <1>2, <1>r DEF ReadSmr
    <2>1. step = "smr"  BY <1>2 DEF ReadSmr
    <2>2. modules = <<>> /\ Len(modules) = 0 /\ lists = <<>>  BY <2>1 DEF PartsInv
    <2>3. BuildTypeOK'  BY <2>1, <2>2 DEF Continue, PartsInv, BuildTypeOK, Steps
    <2>4. PartsInv'  BY <2>1, <2>2, <2>3 DEF Continue, PartsInv
    <2>5. SeenInv'  BY DEF Continue, SeenInv, AfterInventory
    <2> QED  BY <2>4, <2>5
  <1>3. CASE ReadDescriptions
    <2>1. CASE \E exc : Raise(exc)  BY <2>1, <1>r
    <2>2. CASE ~ \E exc : Raise(exc)
      <3>1. PICK k \in 0..Len(layout.flags) :
              /\ lists' = lists \o SubSeq(layout.flags, 1, k)
              /\ Continue("inventory")
              /\ UNCHANGED <<moduleGrp, modules, seen, status, aligned, at, named, typed, routerRead>>
        BY <1>3, <2>2 DEF ReadDescriptions
      <3> DEFINE cut == SubSeq(layout.flags, 1, k)
      <3>2. cut \in Seq(Nat) /\ Len(cut) = k  BY <1>0, CutList
      <3>3. step = "descriptions"  BY <1>3 DEF ReadDescriptions
      <3>4. lists = <<>>  BY <3>3 DEF PartsInv
      <3>5. lists' \in Seq(Nat) /\ Len(lists') <= Len(layout.flags)
        <4> HIDE DEF cut
        <4>1. lists' = <<>> \o cut  BY <3>1, <3>4 DEF cut
        <4>2. lists' = cut  BY <4>1, <3>2
        <4> QED  BY <4>2, <3>2, <1>0
      <3> HIDE DEF cut
      <3>6. BuildTypeOK'  BY <3>1, <3>3, <3>5 DEF Continue, PartsInv, BuildTypeOK, Steps
      <3>7. PartsInv'  BY <3>1, <3>3, <3>5, <3>6 DEF Continue, PartsInv
      <3>8. SeenInv'  BY <3>1 DEF Continue, SeenInv, AfterInventory
      <3> QED  BY <3>7, <3>8
    <2> QED  BY <2>1, <2>2
  <1>4. CASE ReadInventory
    BY <1>4, InventoryKeepsParts
  <1>5. CASE ReadStatus
    <2>1. CASE \E exc : Raise(exc)  BY <2>1, <1>r
    <2>2. CASE ~ \E exc : Raise(exc)
      <3>1. PICK k \in 0..Len(layout.addrs), whole \in BOOLEAN :
              LET blocks == SubSeq(layout.addrs, 1, k) IN
              /\ ~Incomplete(blocks, whole)
              /\ status' = blocks
              /\ aligned' = whole
              /\ Continue(AfterModules)
              /\ UNCHANGED <<moduleGrp, lists, modules, seen, at, named, typed, routerRead>>
        BY <1>5, <2>2 DEF ReadStatus
      <3> DEFINE blocks == SubSeq(layout.addrs, 1, k)
      <3>2. aligned' => \A i \in 1..Len(status') : status'[i] \in seen
        BY <3>1 DEF Incomplete
      <3>3. step = "status"  BY <1>5 DEF ReadStatus
      <3>4. step' = "router" \/ (step' = "definitions" /\ at <= Len(modules))
        <4>1. at \in Nat  BY DEF PartsInv, BuildTypeOK
        <4> QED  BY <3>1, <4>1, <1>0 DEF Continue, AfterModules
      <3>5. BuildTypeOK'  BY <3>1, <3>3, <3>4 DEF Continue, PartsInv, BuildTypeOK, Steps
      <3>6. PartsInv'  BY <3>1, <3>3, <3>4, <3>5 DEF Continue, PartsInv
      <3>7. SeenInv'
        BY <3>1, <3>2, <3>3 DEF Continue, SeenInv, AfterInventory, IsModelled
      <3> QED  BY <3>6, <3>7
    <2> QED  BY <2>1, <2>2
  <1>6. CASE ReadModuleDefinitions
    <2> SUFFICES ASSUME named' \in {named, named \cup {modules[at]}}, Continue("settings"),
                        UNCHANGED <<moduleGrp, lists, modules, seen, status, aligned, at, typed, routerRead>>
                 PROVE  PartsInv' /\ SeenInv'
      BY <1>6, <1>r DEF ReadModuleDefinitions
    <2>1. step = "definitions"  BY <1>6 DEF ReadModuleDefinitions
    <2>2. at \in 1..Len(modules)  BY <2>1 DEF PartsInv, BuildTypeOK
    <2>3. BuildTypeOK'  BY <2>1, <2>2 DEF Continue, PartsInv, BuildTypeOK, Steps
    <2>4. PartsInv'  BY <2>1, <2>3 DEF Continue, PartsInv
    <2>5. SeenInv'  BY <2>1 DEF Continue, SeenInv, AfterInventory, IsModelled
    <2> QED  BY <2>4, <2>5
  <1>7. CASE ReadModuleSettings
    <2> SUFFICES ASSUME typed' \in {typed, typed \cup {modules[at]}}, at' = at + 1,
                        Continue(IF at + 1 > Len(modules) THEN "router" ELSE "definitions"),
                        UNCHANGED <<moduleGrp, lists, modules, seen, status, aligned, named, routerRead>>
                 PROVE  PartsInv' /\ SeenInv'
      BY <1>7, <1>r DEF ReadModuleSettings
    <2>1. step = "settings"  BY <1>7 DEF ReadModuleSettings
    <2>2. at \in 1..Len(modules)  BY <2>1 DEF PartsInv, BuildTypeOK
    <2>3. at' \in 1..(Len(modules) + 1)  BY <2>2, <1>0
    <2>4. step' = "router" \/ (step' = "definitions" /\ at' <= Len(modules))
      BY <2>2, <1>0 DEF Continue
    <2>5. BuildTypeOK'  BY <2>1, <2>2, <2>3, <2>4 DEF Continue, PartsInv, BuildTypeOK, Steps
    <2>6. PartsInv'  BY <2>1, <2>4, <2>5 DEF Continue, PartsInv
    <2>7. SeenInv'  BY <2>1, <2>4 DEF Continue, SeenInv, AfterInventory, IsModelled
    <2> QED  BY <2>6, <2>7
  <1>8. CASE ReadRouterStatus
    <2> SUFFICES ASSUME Continue("built"),
                        UNCHANGED <<moduleGrp, lists, modules, seen, status, aligned, at, named, typed>>
                 PROVE  PartsInv' /\ SeenInv'
      BY <1>8, <1>r DEF ReadRouterStatus
    <2>1. step = "router"  BY <1>8 DEF ReadRouterStatus
    <2>2. BuildTypeOK'  BY <2>1 DEF Continue, PartsInv, BuildTypeOK, Steps
    <2>3. PartsInv'  BY <2>1, <2>2 DEF Continue, PartsInv
    <2>4. SeenInv'  BY <2>1 DEF Continue, SeenInv, AfterInventory, IsModelled
    <2> QED  BY <2>3, <2>4
  <1>9. ASSUME UNCHANGED <<layout, step, answers, raised, builds>>  PROVE PartsInv' /\ SeenInv'
    <2>1. PartsInv'  BY <1>9 DEF answers, PartsInv, BuildTypeOK
    <2>2. SeenInv'  BY <1>9 DEF answers, SeenInv, IsModelled
    <2> QED  BY <2>1, <2>2
  <1>10. ASSUME NEW x, ModeEvent(x) \/ FlagEvent(x) \/ ModuleEvent(x)  PROVE PartsInv' /\ SeenInv'
    BY <1>9, <1>10 DEF ModeEvent, FlagEvent, ModuleEvent
  <1>11. CASE UNCHANGED buildVars
    BY <1>9, <1>11 DEF buildVars
  <1> QED
    BY <1>1, <1>2, <1>3, <1>4, <1>5, <1>6, <1>7, <1>8, <1>10, <1>11 DEF BuildNext

\* build_router and the parsers: however the answers are cut and however often the
\* build is tried, the router holds only modules of this attempt's inventory, flags
\* of this attempt's descriptions, and is at one of its modules.
THEOREM BuildTypeCorrect == BuildSpec => []BuildTypeOK
  <1>1. PartsInv => BuildTypeOK  BY DEF PartsInv
  <1> QED  BY <1>1, PartsStart, PartsInductive, PTL DEF BuildSpec

\* _raise_on_incomplete_inventory: a built router has every module of a modelled type
\* that its status named.
THEOREM BuiltIsComplete == BuildSpec => []ModelComplete
  <1>1. SeenInv => ModelComplete  BY DEF SeenInv, AfterInventory, ModelComplete
  <1> QED  BY <1>1, PartsStart, PartsInductive, PTL DEF BuildSpec
-------------------------------------------------------------------------------
(***************************************************************************)
(* HostReadings.                                                           *)
(***************************************************************************)
\* What FirstPollNotifiesAll needs besides: a hub polled once is built, and the
\* count of raises tells whether a listener ever raised.
HostInv ==
    /\ hub.members \subseteq HostNames
    /\ hostValid => hub.built
    /\ hostRaises \in Nat
    /\ FirstPollNotifiesAll

\* A poll that no listener interrupts announces every reading the first time.
LEMMA ApplyNotifies ==
  ASSUME HostInv, hub.built, NEW update, ApplyHostDiagnostics(update)
  PROVE  HostInv'
  <1>1. hub' = hub /\ hostHeard \subseteq hostHeard'  BY DEF ApplyHostDiagnostics
  <1>2. CASE hostRaises' = hostRaises + 1
    <2>1. hostRaises' \in Nat /\ hostRaises' # 0  BY <1>2 DEF HostInv
    <2> QED  BY <1>1, <2>1 DEF HostInv, FirstPollNotifiesAll, HostNames
  <1>3. CASE /\ hostFired' = {n \in {HostTable[i] : i \in 1..Len(HostTable)} \cap hub.members :
                               Announced(n, update[n])}
             /\ hostRaises' = hostRaises
    <2>1. CASE hostValid
      BY <1>1, <1>3, <2>1 DEF HostInv, FirstPollNotifiesAll, HostNames
    <2>2. CASE ~hostValid
      <3>1. hub.members \subseteq hostFired'  BY <1>3, <2>2 DEF HostInv, HostNames, Announced
      <3>2. hostFired' \subseteq hostHeard'  BY DEF ApplyHostDiagnostics
      <3> QED  BY <1>1, <1>3, <3>1, <3>2 DEF HostInv, FirstPollNotifiesAll, HostNames
    <2> QED  BY <2>1, <2>2
  <1> QED  BY <1>2, <1>3 DEF ApplyHostDiagnostics

LEMMA HostInductive == HostInv /\ [HostNext]_hostVars => HostInv'
  <1> SUFFICES ASSUME HostInv, [HostNext]_hostVars  PROVE HostInv'
    OBVIOUS
  <1>1. ASSUME NEW kind, Fails(kind)  PROVE HostInv'
    BY <1>1 DEF Fails, HostInv, FirstPollNotifiesAll, HostNames
  <1>2. CASE BuildHub
    <2>1. CASE Fails("habitron")  BY <1>1, <2>1
    <2>2. ASSUME NEW info \in HubInfos,
                 /\ hub' = [built |-> TRUE,
                            uid |-> IF IsIdentity(info.lan) THEN info.lan ELSE "",
                            macs |-> {m \in {info.lan, info.wlan, info.mac} : IsIdentity(m)},
                            slug |-> IF info.slug = "addon" THEN "addon" ELSE "",
                            members |-> IF info.platform = "pi" THEN HostNames ELSE {}],
                 UNCHANGED <<hostValid, hostValue, hostFired, hostHeard, hostDeaf, hostRaises>>
          PROVE  HostInv'
      <3>1. ~hostValid'  BY <1>2, <2>2 DEF BuildHub, HostInv
      <3>2. hub'.members \subseteq HostNames  BY <2>2
      <3> QED  BY <2>2, <3>1, <3>2 DEF HostInv, FirstPollNotifiesAll, HostNames
    <2> QED  BY <1>2, <2>1, <2>2 DEF BuildHub
  <1>3. CASE RefreshHub
    <2>1. ASSUME NEW update \in Updates, ApplyHostDiagnostics(update)  PROVE HostInv'
      BY <1>3, <2>1, ApplyNotifies DEF RefreshHub
    <2> QED  BY <1>1, <1>3, <2>1 DEF RefreshHub
  <1>4. CASE UNCHANGED hostVars
    BY <1>4 DEF hostVars, HostInv, FirstPollNotifiesAll, HostNames
  <1> QED  BY <1>2, <1>3, <1>4 DEF HostNext

\* async_refresh_hub: with the first poll every reading is announced, whatever its
\* value, unless a listener raised on the way.
THEOREM FirstPollIsHeard == HostSpec => []FirstPollNotifiesAll
  <1>1. HostInit => HostInv
    <2> SUFFICES ASSUME HostInit  PROVE HostInv
      OBVIOUS
    <2>1. hub.members = {} /\ ~hostValid /\ hostRaises \in Nat  BY DEF HostInit
    <2> QED  BY <2>1 DEF HostInv, FirstPollNotifiesAll
  <1> QED  BY <1>1, HostInductive, PTL DEF HostSpec, HostInv

-------------------------------------------------------------------------------
\* apply_host_diagnostics: a reading never changes in silence; where a listener raises,
\* the members before it were notified and those behind it keep their values.
THEOREM ChangesAreHeard == HostSpec => HostChangesHeard
  <1>1. [HostNext]_hostVars =>
          [\A n \in HostNames : hostValue'[n] # hostValue[n] => n \in hostFired' \cup hostDeaf']_hostVars
    <2> SUFFICES ASSUME HostNext, NEW n \in HostNames, hostValue'[n] # hostValue[n]
                 PROVE  n \in hostFired' \cup hostDeaf'
      BY DEF hostVars
    <2>1. PICK update \in Updates : ApplyHostDiagnostics(update)
      BY DEF HostNext, BuildHub, RefreshHub, Fails
    <2> DEFINE Upto(k) == {HostTable[i] : i \in 1..k}
               Write(k) == [m \in HostNames |-> IF m \in Upto(k) \cap hub.members
                                                THEN update[m] ELSE hostValue[m]]
               Fired(k) == {m \in Upto(k) \cap hub.members : Announced(m, update[m])}
    <2>2. \A k : hostValue' = Write(k) => n \in Fired(k)  BY DEF Announced
    <2> HIDE DEF Write, Fired, Upto
    <2>3. \/ hostValue' = Write(Len(HostTable)) /\ hostFired' = Fired(Len(HostTable))
          \/ \E k \in 1..Len(HostTable) : /\ hostValue' = Write(k)
                                          /\ hostFired' = Fired(k) \ {HostTable[k]}
                                          /\ hostDeaf' = {HostTable[k]}
      BY <2>1 DEF ApplyHostDiagnostics, Write, Fired, Upto
    <2> QED  BY <2>2, <2>3
  <1> QED  BY <1>1, PTL DEF HostSpec, HostChangesHeard

-------------------------------------------------------------------------------
(***************************************************************************)
(* Type correctness: what an answer holds never reaches the members unseen.*)
(***************************************************************************)
\* An accepted update holds a float for each reading, and a finite one for a log level.
LEMMA AcceptedUpdate ==
  ASSUME NEW update \in Updates, Verdict(update) = "none"
  PROVE  /\ update \in [HostNames -> Readings \cup {Infinite, Nan}]
         /\ \A n \in LogLevels : update[n] \notin {Infinite, Nan}
  <1>1. \A k \in 1..Len(HostTable) :
            /\ update[HostTable[k]] # NoNumber
            /\ HostTable[k] \in LogLevels => update[HostTable[k]] \notin {Nan, Infinite}
    BY DEF Verdict
  <1>2. LogLevels \subseteq HostNames  BY HostAssumption DEF HostNames
  <1> QED  BY <1>1, <1>2 DEF Updates, HostNames

LEMMA ApplyKeepsType ==
  ASSUME HostTypeOK, NEW update \in Updates, Verdict(update) = "none",
         ApplyHostDiagnostics(update)
  PROVE  HostTypeOK'
  <1> DEFINE Upto(k) == {HostTable[i] : i \in 1..k}
             Write(k) == [m \in HostNames |-> IF m \in Upto(k) \cap hub.members
                                              THEN update[m] ELSE hostValue[m]]
             Fired(k) == {m \in Upto(k) \cap hub.members : Announced(m, update[m])}
  <1>1. /\ update \in [HostNames -> Readings \cup {Infinite, Nan}]
        /\ \A n \in LogLevels : update[n] \notin {Infinite, Nan}
    BY AcceptedUpdate
  <1>2. LogLevels \subseteq HostNames  BY HostAssumption DEF HostNames
  <1>3. ASSUME NEW k, hostValue' = Write(k)
        PROVE  /\ hostValue' \in [HostNames -> Readings \cup {Infinite, Nan}]
               /\ \A n \in LogLevels : hostValue'[n] \notin {Infinite, Nan}
    <2>1. hostValue' \in [HostNames -> Readings \cup {Infinite, Nan}]
      BY <1>1, <1>3 DEF HostTypeOK
    <2>2. \A n \in HostNames : hostValue'[n] = update[n] \/ hostValue'[n] = hostValue[n]
      BY <1>3
    <2> QED  BY <1>1, <1>2, <2>1, <2>2 DEF HostTypeOK
  <1>4. \A k : Fired(k) \subseteq HostNames  BY DEF HostTypeOK
  <1> HIDE DEF Write, Fired, Upto
  <1>5. \/ /\ hostValue' = Write(Len(HostTable)) /\ hostFired' = Fired(Len(HostTable))
           /\ hostDeaf' = {} /\ hostError' = "none" /\ hostRaises' = hostRaises
        \/ \E k \in 1..Len(HostTable) :
             /\ hostValue' = Write(k)
             /\ hostFired' = Fired(k) \ {HostTable[k]} /\ hostDeaf' = {HostTable[k]}
             /\ hostError' = "other"
             /\ hostRaises < MaxHostRaises /\ hostRaises' = hostRaises + 1
    BY DEF ApplyHostDiagnostics, Write, Fired, Upto
  <1>6. hostValid' = TRUE /\ hostHeard' = hostHeard \cup hostFired' /\ hub' = hub
    BY DEF ApplyHostDiagnostics
  <1>7. /\ hostValue' \in [HostNames -> Readings \cup {Infinite, Nan}]
        /\ \A n \in LogLevels : hostValue'[n] \notin {Infinite, Nan}
    BY <1>3, <1>5
  <1>8. hostFired' \cup hostDeaf' \subseteq HostNames
    BY <1>4, <1>5 DEF HostNames
  <1>9. hostRaises' \in 0..MaxHostRaises
    <2>1. hostRaises' = hostRaises \/ (hostRaises < MaxHostRaises /\ hostRaises' = hostRaises + 1)
      BY <1>5
    <2>2. hostRaises \in 0..MaxHostRaises /\ MaxHostRaises \in Nat
      BY HostAssumption, Zenon DEF HostTypeOK
    <2> QED  BY <2>1, <2>2
  <1>10. hostError' \in {"none", "habitron", "other"}  BY <1>5
  <1>11. hostValid' \in BOOLEAN  BY <1>6, Zenon
  <1> QED  BY <1>6, <1>7, <1>8, <1>9, <1>10, <1>11 DEF HostTypeOK, HostNames

LEMMA BuildKeepsType ==
  ASSUME HostTypeOK, NEW info \in HubInfos,
         hub' = [built |-> TRUE,
                 uid |-> IF IsIdentity(info.lan) THEN info.lan ELSE "",
                 macs |-> {m \in {info.lan, info.wlan, info.mac} : IsIdentity(m)},
                 slug |-> IF info.slug = "addon" THEN "addon" ELSE "",
                 members |-> IF info.platform = "pi" THEN HostNames ELSE {}],
         hostError' = "none",
         UNCHANGED <<hostValid, hostValue, hostFired, hostHeard, hostDeaf, hostRaises>>
  PROVE  HostTypeOK'
  <1>1. hub'.members \subseteq HostNames  BY DEF HostNames
  <1>2. hub'.uid \in {""} \cup hub'.macs
    <2>1. hub'.uid = IF IsIdentity(info.lan) THEN info.lan ELSE ""  OBVIOUS
    <2>2. IsIdentity(info.lan) => info.lan \in hub'.macs  OBVIOUS
    <2> QED  BY <2>1, <2>2
  <1> QED  BY <1>1, <1>2 DEF HostTypeOK, HostNames

\* parse_smhub_info and parse_host_diagnostics: whatever a hub answers, the members hold
\* numbers, a log level an integer, and an identity is an address the hub reported.
THEOREM HostTypeCorrect == HostSpec => []HostTypeOK
  <1>1. HostInit => HostTypeOK
    <2> SUFFICES ASSUME HostInit  PROVE HostTypeOK
      OBVIOUS
    <2>1. hub.members = {} /\ hub.uid = ""  BY DEF HostInit
    <2>2. /\ hostValue \in [HostNames -> Readings \cup {Infinite, Nan}]
          /\ \A n \in LogLevels : hostValue[n] \notin {Infinite, Nan}
      <3>1. 0 \in Readings \cup {Infinite, Nan} /\ 0 \notin {Infinite, Nan}
        BY HostAssumption DEF Nan, Infinite
      <3>2. LogLevels \subseteq HostNames  BY HostAssumption, Zenon DEF HostNames
      <3>3. hostValue = [n \in HostNames |-> 0]  BY Zenon DEF HostInit
      <3> QED  BY <3>1, <3>2, <3>3
    <2>3. hostValid \in BOOLEAN  BY Zenon DEF HostInit
    <2>4. hostRaises \in 0..MaxHostRaises
      <3>1. hostRaises = 0 /\ MaxHostRaises \in Nat  BY HostAssumption, Zenon DEF HostInit
      <3> QED  BY <3>1
    <2>5. hostFired = {} /\ hostHeard = {} /\ hostDeaf = {} /\ hostError = "none"
      BY DEF HostInit
    <2> QED  BY <2>1, <2>2, <2>3, <2>4, <2>5 DEF HostTypeOK
  <1>2. HostTypeOK /\ [HostNext]_hostVars => HostTypeOK'
    <2> SUFFICES ASSUME HostTypeOK, [HostNext]_hostVars  PROVE HostTypeOK'
      OBVIOUS
    <2>1. ASSUME NEW kind \in {"habitron", "other"}, Fails(kind)  PROVE HostTypeOK'
      BY <2>1 DEF Fails, HostTypeOK, HostNames
    <2>2. CASE BuildHub
      BY <2>1, <2>2, BuildKeepsType DEF BuildHub
    <2>3. CASE RefreshHub
      <3>1. ASSUME NEW update \in Updates, Verdict(update) # "none", Fails(Verdict(update))
            PROVE  HostTypeOK'
        BY <2>1, <3>1 DEF Verdict
      <3>2. ASSUME NEW update \in Updates, Verdict(update) = "none", ApplyHostDiagnostics(update)
            PROVE  HostTypeOK'
        BY <3>2, ApplyKeepsType
      <3> QED  BY <2>1, <2>3, <3>1, <3>2 DEF RefreshHub
    <2>4. CASE UNCHANGED hostVars
      BY <2>4 DEF hostVars, HostTypeOK, HostNames
    <2> QED  BY <2>2, <2>3, <2>4 DEF HostNext
  <1> QED  BY <1>1, <1>2, PTL DEF HostSpec
-------------------------------------------------------------------------------
\* A behaviour of the two together is one of each, so that all of the above holds of it.
THEOREM SetupRunsBoth == Spec => BuildSpec /\ HostSpec
  <1>1. Init => BuildInit /\ HostInit  BY DEF Init
  <1>2. [Next]_vars => [BuildNext]_buildVars
    BY DEF Next, vars, BuildStep, HostStep
  <1>3. [Next]_vars => [HostNext]_hostVars
    BY DEF Next, vars, BuildStep, HostStep
  <1> QED  BY <1>1, <1>2, <1>3, PTL DEF Spec, BuildSpec, HostSpec
===============================================================================
