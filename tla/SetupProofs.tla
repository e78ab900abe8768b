---------------------------- MODULE SetupProofs ----------------------------
(***************************************************************************)
(* Theorems about Setup: types, that saved and installed targets lead      *)
(* somewhere whatever runs beside, what the installation promises at every *)
(* moment, and what is kept as long as changes do not meet, for all        *)
(* processes, objects, routes and failures.                                *)
(***************************************************************************)
EXTENDS Setup, TLAPS

\* What only the histories keep is a tuple of two.
USE DEF histVars

\* A command sets what it was started or asked for.
GoalFits == \A p \in Proc :
    /\ pc[p] = "start" => <<cmd[p], goal[p]>> \in Plan
    /\ pc[p] \in {"scan", "find", "addTable", "check", "addRoute"} =>
          goal[p] \in {"interface"} \X Iface
    /\ pc[p] = "table" => goal[p] \in {"table"} \X Table

\* A phase is at the kinds it works through, and on objects of that kind.
PhaseFits ==
    /\ phase \in {"create", "undo"} => at \in Kinds
    /\ phase = "commit" => at \in {"bypass", "rule", "nat", "scheduler"}
    /\ phase \in {"create", "commit", "undo"} => todo \subseteq Of(at)

\* The inductive invariant behind TypeOK.
TypeInv == TypeOK /\ GoalFits /\ PhaseFits

\* The inductive invariant of the target: every selection there is anywhere
\* leads somewhere, in the files, in a command's memory and in the rules.
RouteInv ==
    /\ TypeInv
    /\ Routed(file) /\ Routed(tmp) /\ \A p \in Proc : Routed(mem[p])
    /\ InstalledRoutes

\* Nothing routes, or everything needed for it is on.
Guarded ==
    \/ Of("rule") \cap there = {}
    \/ Of("bypass") \subseteq enabled
    \/ "health" \notin job /\ enabled \cap (Of("rule") \cup Of("scheduler")) = {}

\* How far safety is while the installation works.
Safety ==
    /\ phase = "count" => "health" \notin job \/ there # {}
    /\ phase = "render" => there = {}
    /\ phase \in {"render", "create", "clean"} =>
          enabled = {} /\ "health" \notin job
    /\ phase = "commit" /\ at = "bypass" =>
          /\ "health" \notin job
          /\ enabled \subseteq Of("bypass") /\ Of("bypass") \subseteq enabled \cup todo
    /\ phase = "commit" /\ at # "bypass" => Of("bypass") \subseteq enabled
    /\ ~trouble => Guarded

\* What has been created.
Made ==
    /\ phase = "create" =>
          /\ at # "script" => Of("script") \subseteq there
          /\ at \in {"nat", "scheduler"} => Of("rule") \subseteq there
          /\ at # "nat" => Of(at) \subseteq there \cup todo
    /\ phase \in {"clean", "commit", "ok"} => Complete

\* What has been taken back.
Unmade ==
    /\ phase = "undo" /\ ~trouble =>
          /\ Of(at) \cap there \subseteq todo
          /\ at # "scheduler" => Of("scheduler") \cap there = {}
          /\ at \notin {"scheduler", "rule"} => Of("rule") \cap there = {}
          /\ at \in {"nat", "script"} => Of("bypass") \cap there = {}
          /\ at = "script" => Of("nat") \cap there = {}
    /\ phase \in {"render", "create", "clean", "commit", "undo"} /\ ~created /\ ~trouble =>
          Of("nat") \cap there = {}
    /\ FailedLeavesNothing

\* How far the adaptive state is cleared, and who alone makes it again.
Cleared ==
    /\ phase = "clean" =>
          /\ kind \in {"marks", "done"} => "legacy" \notin left
          /\ ~relearnt =>
                /\ kind \in {"lists", "legacy", "marks", "done"} => "lazy" \notin left
                /\ kind \in {"legacy", "marks", "done"} => "lists" \notin left
                /\ kind = "done" => "marks" \notin left
    /\ phase = "commit" /\ (at = "scheduler" => todo = Of("scheduler")) =>
          /\ enabled \cap Of("scheduler") = {}
          /\ "legacy" \notin left /\ (left # {} => relearnt)

\* The helper is there while anything may still fail.
HelperKept ==
    /\ HelperUntilInstalled
    /\ phase \in {"render", "create", "clean", "commit", "undo", "failed"} => helper

\* The inductive invariant of the installation.
InstallInv == TypeInv /\ Safety /\ Made /\ Unmade /\ Cleared /\ HelperKept

-----------------------------------------------------------------------------
(* Types.                                                                   *)

\* Every object has one of the kinds.
LEMMA ObjectKinds == \A o \in Obj : o[1] \in Kinds
  BY DEF Obj, Kinds

\* The cleanup begins with the lazy rules.
LEMMA FirstIsLazy == First = "lazy"
<1>1. \A j \in Residue : After[j] # "lazy"
  BY DEF Residue, After
<1>2. \A k \in Residue : (\A j \in Residue : After[j] # k) => k = "lazy"
  BY DEF Residue, After
<1> QED
  BY <1>1, <1>2 DEF First, Residue

\* Configurations that are selected, saved or kept are configurations.
LEMMA ConfigsTyped ==
    /\ Default \in Config
    /\ \A c \in Config, i \in Iface \cup {None}, t \in Table \cup {None} :
          \A m \in {"interface", "routing-table"} :
             [mode |-> m, egress |-> i, table |-> t, profile |-> c.profile] \in Config
    /\ \A c \in Config, f \in Profile : [c EXCEPT !.profile = f] \in Config
  BY FastType DEF Default, Config

\* The fresh router and its commands are of their types.
LEMMA InitTyped == Init => TypeInv
<1> SUFFICES ASSUME Init PROVE TypeInv
  OBVIOUS
<1>1. PICK plan \in Plans : cmd = [p \in Proc |-> plan[p][1]] /\ goal = [p \in Proc |-> plan[p][2]]
  BY DEF Init
<1>2. \A p \in Proc : plan[p] \in Plan
  BY PlansType
<1>3. \A p \in Proc : /\ plan[p] = <<plan[p][1], plan[p][2]>>
                      /\ plan[p][1] \in {"config", "target", "setup", "install"}
                      /\ plan[p][2] \in Goal \cup {None}
  BY <1>2 DEF Plan, Goal
<1>4. cmd \in [Proc -> {"config", "target", "setup", "install"}]
  BY <1>1, <1>3
<1>5. goal \in [Proc -> Goal \cup {None}]
  BY <1>1, <1>3
<1>6. /\ file \in Config /\ tmp \in Config /\ hasTmp \in BOOLEAN /\ crossed \in BOOLEAN
      /\ mem \in [Proc -> Config] /\ out \in [Proc -> {"none", "tmp", "file", "lost"}]
  BY ConfigsTyped DEF Init, TargetInit
<1>7. routes \subseteq Route /\ tables \subseteq Table
  BY RoutingsType DEF Init, TargetInit, Route
<1>8. CleanupTypeOK
  BY MaxTriesType DEF Init, CleanupInit, CleanupTypeOK
<1>9. InstallTypeOK /\ PhaseFits /\ ruleTable \in Table \cup {None}
  BY DEF Init, InstallInit, InstallTypeOK, PhaseFits, Phases, Kinds
<1>10. GoalFits
  BY <1>1, <1>2, <1>3 DEF Init, GoalFits
<1> QED
  BY <1>4, <1>5, <1>6, <1>7, <1>8, <1>9, <1>10 DEF Init, TypeInv, TypeOK, TargetTypeOK, Places

\* The places of all commands.
AllPlaces == Places \cup {"start", "lock", "ipv6", "prompt", "install", "done"}

\* What the types say of the commands and of the target.
TargetTyped ==
    /\ TargetTypeOK /\ GoalFits
    /\ pc \in [Proc -> AllPlaces]
    /\ cmd \in [Proc -> {"config", "target", "setup", "install"}]

\* What the types say of the installation and of the cleanup.
InstallTyped ==
    /\ InstallTypeOK /\ CleanupTypeOK /\ PhaseFits
    /\ ruleTable \in Table \cup {None}

\* What the types say of the rest.
OthersTyped == lock \in Proc \cup {None} /\ helper \in BOOLEAN /\ ipv6 \in BOOLEAN

\* The types in three parts, before and after a step.
LEMMA TypeParts ==
    /\ TypeInv <=> TargetTyped /\ InstallTyped /\ OthersTyped
    /\ TypeInv' <=> TargetTyped' /\ InstallTyped' /\ OthersTyped'
  BY DEF OthersTyped, TypeInv, TypeOK, TargetTyped, InstallTyped, AllPlaces

\* A step of the target keeps the types.
LEMMA TargetStepTyped ==
    ASSUME TargetTyped, NEW p \in Proc, TargetStep(p), UNCHANGED cmd PROVE TargetTyped'
<1> USE DEF diskVars, routeVars, Go, Places, AllPlaces
<1>1. ASSUME NEW m \in {"interface", "routing-table"}, NEW i \in Iface \cup {None},
             NEW t \in Table \cup {None}, Select(p, m, i, t)
      PROVE  mem' \in [Proc -> Config]
  <2>1. mem[p] \in Config
    BY DEF TargetTyped, TargetTypeOK
  <2>2. [mode |-> m, egress |-> i, table |-> t, profile |-> mem[p].profile] \in Config
    BY <2>1, ConfigsTyped
  <2>3. \E c \in Config : mem' = [mem EXCEPT ![p] = c]
    BY <1>1, <2>2 DEF Select
  <2> QED
    BY <2>3 DEF TargetTyped, TargetTypeOK
<1>2. \A r \in Route : r[1] \in Table /\ r[2] \in Iface
  BY DEF Route
<1>3. CASE ScanRoutes(p)
  <2>1. mem' \in [Proc -> Config]
    <3>1. CASE UNCHANGED mem
      BY <3>1 DEF TargetTyped, TargetTypeOK
    <3>2. CASE \E t \in TablesVia(goal[p][2]) : Select(p, "interface", goal[p][2], t)
      <4>1. goal[p][2] \in Iface
        BY <1>3 DEF ScanRoutes, TargetTyped, GoalFits
      <4>2. TablesVia(goal[p][2]) \subseteq Table
        BY <1>2 DEF TargetTyped, TargetTypeOK, TablesVia
      <4> QED
        BY <1>1, <3>2, <4>1, <4>2
    <3> QED
      BY <1>3, <3>1, <3>2 DEF ScanRoutes
  <2> QED
    BY <1>3, <2>1 DEF ScanRoutes, TargetStep, TargetTyped, TargetTypeOK, GoalFits
<1>4. CASE FindTable(p)
  BY <1>4 DEF FindTable, TargetStep, TargetTyped, TargetTypeOK, GoalFits
<1>5. CASE AddTable(p)
  BY <1>5, DedicatedType DEF AddTable, TargetStep, TargetTyped, TargetTypeOK, GoalFits
<1>6. CASE CheckRoutes(p)
  <2>1. mem' \in [Proc -> Config]
    BY <1>1, <1>6, DedicatedType
       DEF CheckRoutes, Dedicates, TargetTyped, TargetTypeOK, GoalFits
  <2> QED
    BY <1>6, <2>1 DEF CheckRoutes, Dedicates, TargetStep, TargetTyped, TargetTypeOK, GoalFits
<1>7. CASE AddRoute(p)
  <2>1. goal[p][2] \in Iface
    BY <1>7 DEF AddRoute, TargetTyped, GoalFits
  <2>2. mem' \in [Proc -> Config] /\ routes' \subseteq Route
    BY <1>1, <1>7, <2>1, DedicatedType
       DEF AddRoute, Dedicates, TargetTyped, TargetTypeOK, Route
  <2> QED
    BY <1>7, <2>2 DEF AddRoute, Dedicates, TargetStep, TargetTyped, TargetTypeOK, GoalFits
<1>8. CASE LookTable(p)
  <2>1. goal[p][2] \in Table
    BY <1>8 DEF LookTable, TargetTyped, GoalFits
  <2>2. mem' \in [Proc -> Config]
    BY <1>1, <1>8, <2>1 DEF LookTable, TargetTyped, TargetTypeOK
  <2> QED
    BY <1>8, <2>2 DEF LookTable, TargetStep, TargetTyped, TargetTypeOK, GoalFits
<1>9. CASE RouterFails(p)
  <2>1. pc[p] = "addRoute" => goal[p][2] \in Iface
    BY DEF TargetTyped, GoalFits
  <2>2. routes' \subseteq Route /\ tables' \subseteq Table
    BY <1>9, <2>1, DedicatedType DEF RouterFails, TargetTyped, TargetTypeOK, Route
  <2> QED
    BY <1>9, <2>2 DEF RouterFails, TargetStep, TargetTyped, TargetTypeOK, GoalFits
<1>10. CASE OpenTmp(p) \/ CloseTmp(p) \/ Rename(p)
  <2>1. UNCHANGED <<mem, goal, tables, routes, crossed>>
    BY <1>10 DEF OpenTmp, CloseTmp, Rename, TargetStep
  <2>2. pc' \in [Proc -> AllPlaces] /\ GoalFits'
    BY <1>10, <2>1 DEF OpenTmp, CloseTmp, Rename, TargetTyped, GoalFits
  <2>3. mem[p] \in Config /\ file \in Config /\ tmp \in Config /\ Default \in Config
    BY ConfigsTyped DEF TargetTyped, TargetTypeOK
  <2>4. file' \in Config /\ tmp' \in Config /\ hasTmp' \in BOOLEAN
    BY <1>10, <2>3 DEF OpenTmp, CloseTmp, Rename, DropTmp, Kept, TargetTyped, TargetTypeOK
  <2>5. out' \in [Proc -> {"none", "tmp", "file", "lost"}]
    BY <1>10 DEF OpenTmp, CloseTmp, Rename, DropTmp, TargetTyped, TargetTypeOK
  <2> QED
    BY <2>1, <2>2, <2>4, <2>5 DEF TargetTyped, TargetTypeOK
<1> QED
  BY <1>3, <1>4, <1>5, <1>6, <1>7, <1>8, <1>9, <1>10 DEF TargetStep

\* A step of the cleanup keeps the types.
LEMMA CleanStepTyped == ASSUME CleanupTypeOK, CleanStep PROVE CleanupTypeOK'
<1> USE MaxTriesType DEF Residue, Turn, Cleaning, CleanupTypeOK
<1>1. CASE ScanFails
  BY <1>1 DEF ScanFails
<1>2. CASE CleanInspect
  BY <1>2 DEF CleanInspect, After
<1>3. CASE CleanRemove
  BY <1>3 DEF CleanRemove
<1>4. CASE CleanVerify
  BY <1>4 DEF CleanVerify, After
<1> QED
  BY <1>1, <1>2, <1>3, <1>4 DEF CleanStep

\* What the router does by itself keeps the types.
LEMMA RouterTyped == ASSUME InstallTyped, Router PROVE InstallTyped'
<1> USE DEF objectVars, installVars, cleanVars, InstallTyped, InstallTypeOK, PhaseFits
<1>1. CASE Traffic
  BY <1>1 DEF Traffic, MarkConnection, CleanupTypeOK, Residue
<1>2. CASE HealthSwitch
  BY <1>2 DEF HealthSwitch, Switchable, CleanupTypeOK
<1>3. ASSUME NEW j \in Job, StartJob(j) \/ EndJob(j) PROVE InstallTyped'
  BY <1>3 DEF StartJob, EndJob, CleanupTypeOK
<1>4. ASSUME NEW j \in Job, Learn(j) PROVE InstallTyped'
  BY <1>4 DEF Learn, CleanupTypeOK, Residue
<1> QED
  BY <1>1, <1>2, <1>3, <1>4 DEF Router

\* A step of the installation keeps the types.
LEMMA InstallStepTyped ==
    ASSUME InstallTyped, NEW cfg \in Config, InstallStep(cfg) PROVE InstallTyped'
<1> USE DEF objectVars, installVars, Work, End, Undo, Phases, Kinds
<1>1. \A k \in Kinds : Of(k) \subseteq Obj
  BY DEF Of
<1>2. cfg.table \in Table \cup {None}
  BY DEF Config
<1>3. CASE Count(cfg) \/ Render(cfg)
  BY <1>1, <1>3 DEF Count, Render, cleanVars, InstallTyped, InstallTypeOK, PhaseFits, CleanupTypeOK
<1>4. CASE Create(cfg)
  BY <1>1, <1>2, <1>4 DEF Create, cleanVars, InstallTyped, InstallTypeOK, PhaseFits, CleanupTypeOK
<1>5. CASE CreateNat(cfg)
  BY <1>1, <1>5 DEF CreateNat, cleanVars, InstallTyped, InstallTypeOK, PhaseFits, CleanupTypeOK
<1>6. CASE KindCreated
  <2>1. CleanupTypeOK'
    BY <1>6, FirstIsLazy, MaxTriesType
       DEF KindCreated, CleanStart, cleanVars, InstallTyped, CleanupTypeOK, Residue
  <2> QED
    BY <1>1, <1>6, <2>1 DEF KindCreated, InstallTyped, InstallTypeOK, PhaseFits
<1>7. CASE Cleaned
  <2>1. CleanupTypeOK'
    BY <1>7, CleanStepTyped DEF Cleaned, cleanVars, InstallTyped, CleanupTypeOK
  <2> QED
    BY <1>1, <1>7, <2>1 DEF Cleaned, InstallTyped, InstallTypeOK, PhaseFits
<1>8. CASE Enable
  BY <1>1, <1>8 DEF Enable, cleanVars, InstallTyped, InstallTypeOK, PhaseFits, CleanupTypeOK
<1>9. CASE KindEnabled
  BY <1>1, <1>9 DEF KindEnabled, Commit, cleanVars, InstallTyped, InstallTypeOK, PhaseFits,
                    CleanupTypeOK
<1>10. CASE Remove
  BY <1>1, <1>10 DEF Remove, cleanVars, InstallTyped, InstallTypeOK, PhaseFits, CleanupTypeOK
<1>11. CASE KindRemoved
  BY <1>1, <1>11 DEF KindRemoved, Rollback, cleanVars, InstallTyped, InstallTypeOK, PhaseFits,
                     CleanupTypeOK
<1> QED
  BY <1>3, <1>4, <1>5, <1>6, <1>7, <1>8, <1>9, <1>10, <1>11 DEF InstallStep

\* The end of a command keeps the types.
LEMMA ExitTyped ==
    ASSUME TypeInv, NEW p \in Proc, Exit(p), helper' \in BOOLEAN PROVE TypeInv'
<1> USE DEF Exit, Go, End, Work
<1>1. TargetTyped'
  BY TypeParts, ConfigsTyped DEF TargetTyped, TargetTypeOK, GoalFits, routeVars, AllPlaces
<1>2. InstallTypeOK' /\ PhaseFits'
  BY TypeParts DEF InstallTyped, InstallTypeOK, PhaseFits, objectVars, installVars, Phases
<1>3. CleanupTypeOK'
  BY TypeParts, MaxTriesType DEF InstallTyped, CleanupTypeOK, cleanVars
<1> QED
  BY <1>1, <1>2, <1>3, TypeParts DEF InstallTyped, OthersTyped, objectVars

\* Every step of a command keeps the types.
LEMMA CommandTyped == ASSUME TypeInv, NEW p \in Proc, Command(p) PROVE TypeInv'
<1> USE DEF OthersTyped
<1>1. TargetTyped /\ InstallTyped /\ OthersTyped
  BY TypeParts
<1>2. UNCHANGED routerVars => InstallTyped'
  BY <1>1 DEF routerVars, cleanupVars, objectVars, installVars, cleanVars, InstallTyped,
              InstallTypeOK, CleanupTypeOK, PhaseFits
<1>3. UNCHANGED targetVars /\ UNCHANGED cmd => TargetTyped'
  BY <1>1 DEF targetVars, diskVars, routeVars, TargetTyped, TargetTypeOK, GoalFits
<1> USE DEF Go, commandVars
<1>4. CASE Load(p)
  <2>1. PICK cfg \in Loaded :
           mem' = [mem EXCEPT ![p] = IF cmd[p] = "config"
                                     THEN [cfg EXCEPT !.profile = goal[p][2]] ELSE cfg]
    BY <1>4 DEF Load
  <2>2. cfg \in Config
    BY <1>1, ConfigsTyped DEF Loaded, TargetTyped, TargetTypeOK
  <2>3. <<cmd[p], goal[p]>> \in Plan
    BY <1>1, <1>4 DEF Load, TargetTyped, GoalFits
  <2>4. cmd[p] = "config" => goal[p][2] \in Profile
    BY <2>3 DEF Plan
  <2>5. \E c \in Config : mem' = [mem EXCEPT ![p] = c]
    BY <2>1, <2>2, <2>4, ConfigsTyped
  <2>6. mem' \in [Proc -> Config]
    BY <1>1, <2>5 DEF TargetTyped, TargetTypeOK
  <2>7. pc' \in [Proc -> AllPlaces]
    BY <1>1, <1>4 DEF Load, Search, TargetTyped, AllPlaces, Places
  <2>8. GoalFits'
    BY <1>1, <1>4, <2>3 DEF Load, Search, TargetTyped, GoalFits, Plan
  <2>9. UNCHANGED <<diskVars, routeVars, goal, cmd, lock, helper, ipv6>> /\ UNCHANGED routerVars
    BY <1>4 DEF Load
  <2>10. crossed' \in BOOLEAN
    BY <1>1, <1>4 DEF Load, TargetTyped, TargetTypeOK
  <2> QED
    BY <1>1, <1>2, <2>6, <2>7, <2>8, <2>9, <2>10, TypeParts
       DEF diskVars, routeVars, TargetTyped, TargetTypeOK
<1>5. CASE TakeLock(p)
  <2>1. CASE Exit(p) /\ UNCHANGED helper
    BY <1>1, <2>1, ExitTyped
  <2>2. CASE lock' = p /\ UNCHANGED <<diskVars, routeVars, mem, goal, crossed, routerVars, cmd,
                                      helper, ipv6>>
    <3>1. /\ pc[p] = "lock"
          /\ Go(p, "ipv6") \/ Go(p, "install")
      BY <1>5, <2>2 DEF TakeLock, Exit
    <3>2. pc' \in [Proc -> AllPlaces] /\ GoalFits'
      BY <1>1, <2>2, <3>1 DEF TargetTyped, GoalFits, AllPlaces
    <3>3. TargetTyped'
      BY <1>1, <2>2, <3>2 DEF diskVars, routeVars, TargetTyped, TargetTypeOK
    <3> QED
      BY <1>1, <1>2, <2>2, <3>3, TypeParts
  <2> QED
    BY <1>5, <2>1, <2>2 DEF TakeLock
<1>6. CASE EnforceIpv4(p)
  <2>1. pc' \in [Proc -> AllPlaces] /\ GoalFits'
    BY <1>1, <1>6 DEF EnforceIpv4, TargetTyped, GoalFits, AllPlaces, Places
  <2>2. TargetTyped'
    BY <1>1, <1>6, <2>1 DEF EnforceIpv4, diskVars, routeVars, TargetTyped, TargetTypeOK
  <2> QED
    BY <1>1, <1>2, <1>6, <2>2, TypeParts DEF EnforceIpv4
<1>7. CASE Prompt(p)
  <2>1. Offered \subseteq ({"interface"} \X Iface) \cup ({"table"} \X Table)
    BY <1>1, UsableType DEF Offered, TargetTyped, TargetTypeOK
  <2>2. CASE \E g \in Offered : goal' = [goal EXCEPT ![p] = g] /\ Go(p, Search(g))
    <3>1. PICK g \in ({"interface"} \X Iface) \cup ({"table"} \X Table) :
             goal' = [goal EXCEPT ![p] = g] /\ Go(p, Search(g))
      BY <2>1, <2>2
    <3>2. goal' \in [Proc -> Goal \cup {None}] /\ pc' \in [Proc -> AllPlaces]
      BY <1>1, <3>1 DEF Goal, Search, TargetTyped, TargetTypeOK, AllPlaces, Places
    <3>3. GoalFits'
      BY <1>1, <1>7, <3>1 DEF Prompt, Search, TargetTyped, TargetTypeOK, GoalFits
    <3> QED
      BY <1>1, <1>2, <1>7, <3>2, <3>3, TypeParts
         DEF Prompt, diskVars, routeVars, TargetTyped, TargetTypeOK
  <2>3. CASE Go(p, "failed") /\ UNCHANGED goal
    <3>1. TargetTyped'
      BY <1>1, <1>7, <2>3 DEF Prompt, diskVars, routeVars, TargetTyped, TargetTypeOK, GoalFits,
                              AllPlaces, Places
    <3> QED
      BY <1>1, <1>2, <1>7, <3>1, TypeParts DEF Prompt
  <2> QED
    BY <1>7, <2>2, <2>3 DEF Prompt
<1>8. CASE ChangeTarget(p)
  BY <1>1, <1>2, <1>8, TargetStepTyped, TypeParts DEF ChangeTarget
<1>9. CASE BeginInstall(p)
  <2>1. InstallTyped'
    <3>1. CASE Begin
      BY <1>1, <3>1 DEF Begin, End, Work, InstallTyped, InstallTypeOK, CleanupTypeOK, PhaseFits,
                        objectVars, cleanVars, Phases
    <3> QED
      BY <1>2, <1>9, <3>1 DEF BeginInstall
  <2>2. TargetTyped'
    BY <1>1, <1>9 DEF BeginInstall, diskVars, routeVars, TargetTyped, TargetTypeOK, GoalFits,
                      AllPlaces
  <2> QED
    BY <1>1, <1>9, <2>1, <2>2, TypeParts DEF BeginInstall
<1>10. CASE Installing(p)
  <2>1. mem[p] \in Config
    BY <1>1 DEF TargetTyped, TargetTypeOK
  <2> QED
    BY <1>1, <1>3, <1>10, <2>1, InstallStepTyped, TypeParts DEF Installing, targetVars
<1>11. CASE InstallEnds(p)
  BY <1>1, <1>11, ExitTyped DEF InstallEnds
<1>12. CASE Ends(p) \/ Crash(p)
  BY <1>1, <1>12, ExitTyped DEF Ends, Crash
<1> QED
  BY <1>4, <1>5, <1>6, <1>7, <1>8, <1>9, <1>10, <1>11, <1>12 DEF Command

\* The types are kept by every step.
LEMMA NextTyped == ASSUME TypeInv, [Next]_vars PROVE TypeInv'
<1>1. CASE Router /\ UNCHANGED <<targetVars, commandVars>>
  <2>1. TargetTyped'
    BY <1>1, TypeParts DEF targetVars, commandVars, diskVars, routeVars, TargetTyped, TargetTypeOK,
                           GoalFits
  <2> QED
    BY <1>1, <2>1, RouterTyped, TypeParts DEF commandVars, OthersTyped
<1>2. CASE UNCHANGED vars
  BY <1>2 DEF vars, targetVars, routerVars, cleanupVars, commandVars, diskVars, routeVars,
              objectVars, installVars, cleanVars, TypeInv, TypeOK, TargetTypeOK, InstallTypeOK,
              CleanupTypeOK, GoalFits, PhaseFits
<1> QED
  BY <1>1, <1>2, CommandTyped DEF Next

\* Every variable of Setup keeps its type, for all processes, interfaces,
\* tables, objects and failures.
THEOREM TypeCorrect == Spec => []TypeOK
<1>1. TypeInv => TypeOK
  BY DEF TypeInv
<1> QED
  BY <1>1, InitTyped, NextTyped, PTL DEF Spec
-----------------------------------------------------------------------------
(* Targets.                                                                 *)

\* A selection leads somewhere by these routes.
RoutedBy(cfg, rs) == cfg.table # None =>
    \E r \in rs : r[1] = cfg.table /\ (cfg.mode = "interface" => r[2] = cfg.egress)

\* Every selection there is leads somewhere, by the routes there are.
AllRouted ==
    RoutedBy(file, routes) /\ RoutedBy(tmp, routes) /\ \A p \in Proc : RoutedBy(mem[p], routes)

\* The invariant in these words, before and after a step.
LEMMA RouteParts ==
    /\ RouteInv <=> TypeInv /\ AllRouted /\ InstalledRoutes
    /\ RouteInv' <=> TypeInv' /\ AllRouted' /\ InstalledRoutes'
  BY DEF RouteInv, AllRouted, Routed, RoutedBy

\* What is selected has that table, and nobody else's memory changes.
LEMMA Selected ==
    ASSUME mem \in [Proc -> Config], NEW p \in Proc, NEW m, NEW i, NEW t, Select(p, m, i, t),
           NEW rs, RoutedBy([mode |-> m, egress |-> i, table |-> t], rs)
    PROVE  \A q \in Proc : mem'[q] = mem[q] \/ RoutedBy(mem'[q], rs)
<1> SUFFICES ASSUME NEW q \in Proc PROVE mem'[q] = mem[q] \/ RoutedBy(mem'[q], rs)
  OBVIOUS
<1>1. CASE q = p
  <2>1. mem'[q] = [mode |-> m, egress |-> i, table |-> t, profile |-> mem[p].profile]
    BY <1>1 DEF Select
  <2> QED
    BY <2>1 DEF RoutedBy
<1>2. CASE q # p
  BY <1>2 DEF Select
<1> QED
  BY <1>1, <1>2

\* Routes are only added, so that what leads somewhere goes on doing so.
LEMMA MoreRoutes ==
    ASSUME AllRouted, routes \subseteq routes',
           RoutedBy(file', routes') \/ file' \in {file, tmp},
           RoutedBy(tmp', routes') \/ tmp' = tmp,
           \A q \in Proc : RoutedBy(mem'[q], routes') \/ mem'[q] = mem[q]
    PROVE  AllRouted'
<1>1. \A c : RoutedBy(c, routes) => RoutedBy(c, routes')
  BY DEF RoutedBy
<1>2. RoutedBy(file', routes') /\ RoutedBy(tmp', routes')
  BY <1>1 DEF AllRouted
<1>3. \A q \in Proc : RoutedBy(mem'[q], routes')
  BY <1>1 DEF AllRouted
<1> QED
  BY <1>2, <1>3 DEF AllRouted

\* Nothing selected leads everywhere.
LEMMA DefaultRouted == \A rs : RoutedBy(Default, rs)
  BY DEF RoutedBy, Default

\* A step of the target selects only what leads somewhere.
LEMMA TargetRouted ==
    ASSUME TargetTyped, AllRouted, NEW p \in Proc, TargetStep(p)
    PROVE  AllRouted' /\ routes \subseteq routes'
<1> USE DEF diskVars, routeVars
<1>1. mem \in [Proc -> Config]
  BY DEF TargetTyped, TargetTypeOK
<1>2. CASE ScanRoutes(p)
  <2>1. ASSUME NEW t \in TablesVia(goal[p][2]), Select(p, "interface", goal[p][2], t)
        PROVE  \A q \in Proc : mem'[q] = mem[q] \/ RoutedBy(mem'[q], routes)
    <3>1. \E r \in routes : r[1] = t /\ r[2] = goal[p][2]
      BY <2>1 DEF TablesVia
    <3>2. RoutedBy([mode |-> "interface", egress |-> goal[p][2], table |-> t], routes)
      BY <3>1 DEF RoutedBy
    <3> QED
      BY <1>1, <2>1, <3>2, Selected
  <2>2. UNCHANGED <<file, tmp, routes>>
        /\ \A q \in Proc : mem'[q] = mem[q] \/ RoutedBy(mem'[q], routes)
    BY <1>2, <2>1 DEF ScanRoutes
  <2> QED
    BY <2>2, MoreRoutes
<1>3. CASE CheckRoutes(p)
  <2>1. ASSUME Leads(goal[p][2]), Dedicates(p, goal[p][2])
        PROVE  \A q \in Proc : mem'[q] = mem[q] \/ RoutedBy(mem'[q], routes)
    <3>1. RoutedBy([mode |-> "interface", egress |-> goal[p][2], table |-> Dedicated], routes)
      BY <2>1 DEF Leads, RoutedBy
    <3> QED
      BY <1>1, <2>1, <3>1, Selected DEF Dedicates
  <2>2. UNCHANGED <<file, tmp, routes>>
        /\ \A q \in Proc : mem'[q] = mem[q] \/ RoutedBy(mem'[q], routes)
    BY <1>3, <2>1 DEF CheckRoutes
  <2> QED
    BY <2>2, MoreRoutes
<1>4. CASE AddRoute(p)
  <2>1. <<Dedicated, goal[p][2], "iface">> \in routes' /\ routes \subseteq routes'
    BY <1>4 DEF AddRoute
  <2>2. RoutedBy([mode |-> "interface", egress |-> goal[p][2], table |-> Dedicated], routes')
    BY <2>1 DEF RoutedBy
  <2>3. \A q \in Proc : mem'[q] = mem[q] \/ RoutedBy(mem'[q], routes')
    BY <1>1, <1>4, <2>2, Selected DEF AddRoute, Dedicates
  <2> QED
    BY <1>4, <2>1, <2>3, MoreRoutes DEF AddRoute
<1>5. CASE LookTable(p)
  <2>1. ASSUME Via(goal[p][2]) # {}, NEW i \in Iface \cup {None},
               Select(p, "routing-table", i, goal[p][2])
        PROVE  \A q \in Proc : mem'[q] = mem[q] \/ RoutedBy(mem'[q], routes)
    <3>1. \E r \in routes : r[1] = goal[p][2]
      BY <2>1 DEF Via
    <3>2. RoutedBy([mode |-> "routing-table", egress |-> i, table |-> goal[p][2]], routes)
      BY <3>1 DEF RoutedBy
    <3> QED
      BY <1>1, <2>1, <3>2, Selected
  <2>2. UNCHANGED <<file, tmp, routes>>
        /\ \A q \in Proc : mem'[q] = mem[q] \/ RoutedBy(mem'[q], routes)
    BY <1>5, <2>1 DEF LookTable
  <2> QED
    BY <2>2, MoreRoutes
<1>6. CASE FindTable(p) \/ AddTable(p) \/ RouterFails(p)
  <2>1. UNCHANGED <<file, tmp, mem>> /\ routes \subseteq routes'
    BY <1>6 DEF FindTable, AddTable, RouterFails
  <2> QED
    BY <2>1, MoreRoutes
<1>7. CASE OpenTmp(p) \/ CloseTmp(p) \/ Rename(p)
  <2>1. UNCHANGED <<mem, routes>>
    BY <1>7 DEF OpenTmp, CloseTmp, Rename
  <2>2. /\ file' \in {file, tmp, mem[p]}
        /\ tmp' \in {tmp, Default, mem[p]}
    BY <1>7 DEF OpenTmp, CloseTmp, Rename, DropTmp, Kept
  <2>3. RoutedBy(mem[p], routes') /\ RoutedBy(Default, routes')
    BY <2>1, DefaultRouted DEF AllRouted
  <2> QED
    BY <2>1, <2>2, <2>3, MoreRoutes
<1> QED
  BY <1>2, <1>3, <1>4, <1>5, <1>6, <1>7 DEF TargetStep

\* The end of a command forgets its selection.
LEMMA ExitRouted ==
    ASSUME TypeInv, AllRouted, InstalledRoutes, NEW p \in Proc, Exit(p)
    PROVE  AllRouted' /\ InstalledRoutes'
<1>1. UNCHANGED <<file, tmp, routes, ruleTable>>
  BY DEF Exit, routeVars, objectVars
<1>2. \A q \in Proc : mem'[q] \in {mem[q], Default}
  BY DEF Exit, TypeInv, TypeOK, TargetTypeOK
<1>3. AllRouted'
  BY <1>1, <1>2, DefaultRouted, MoreRoutes
<1> QED
  BY <1>1, <1>3 DEF InstalledRoutes

\* Every step of a command selects, saves and installs only what leads somewhere.
LEMMA CommandRouted ==
    ASSUME TypeInv, AllRouted, InstalledRoutes, NEW p \in Proc, Command(p)
    PROVE  AllRouted' /\ InstalledRoutes'
<1>1. UNCHANGED <<routerVars, file, tmp, routes, mem>> => AllRouted' /\ InstalledRoutes'
  BY DEF routerVars, objectVars, AllRouted, InstalledRoutes
<1>2. CASE Load(p)
  <2>1. UNCHANGED <<file, tmp, routes, ruleTable>>
    BY <1>2 DEF Load, diskVars, routeVars, routerVars, objectVars
  <2>2. PICK cfg \in Loaded :
           mem' = [mem EXCEPT ![p] = IF cmd[p] = "config"
                                     THEN [cfg EXCEPT !.profile = goal[p][2]] ELSE cfg]
    BY <1>2 DEF Load
  <2>3. cfg \in Config /\ RoutedBy(cfg, routes)
    BY <2>2, ConfigsTyped, DefaultRouted DEF Loaded, AllRouted, TypeInv, TypeOK, TargetTypeOK
  <2>4. \A f : RoutedBy([cfg EXCEPT !.profile = f], routes)
    BY <2>3 DEF RoutedBy, Config
  <2>5. \A q \in Proc : mem'[q] = mem[q] \/ RoutedBy(mem'[q], routes)
    BY <2>2, <2>3, <2>4 DEF TypeInv, TypeOK, TargetTypeOK
  <2> QED
    BY <2>1, <2>5, MoreRoutes DEF InstalledRoutes
<1>3. CASE TakeLock(p)
  <2>1. CASE Exit(p)
    BY <2>1, ExitRouted
  <2>2. CASE UNCHANGED <<diskVars, routeVars, mem, goal, crossed, routerVars, cmd, helper, ipv6>>
    BY <1>1, <2>2 DEF diskVars, routeVars
  <2> QED
    BY <1>3, <2>1, <2>2 DEF TakeLock
<1>4. CASE EnforceIpv4(p) \/ Prompt(p)
  BY <1>1, <1>4 DEF EnforceIpv4, Prompt, diskVars, routeVars
<1>5. CASE ChangeTarget(p)
  <2>1. AllRouted' /\ routes \subseteq routes'
    BY <1>5, TargetRouted, TypeParts DEF ChangeTarget
  <2> QED
    BY <1>5, <2>1 DEF ChangeTarget, routerVars, objectVars, InstalledRoutes
<1>6. CASE BeginInstall(p)
  BY <1>6 DEF BeginInstall, Begin, diskVars, routeVars, routerVars, objectVars, AllRouted,
              InstalledRoutes
<1>7. CASE Installing(p)
  <2>1. UNCHANGED <<file, tmp, mem, routes>>
    BY <1>7 DEF Installing, diskVars, routeVars
  <2>2. ruleTable' \in {ruleTable, mem[p].table}
    BY <1>7 DEF Installing, InstallStep, Count, Render, Create, CreateNat, KindCreated, Cleaned,
                Enable, KindEnabled, Remove, KindRemoved, objectVars
  <2>3. AllRouted'
    BY <2>1 DEF AllRouted
  <2> QED
    BY <2>1, <2>2, <2>3 DEF AllRouted, RoutedBy, InstalledRoutes
<1>8. CASE InstallEnds(p) \/ Ends(p) \/ Crash(p)
  BY <1>8, ExitRouted DEF InstallEnds, Ends, Crash
<1> QED
  BY <1>2, <1>3, <1>4, <1>5, <1>6, <1>7, <1>8 DEF Command

\* The invariant of the target holds of the fresh router and is kept.
LEMMA RouteInductive == Spec => []RouteInv
<1>1. Init => RouteInv
  <2> SUFFICES ASSUME Init PROVE RouteInv
    OBVIOUS
  <2>1. AllRouted /\ InstalledRoutes
    BY DefaultRouted DEF Init, TargetInit, InstallInit, AllRouted, InstalledRoutes
  <2> QED
    BY <2>1, InitTyped, RouteParts
<1>2. RouteInv /\ [Next]_vars => RouteInv'
  <2> SUFFICES ASSUME RouteInv, [Next]_vars PROVE RouteInv'
    OBVIOUS
  <2>1. TypeInv' /\ TypeInv /\ AllRouted /\ InstalledRoutes
    BY NextTyped, RouteParts
  <2>2. CASE Router /\ UNCHANGED <<targetVars, commandVars>>
    <3>1. ruleTable' = ruleTable
      BY <2>2 DEF Router, Traffic, HealthSwitch, StartJob, EndJob, Learn, objectVars
    <3> QED
      BY <2>1, <2>2, <3>1, RouteParts
         DEF targetVars, diskVars, routeVars, AllRouted, InstalledRoutes
  <2>3. CASE UNCHANGED vars
    BY <2>1, <2>3, RouteParts
       DEF vars, targetVars, routerVars, objectVars, diskVars, routeVars, AllRouted,
           InstalledRoutes
  <2> QED
    BY <2>1, <2>2, <2>3, CommandRouted, RouteParts DEF Next
<1> QED
  BY <1>1, <1>2, PTL DEF Spec

\* The saved selection leads somewhere, whatever commands run beside each other
\* and wherever they fail or die.
THEOREM SavedTarget == Spec => []SavedTargetRoutes
<1>1. RouteInv => SavedTargetRoutes
  BY DEF RouteInv, SavedTargetRoutes
<1> QED
  BY <1>1, RouteInductive, PTL

\* The installed rules route to a table that has a default route.
THEOREM InstalledTarget == Spec => []InstalledRoutes
<1>1. RouteInv => InstalledRoutes
  BY DEF RouteInv
<1> QED
  BY <1>1, RouteInductive, PTL
-----------------------------------------------------------------------------
(* The installation.                                                        *)

\* What the invariant adds to the types.
Progress == Safety /\ Made /\ Unmade /\ Cleared /\ HelperKept

\* What the router does by itself keeps the invariant.
LEMMA RouterKeeps ==
    ASSUME InstallInv, Router, UNCHANGED helper PROVE Progress'
<1> USE DEF InstallInv, Progress
<1>1. enabled \subseteq there /\ there \subseteq Obj
  BY DEF TypeInv, TypeOK, InstallTypeOK
<1>2. CASE Traffic
  <2>1. UNCHANGED <<objectVars, job, installVars, histVars>>
    BY <1>2 DEF Traffic
  <2>2. Safety' /\ Made' /\ Unmade' /\ HelperKept'
    BY <2>1 DEF objectVars, installVars, Safety, Guarded, Made, Complete, Unmade,
                FailedLeavesNothing, HelperKept, HelperUntilInstalled
  <2>3. phase = "clean" => enabled = {}
    BY DEF Safety
  <2>4. Cleared'
    BY <1>2, <2>1, <2>3 DEF Traffic, MarkConnection, objectVars, installVars, cleanVars, Cleared
  <2> QED
    BY <2>2, <2>4
<1>3. CASE HealthSwitch
  <2>1. /\ "health" \in job
        /\ UNCHANGED <<there, job, installVars, histVars, left, cleanVars>>
        /\ enabled' \in {enabled \cup Switchable, enabled \ Of("rule")}
    BY <1>3 DEF HealthSwitch
  <2>2. Of("bypass") \subseteq enabled => Of("bypass") \subseteq enabled'
    BY <2>1 DEF Of
  <2>3. Of("rule") \cap there = {} => Of("rule") \cap there' = {}
    BY <2>1
  <2>4. Safety'
    BY <2>1, <2>2, <2>3 DEF installVars, Safety, Guarded
  <2>5. Made' /\ Unmade' /\ HelperKept'
    BY <2>1 DEF installVars, Made, Complete, Unmade, FailedLeavesNothing, HelperKept,
                HelperUntilInstalled
  <2>6. Cleared'
    <3>1. Of("scheduler") \cap enabled' = Of("scheduler") \cap enabled
      BY <2>1 DEF Of, Switchable
    <3> QED
      BY <2>1, <3>1 DEF installVars, cleanVars, Cleared
  <2> QED
    BY <2>4, <2>5, <2>6
<1>4. ASSUME NEW j \in Job, StartJob(j) PROVE Progress'
  <2>1. UNCHANGED <<there, enabled, phase, at, todo, created, histVars, left, cleanVars>>
    BY <1>4 DEF StartJob, objectVars, installVars
  <2>2. <<"scheduler", j>> \in enabled \cap there \cap Of("scheduler")
    BY <1>1, <1>4 DEF StartJob, Of
  <2>3. Of("bypass") \cap Of("scheduler") = {}
    BY DEF Of
  <2>4. Safety'
    BY <2>1, <2>2, <2>3 DEF Safety, Guarded
  <2>5. Made' /\ Unmade' /\ HelperKept'
    BY <2>1 DEF Made, Complete, Unmade, FailedLeavesNothing, HelperKept, HelperUntilInstalled
  <2>6. Cleared'
    BY <2>1, <2>2 DEF cleanVars, Cleared
  <2> QED
    BY <2>4, <2>5, <2>6
<1>5. ASSUME NEW j \in Job, EndJob(j) PROVE Progress'
  <2>1. UNCHANGED <<there, enabled, phase, at, todo, created, histVars, left, cleanVars>>
        /\ job' \subseteq job
    BY <1>5 DEF EndJob, objectVars, installVars
  <2>2. Safety' /\ Cleared'
    BY <2>1 DEF Safety, Guarded, cleanVars, Cleared
  <2> QED
    BY <2>1, <2>2
       DEF Made, Complete, Unmade, FailedLeavesNothing, HelperKept, HelperUntilInstalled
<1>6. ASSUME NEW j \in Job, Learn(j) PROVE Progress'
  <2>1. UNCHANGED <<there, enabled, job, phase, at, todo, created, trouble, cleanVars>>
        /\ relearnt' = (relearnt \/ Passed) /\ left' = left \cup {"lazy", "lists"}
    BY <1>6 DEF Learn, objectVars, installVars
  <2>2. Cleared'
    BY <2>1, FirstIsLazy DEF Passed, cleanVars, Cleared
  <2> QED
    BY <2>1, <2>2 DEF Safety, Guarded, Made, Complete, Unmade, FailedLeavesNothing, HelperKept,
                      HelperUntilInstalled
<1> QED
  BY <1>2, <1>3, <1>4, <1>5, <1>6 DEF Router

\* Taking back begins safely, with nothing taken back.
LEMMA UndoBegins ==
    ASSUME InstallInv, Undo, UNCHANGED <<job, created, left, helper>>,
           ~trouble' => Guarded',
           helper, ~created /\ ~trouble' => Of("nat") \cap there' = {}
    PROVE  Progress'
<1>1. phase' = "undo" /\ at' = "scheduler" /\ todo' = Of("scheduler") \cap there'
  BY DEF Undo, Work
<1>2. Safety' /\ Made' /\ Cleared' /\ HelperKept'
  BY <1>1 DEF Safety, Made, Cleared, HelperKept, HelperUntilInstalled
<1>3. Unmade'
  BY <1>1 DEF Unmade, FailedLeavesNothing
<1> QED
  BY <1>2, <1>3 DEF Progress

\* Counting and rendering.
LEMMA CountKeeps ==
    ASSUME InstallInv, NEW cfg, Count(cfg) \/ Render(cfg), UNCHANGED helper PROVE Progress'
<1> USE DEF InstallInv, Progress
<1>1. enabled \subseteq there
  BY DEF TypeInv, TypeOK, InstallTypeOK
<1>2. UNCHANGED <<there, enabled, job, created, histVars, left, cleanVars>>
  BY DEF Count, Render, objectVars
<1>3. CASE Count(cfg)
  <2>1. /\ phase = "count"
        /\ \/ phase' = "ok" /\ Complete
           \/ phase' = "blocked"
           \/ phase' = "render" /\ there = {} /\ ~Complete
    BY <1>3 DEF Count, Partial, End, Work
  <2>2. phase' = "render" => helper
    BY <2>1 DEF HelperKept, HelperUntilInstalled
  <2>3. Safety'
    BY <1>1, <1>2, <2>1 DEF Safety, Guarded
  <2>4. Made' /\ Unmade'
    BY <1>2, <2>1 DEF Made, Complete, Unmade, FailedLeavesNothing
  <2>5. Cleared' /\ HelperKept'
    BY <1>2, <2>1, <2>2 DEF Cleared, HelperKept, HelperUntilInstalled, Complete
  <2> QED
    BY <2>3, <2>4, <2>5
<1>4. CASE Render(cfg)
  <2>1. /\ phase = "render"
        /\ \/ phase' = "blocked"
           \/ phase' = "create" /\ at' = "script" /\ todo' = Of("script")
    BY <1>4 DEF Render, End, Work
  <2>2. Safety'
    BY <1>1, <1>2, <2>1 DEF Safety, Guarded
  <2>3. Made' /\ Unmade'
    BY <1>2, <2>1 DEF Made, Unmade, FailedLeavesNothing
  <2>4. Cleared' /\ HelperKept'
    BY <1>2, <2>1 DEF Cleared, HelperKept, HelperUntilInstalled, Complete
  <2> QED
    BY <2>2, <2>3, <2>4
<1> QED
  BY <1>3, <1>4

\* Creating keeps everything off.
LEMMA CreateKeeps ==
    ASSUME InstallInv, NEW cfg, Create(cfg) \/ CreateNat(cfg) \/ KindCreated, UNCHANGED helper
    PROVE  Progress'
<1> USE DEF InstallInv, Progress
<1>1. phase = "create" /\ enabled = {} /\ "health" \notin job /\ helper
      /\ at \in {"script", "bypass", "rule", "nat", "scheduler"} /\ todo \subseteq Of(at)
  BY DEF Create, CreateNat, KindCreated, Safety, HelperKept, TypeInv, PhaseFits, Kinds
<1>2. UNCHANGED <<enabled, job, left>>
  BY DEF Create, CreateNat, KindCreated, objectVars
<1>3. Guarded' /\ there \subseteq there'
  BY <1>1, <1>2 DEF Guarded, Create, CreateNat, KindCreated, objectVars
<1>4. CASE Create(cfg)
  <2>1. PICK o \in todo :
          \/ there' = there \cup {o} /\ todo' = todo \ {o} /\ UNCHANGED <<phase, at>>
          \/ there' \in {there, there \cup {o}} /\ Undo
    BY <1>4 DEF Create
  <2>2. o \in Of(at) /\ at # "nat"
    BY <1>1, <1>4, <2>1 DEF Create
  <2>3. Of("nat") \cap there' = Of("nat") \cap there
    BY <2>1, <2>2 DEF Of
  <2>4. UNCHANGED <<created, trouble>>
    BY <1>4 DEF Create
  <2>5. CASE Undo
    BY <1>1, <1>2, <1>3, <2>3, <2>4, <2>5, UndoBegins DEF Unmade
  <2>6. CASE there' = there \cup {o} /\ todo' = todo \ {o} /\ UNCHANGED <<phase, at>>
    <3>1. Made'
      BY <1>1, <2>6 DEF Made
    <3>2. Unmade'
      BY <1>1, <2>3, <2>4, <2>6 DEF Unmade, FailedLeavesNothing
    <3> QED
      BY <1>1, <1>2, <1>3, <2>6, <3>1, <3>2 DEF Safety, Cleared, HelperKept, HelperUntilInstalled
  <2> QED
    BY <2>1, <2>5, <2>6
<1>5. CASE CreateNat(cfg)
  <2>1. CASE Undo
    <3>1. CASE UNCHANGED <<there, created, trouble>>
      BY <1>1, <1>2, <1>3, <2>1, <3>1, UndoBegins DEF Unmade
    <3>2. CASE there' = there \cup Of("nat") /\ created' = TRUE
      <4>1. Safety' /\ Made' /\ Cleared' /\ HelperKept' /\ Unmade'
        BY <1>1, <1>2, <1>3, <2>1, <3>2
           DEF Undo, Work, Safety, Made, Cleared, HelperKept, HelperUntilInstalled, Unmade,
               FailedLeavesNothing
      <4> QED
        BY <4>1
    <3>3. CASE trouble' = TRUE /\ UNCHANGED created
      BY <1>1, <1>2, <1>3, <2>1, <3>3, UndoBegins
    <3> QED
      BY <1>5, <2>1, <3>1, <3>2, <3>3 DEF CreateNat, Undo, Work
  <2>2. CASE Work("create", "scheduler", Of("scheduler"))
    <3>1. /\ UNCHANGED trouble
          /\ UNCHANGED <<there, created>> \/ created'
      BY <1>5, <2>2 DEF CreateNat, Undo, Work
    <3>2. Made' /\ Unmade'
      BY <1>1, <1>3, <1>5, <2>2, <3>1 DEF CreateNat, Work, Made, Unmade, FailedLeavesNothing
    <3> QED
      BY <1>1, <1>2, <1>3, <2>2, <3>2 DEF Work, Safety, Cleared, HelperKept, HelperUntilInstalled
  <2> QED
    BY <1>5, <2>1, <2>2 DEF CreateNat
<1>6. CASE KindCreated
  <2>1. UNCHANGED <<there, created, trouble>> /\ at # "nat" /\ todo = {}
    BY <1>6 DEF KindCreated, objectVars
  <2>2. Made'
    BY <1>1, <1>6, <2>1 DEF KindCreated, Work, End, Made, Complete
  <2>3. Unmade'
    BY <1>1, <1>6, <2>1 DEF KindCreated, Work, End, Unmade, FailedLeavesNothing
  <2>4. Cleared'
    BY <1>1, <1>6, FirstIsLazy DEF KindCreated, Work, End, CleanStart, Cleared
  <2>5. Safety' /\ HelperKept'
    BY <1>1, <1>2, <1>3, <1>6, <2>1
       DEF KindCreated, Work, End, Safety, HelperKept, HelperUntilInstalled
  <2> QED
    BY <2>2, <2>3, <2>4, <2>5
<1> QED
  BY <1>4, <1>5, <1>6

\* A step of the cleanup clears a kind for good.
LEMMA CleanStepClears ==
    ASSUME CleanupTypeOK, Cleared, phase = "clean", CleanStep,
           UNCHANGED <<installVars, histVars>>
    PROVE  Cleared'
<1> USE DEF Cleared, installVars, Turn, Cleaning, Residue, CleanupTypeOK
<1>1. CASE ScanFails
  BY <1>1 DEF ScanFails
<1>2. CASE CleanInspect
  BY <1>2 DEF CleanInspect, After, Absent
<1>3. CASE CleanRemove
  BY <1>3 DEF CleanRemove
<1>4. CASE CleanVerify
  BY <1>4 DEF CleanVerify, After, Absent
<1> QED
  BY <1>1, <1>2, <1>3, <1>4 DEF CleanStep

\* The cleanup keeps everything off, and its end finds everything cleared.
LEMMA CleanKeeps ==
    ASSUME InstallInv, Cleaned, UNCHANGED helper PROVE Progress'
<1> USE DEF InstallInv, Progress
<1>1. phase = "clean" /\ enabled = {} /\ "health" \notin job /\ helper
  BY DEF Cleaned, Safety, HelperKept
<1>2. UNCHANGED <<there, job, created, histVars>> /\ enabled' = {}
  BY <1>1 DEF Cleaned, objectVars, installVars
<1>3. Guarded'
  BY <1>1, <1>2 DEF Guarded
<1>4. CASE CleanStep /\ UNCHANGED <<installVars, histVars>>
  <2>1. Cleared'
    BY <1>1, <1>4, CleanStepClears DEF TypeInv, TypeOK
  <2> QED
    BY <1>1, <1>2, <1>3, <1>4, <2>1
       DEF installVars, Safety, Made, Complete, Unmade, FailedLeavesNothing, HelperKept,
           HelperUntilInstalled
<1>5. CASE kind = "done" /\ Work("commit", "bypass", Of("bypass")) /\ UNCHANGED left
  <2>1. "legacy" \notin left /\ (left # {} => relearnt)
    BY <1>1, <1>5 DEF Cleared, TypeInv, TypeOK, CleanupTypeOK, Residue
  <2> QED
    BY <1>1, <1>2, <1>3, <1>5, <2>1
       DEF Work, Safety, Made, Complete, Unmade, FailedLeavesNothing, Cleared, HelperKept,
           HelperUntilInstalled
<1>6. CASE Undo /\ UNCHANGED left
  BY <1>1, <1>2, <1>3, <1>6, UndoBegins DEF Unmade
<1> QED
  BY <1>4, <1>5, <1>6 DEF Cleaned

\* Enabling puts safety before routing, and schedulers last.
LEMMA CommitKeeps ==
    ASSUME InstallInv, Enable \/ KindEnabled, UNCHANGED helper PROVE Progress'
<1> USE DEF InstallInv, Progress
<1>1. phase = "commit" /\ helper /\ Complete
      /\ at \in {"bypass", "rule", "nat", "scheduler"} /\ todo \subseteq Of(at)
  BY DEF Enable, KindEnabled, HelperKept, Made, TypeInv, PhaseFits
<1>2. UNCHANGED <<there, job, created, histVars, left, cleanVars>> /\ enabled \subseteq enabled'
  BY DEF Enable, KindEnabled, objectVars
<1>3. Complete'
  BY <1>1, <1>2 DEF Complete
<1>4. ~trouble => Guarded'
  <2>1. CASE at = "bypass"
    <3>1. enabled' \subseteq enabled \cup Of("bypass")
      BY <1>1, <2>1 DEF Enable, KindEnabled, objectVars
    <3>2. enabled \subseteq Of("bypass") /\ "health" \notin job
      BY <1>1, <2>1 DEF Safety
    <3>3. Of("bypass") \cap (Of("rule") \cup Of("scheduler")) = {}
      BY DEF Of
    <3> QED
      BY <1>2, <3>1, <3>2, <3>3 DEF Guarded
  <2>2. CASE at # "bypass"
    BY <1>1, <1>2, <2>2 DEF Safety, Guarded
  <2> QED
    BY <2>1, <2>2
<1>5. CASE Enable
  <2>1. PICK o \in todo :
          \/ enabled' = enabled \cup {o} /\ todo' = todo \ {o} /\ UNCHANGED <<phase, at>>
          \/ Undo
    BY <1>5 DEF Enable
  <2>2. CASE Undo
    BY <1>1, <1>2, <1>4, <2>2, UndoBegins DEF Unmade
  <2>3. CASE enabled' = enabled \cup {o} /\ todo' = todo \ {o} /\ UNCHANGED <<phase, at>>
    <3>1. Safety'
      BY <1>1, <1>2, <1>4, <2>1, <2>3 DEF Safety
    <3>2. Cleared'
      <4>1. CASE at = "scheduler"
        BY <1>1, <1>2, <2>1, <2>3, <4>1 DEF Cleared
      <4>2. CASE at # "scheduler"
        <5>1. o \notin Of("scheduler")
          BY <1>1, <2>1, <4>2 DEF Of
        <5> QED
          BY <1>1, <1>2, <2>3, <4>2, <5>1 DEF Cleared
      <4> QED
        BY <4>1, <4>2
    <3> QED
      BY <1>1, <1>2, <1>3, <2>3, <3>1, <3>2
         DEF Made, Unmade, FailedLeavesNothing, HelperKept, HelperUntilInstalled
  <2> QED
    BY <2>1, <2>2, <2>3
<1>6. CASE KindEnabled
  <2>1. todo = {} /\ UNCHANGED enabled
    BY <1>6 DEF KindEnabled, objectVars
  <2>2. \/ phase' = "ok" /\ at' = "none"
        \/ phase' = "commit" /\ at' # "bypass" /\ at # "scheduler"
           /\ (at' = "scheduler" => todo' = Of("scheduler"))
    BY <1>1, <1>6 DEF KindEnabled, Commit, Work, End
  <2>3. Safety'
    BY <1>1, <1>2, <1>4, <2>1, <2>2 DEF Safety
  <2>4. Cleared'
    BY <1>1, <1>2, <2>1, <2>2 DEF Cleared
  <2> QED
    BY <1>1, <1>2, <1>3, <2>2, <2>3, <2>4
       DEF Made, Unmade, FailedLeavesNothing, HelperKept, HelperUntilInstalled
<1> QED
  BY <1>5, <1>6

\* Taking back keeps safety until there is nothing to protect from.
LEMMA UndoKeeps ==
    ASSUME InstallInv, Remove \/ KindRemoved, UNCHANGED helper PROVE Progress'
<1> USE DEF InstallInv, Progress
<1>1. phase = "undo" /\ helper /\ at \in {"script", "bypass", "rule", "nat", "scheduler"}
      /\ todo \subseteq Of(at) /\ there \subseteq Obj
  BY DEF Remove, KindRemoved, HelperKept, TypeInv, TypeOK, InstallTypeOK, PhaseFits, Kinds
<1>2. UNCHANGED <<job, created, left>> /\ there' \subseteq there /\ enabled' \subseteq enabled
  BY DEF Remove, KindRemoved, objectVars
<1>3. CASE Remove
  <2>1. PICK o \in todo :
          /\ todo' = todo \ {o}
          /\ \/ there' = there \ {o} /\ enabled' = enabled \ {o} /\ UNCHANGED trouble
             \/ trouble' = TRUE /\ UNCHANGED <<there, enabled>>
    BY <1>3 DEF Remove
  <2>2. UNCHANGED <<phase, at>>
    BY <1>3 DEF Remove
  <2>3. ~trouble' => Guarded'
    <3>1. CASE at = "bypass"
      BY <1>1, <1>2, <2>1, <3>1 DEF Unmade, Guarded
    <3>2. CASE at # "bypass"
      <4>1. o \notin Of("bypass")
        BY <1>1, <2>1, <3>2 DEF Of
      <4> QED
        BY <1>2, <2>1, <4>1 DEF Safety, Guarded
    <3> QED
      BY <3>1, <3>2
  <2>4. Unmade'
    BY <1>1, <1>2, <2>1, <2>2 DEF Unmade, FailedLeavesNothing
  <2> QED
    BY <1>1, <2>2, <2>3, <2>4 DEF Safety, Made, Cleared, HelperKept, HelperUntilInstalled
<1>4. CASE KindRemoved
  <2>1. todo = {} /\ UNCHANGED <<there, enabled, trouble>>
    BY <1>4 DEF KindRemoved, objectVars
  <2>2. CASE at # "script"
    <3>1. phase' = "undo"
      BY <1>1, <1>4, <2>2 DEF KindRemoved, Rollback, Work, End
    <3>2. Unmade'
      BY <1>1, <1>2, <1>4, <2>1, <2>2, <3>1
         DEF KindRemoved, Rollback, Work, Unmade, FailedLeavesNothing
    <3> QED
      BY <1>1, <1>2, <2>1, <3>1, <3>2
         DEF Safety, Guarded, Made, Cleared, HelperKept, HelperUntilInstalled
  <2>3. CASE at = "script"
    <3>1. phase' = "failed"
      BY <1>4, <2>3 DEF KindRemoved, Rollback, Work, End
    <3>2. ~trouble => there = {}
      <4>1. ~trouble => \A k \in Kinds : Of(k) \cap there = {}
        BY <1>1, <2>1, <2>3 DEF Unmade, Kinds
      <4> QED
        BY <1>1, <4>1, ObjectKinds DEF Of
    <3> QED
      BY <1>1, <1>2, <2>1, <3>1, <3>2
         DEF Safety, Guarded, Made, Unmade, FailedLeavesNothing, Cleared, HelperKept,
             HelperUntilInstalled
  <2> QED
    BY <2>2, <2>3
<1> QED
  BY <1>3, <1>4
\* The end of a command leaves the router as it is, and the helper with what is
\* not complete.
LEMMA ExitKeeps ==
    ASSUME InstallInv, NEW p \in Proc, Exit(p),
           helper' = helper \/ (phase = "ok" /\ helper' \in BOOLEAN)
    PROVE  Progress'
<1> USE DEF InstallInv, Progress
<1>1. UNCHANGED <<there, enabled, job, trouble, left>>
  BY DEF Exit, objectVars
<1>2. HelperUntilInstalled'
  BY <1>1 DEF HelperKept, HelperUntilInstalled, Made, Complete
<1>3. Guarded' <=> Guarded
  BY <1>1 DEF Guarded
<1>4. CASE phase' = "idle"
  BY <1>1, <1>2, <1>3, <1>4
     DEF Safety, Made, Unmade, FailedLeavesNothing, Cleared, HelperKept
<1>5. CASE UNCHANGED <<installVars, cleanVars, relearnt>>
  BY <1>1, <1>2, <1>3, <1>5
     DEF installVars, cleanVars, Safety, Made, Complete, Unmade, FailedLeavesNothing, Cleared,
         HelperKept
<1> QED
  BY <1>4, <1>5 DEF Exit, End, Work

\* Every step of a command keeps the invariant.
LEMMA CommandKeeps == ASSUME InstallInv, NEW p \in Proc, Command(p) PROVE Progress'
<1>1. UNCHANGED <<routerVars, helper>> => Progress'
  BY DEF InstallInv, Progress, routerVars, cleanupVars, objectVars, installVars, cleanVars, Safety,
         Guarded, Made, Complete, Unmade, FailedLeavesNothing, Cleared, HelperKept,
         HelperUntilInstalled
<1>2. CASE Load(p) \/ EnforceIpv4(p) \/ Prompt(p) \/ ChangeTarget(p)
  BY <1>1, <1>2 DEF Load, EnforceIpv4, Prompt, ChangeTarget, commandVars
<1>3. CASE TakeLock(p)
  BY <1>1, <1>3, ExitKeeps DEF TakeLock
<1>4. CASE BeginInstall(p)
  <2>1. CASE Begin /\ UNCHANGED helper
    BY <2>1 DEF InstallInv, Progress, Begin, End, Work, objectVars, cleanVars, Safety, Guarded,
                Made, Complete, Unmade, FailedLeavesNothing, Cleared, HelperKept,
                HelperUntilInstalled
  <2> QED
    BY <1>1, <1>4, <2>1 DEF BeginInstall, commandVars
<1>5. CASE Installing(p)
  BY <1>5, CountKeeps, CreateKeeps, CleanKeeps, CommitKeeps, UndoKeeps
     DEF Installing, InstallStep, commandVars
<1>6. CASE InstallEnds(p)
  BY <1>6, ExitKeeps DEF InstallEnds, Success, InstallInv, TypeInv, TypeOK
<1>7. CASE Ends(p) \/ Crash(p)
  BY <1>7, ExitKeeps DEF Ends, Crash
<1> QED
  BY <1>2, <1>3, <1>4, <1>5, <1>6, <1>7 DEF Command

\* The invariant of the installation holds of the fresh router and is kept.
LEMMA InstallInductive == Spec => []InstallInv
<1>1. Init => InstallInv
  <2> SUFFICES ASSUME Init PROVE InstallInv
    OBVIOUS
  <2>1. phase = "idle" /\ there = {} /\ helper
    BY DEF Init, InstallInit
  <2> QED
    BY <2>1, InitTyped
       DEF InstallInv, Safety, Guarded, Made, Unmade, FailedLeavesNothing, Cleared, HelperKept,
           HelperUntilInstalled
<1>2. InstallInv /\ [Next]_vars => InstallInv'
  <2> SUFFICES ASSUME InstallInv, [Next]_vars PROVE InstallInv'
    OBVIOUS
  <2>1. TypeInv'
    BY NextTyped DEF InstallInv
  <2>2. CASE Router /\ UNCHANGED <<targetVars, commandVars>>
    BY <2>1, <2>2, RouterKeeps DEF commandVars, InstallInv, Progress
  <2>3. CASE UNCHANGED vars
    BY <2>1, <2>3
       DEF vars, routerVars, cleanupVars, commandVars, objectVars, installVars, cleanVars,
           InstallInv, Safety, Guarded, Made, Complete, Unmade, FailedLeavesNothing, Cleared,
           HelperKept, HelperUntilInstalled
  <2> QED
    BY <2>1, <2>2, <2>3, CommandKeeps DEF Next, InstallInv, Progress
<1> QED
  BY <1>1, <1>2, PTL DEF Spec

\* No routing rule is ever on without every safety rule, wherever an
\* installation is, fails or dies, unless a removal of its rollback failed.
THEOREM SafetyBeforeRouting == Spec => []SafetyFirst
<1>1. InstallInv => SafetyFirst
  <2> SUFFICES ASSUME InstallInv, ~trouble, enabled \cap Of("rule") # {}
               PROVE  Of("bypass") \subseteq enabled
    BY DEF SafetyFirst
  <2>1. enabled \subseteq there
    BY DEF InstallInv, TypeInv, TypeOK, InstallTypeOK
  <2> QED
    BY <2>1 DEF InstallInv, Safety, Guarded
<1> QED
  BY <1>1, InstallInductive, PTL

\* The first scheduler is enabled on a router without state of an older release,
\* although traffic goes on while it is cleared, and without any adaptive state
\* unless a job of an earlier attempt has added it since.
THEOREM ClearedFirst == Spec => []StartsClean
<1>1. InstallInv => StartsClean
  BY DEF InstallInv, Cleared, StartsClean
<1> QED
  BY <1>1, InstallInductive, PTL

\* A failed installation takes back everything it made, unless a removal failed
\* or a NAT rule was added without a reply.
THEOREM NothingLeft == Spec => []FailedLeavesNothing
<1>1. InstallInv => FailedLeavesNothing
  BY DEF InstallInv, Unmade
<1> QED
  BY <1>1, InstallInductive, PTL

\* The bootstrap helper goes only when the installation is complete, and then
\* the installation stays.
THEOREM HelperLast == Spec => []HelperUntilInstalled
<1>1. InstallInv => HelperUntilInstalled
  BY DEF InstallInv, HelperKept
<1> QED
  BY <1>1, InstallInductive, PTL

-----------------------------------------------------------------------------
(* Changes one after the other.                                             *)

\* Each command keeps to its places, and streams are open while it writes.
Orderly == \A p \in Proc :
    /\ cmd[p] = "config" => pc[p] \in {"start", "open", "write", "rename", "saved", "failed", "done"}
    /\ cmd[p] = "install" => pc[p] \in {"start", "lock", "install", "done"}
    /\ pc[p] # "write" => out[p] = "none"

\* The places from which a command saves what it has in its memory.
Saving == {"open", "write", "rename"}

\* How far a change has come that has no other beside it.
Change(p) ==
    /\ pc[p] = "addRoute" => ~Conflict
    /\ pc[p] \in Saving /\ cmd[p] # "config" => mem[p].table # None
    /\ pc[p] \in Saving /\ cmd[p] = "config" /\ "read" \notin Faults =>
          mem[p].table = file.table
    /\ pc[p] = "write" => out[p] = "tmp" /\ hasTmp
    /\ pc[p] = "rename" => hasTmp /\ tmp = mem[p]

\* The inductive invariant behind OneWayOut and SelectionKept: as long as no two
\* changes have met, there is one at a time.
ChangeInv ==
    /\ TypeInv /\ Orderly
    /\ ~crossed =>
          /\ \A p, q \in Proc : Changing(p) /\ Changing(q) => p = q
          /\ \A p \in Proc : Changing(p) => Change(p)
          /\ OneWayOut

\* The fresh router and its commands.
LEMMA ChangeInit == Init => ChangeInv
<1> SUFFICES ASSUME Init PROVE ChangeInv
  OBVIOUS
<1>1. \A p \in Proc : pc[p] = "start" /\ out[p] = "none"
  BY DEF Init, TargetInit
<1>2. OneWayOut
  BY DedicatedOnce DEF Init, TargetInit, OneWayOut
<1> QED
  BY <1>1, <1>2, InitTyped DEF ChangeInv, Orderly, Changing

\* Changes that have met stay so.
LEMMA CrossedStays == ASSUME NEW p \in Proc, Command(p), ~crossed' PROVE ~crossed
  BY DEF Command, Load, TakeLock, EnforceIpv4, Prompt, ChangeTarget, BeginInstall, Installing,
         InstallEnds, Ends, Crash, Exit, TargetStep

\* Commands keep to their places.
LEMMA OrderlyKept ==
    ASSUME TypeInv, Orderly, NEW p \in Proc, Command(p) PROVE Orderly'
<1> USE DEF Go
<1>1. /\ pc \in [Proc -> AllPlaces] /\ out \in [Proc -> {"none", "tmp", "file", "lost"}]
      /\ cmd' = cmd /\ \A q \in Proc : cmd[q] \in {"config", "target", "setup", "install"}
  BY DEF TypeInv, TypeOK, TargetTypeOK, AllPlaces, Command, Load, TakeLock, EnforceIpv4, Prompt,
         ChangeTarget, BeginInstall, Installing, InstallEnds, Ends, Crash, Exit, commandVars
<1>2. \A q \in Proc \ {p} : pc'[q] = pc[q]
  BY <1>1 DEF Command, Load, TakeLock, EnforceIpv4, Prompt,
         ChangeTarget, BeginInstall, Installing, InstallEnds, Ends, Crash, Exit,
         TargetStep, ScanRoutes, FindTable, AddTable, CheckRoutes, AddRoute, LookTable,
         RouterFails, OpenTmp, CloseTmp, Rename, Dedicates
<1>3. \A q \in Proc : out[q] = "none" /\ q # p => out'[q] = "none"
  BY <1>1 DEF Command, Load, TakeLock, EnforceIpv4, Prompt,
         ChangeTarget, BeginInstall, Installing, InstallEnds, Ends, Crash, Exit,
         TargetStep, ScanRoutes, FindTable, AddTable, CheckRoutes, AddRoute, LookTable,
         RouterFails, OpenTmp, CloseTmp, Rename, DropTmp, Dedicates, diskVars
<1>4. cmd[p] = "config" =>
         pc'[p] \in {"start", "open", "write", "rename", "saved", "failed", "done"}
  BY <1>1 DEF Orderly, Command, Load, TakeLock, EnforceIpv4, Prompt,
         ChangeTarget, BeginInstall, Installing, InstallEnds, Ends, Crash, Exit,
         TargetStep, ScanRoutes, FindTable, AddTable, CheckRoutes, AddRoute, LookTable,
         RouterFails, OpenTmp, CloseTmp, Rename
<1>5. cmd[p] = "install" => pc'[p] \in {"start", "lock", "install", "done"}
  BY <1>1 DEF Orderly, Command, Load, TakeLock, EnforceIpv4, Prompt,
         ChangeTarget, BeginInstall, Installing, InstallEnds, Ends, Crash, Exit,
         TargetStep, ScanRoutes, FindTable, AddTable, CheckRoutes, AddRoute, LookTable,
         RouterFails, OpenTmp, CloseTmp, Rename
<1>6. pc'[p] # "write" => out'[p] = "none"
  <2>1. CASE TargetStep(p)
    BY <1>1, <2>1 DEF Orderly, TargetStep, ScanRoutes, FindTable, AddTable, CheckRoutes, AddRoute,
         LookTable, RouterFails, OpenTmp, CloseTmp, Rename, DropTmp, Dedicates, diskVars
  <2>2. CASE ~TargetStep(p)
    BY <1>1, <2>2 DEF Orderly, Command, Load, TakeLock, EnforceIpv4, Prompt,
         ChangeTarget, BeginInstall, Installing, InstallEnds, Ends, Crash, Exit, diskVars
  <2> QED
    BY <2>1, <2>2
<1> QED
  BY <1>1, <1>2, <1>3, <1>4, <1>5, <1>6 DEF Orderly

\* Beside a change nothing disturbs it and no other begins.
LEMMA OthersStand ==
    ASSUME ChangeInv, ~crossed', NEW p \in Proc, NEW q \in Proc, p # q, Changing(q), Command(p)
    PROVE  /\ UNCHANGED <<file, tmp, hasTmp, routes>>
           /\ out'[q] = out[q] /\ mem'[q] = mem[q] /\ pc'[q] = pc[q] /\ cmd'[q] = cmd[q]
           /\ ~Changing(p)'
<1> USE DEF Go, diskVars, routeVars, commandVars
<1>1. ~crossed
  BY CrossedStays
<1>2. ~Changing(p)
  BY <1>1 DEF ChangeInv
<1>3. pc \in [Proc -> AllPlaces] /\ out \in [Proc -> {"none", "tmp", "file", "lost"}]
      /\ mem \in [Proc -> Config]
  BY DEF ChangeInv, TypeInv, TypeOK, TargetTypeOK, AllPlaces
<1>4. \/ pc[p] \in {"start", "failed", "saved", "install", "done"}
      \/ cmd[p] = "install" /\ pc[p] = "lock"
  BY <1>2 DEF Changing, ChangeInv, Orderly
<1>5. CASE Load(p)
  <2>1. cmd[p] = "install"
    BY <1>5 DEF Load
  <2> QED
    BY <1>3, <1>5, <2>1 DEF Load, Changing
<1>6. CASE Exit(p) /\ cmd' = cmd
  BY <1>3, <1>6 DEF Exit, Changing
<1>7. CASE TakeLock(p)
  <2>1. cmd[p] = "install"
    BY <1>4, <1>7 DEF TakeLock
  <2>2. CASE Exit(p)
    BY <1>6, <2>2 DEF Exit
  <2>3. CASE ~Exit(p)
    BY <1>3, <1>7, <2>1, <2>3 DEF TakeLock, Changing
  <2> QED
    BY <2>2, <2>3
<1>8. CASE BeginInstall(p) \/ Installing(p)
  BY <1>3, <1>8 DEF BeginInstall, Installing, Changing
<1>9. CASE InstallEnds(p) \/ Ends(p) \/ Crash(p)
  BY <1>6, <1>9 DEF InstallEnds, Ends, Crash, Exit
<1>10. ~EnforceIpv4(p) /\ ~Prompt(p)
  BY <1>4 DEF EnforceIpv4, Prompt
<1>11. ~ChangeTarget(p)
  BY <1>4 DEF ChangeTarget, TargetStep, ScanRoutes, FindTable, AddTable, CheckRoutes, AddRoute,
         LookTable, RouterFails, OpenTmp, CloseTmp, Rename
<1> QED
  BY <1>5, <1>7, <1>8, <1>9, <1>10, <1>11 DEF Command

\* A step of a change that has no other beside it.
LEMMA ChangeGoesOn ==
    ASSUME ChangeInv, ~crossed, NEW p \in Proc, TargetStep(p), UNCHANGED cmd, TargetTyped'
    PROVE  Change(p)' /\ OneWayOut'
<1> USE DEF Go, diskVars, routeVars, Saving
<1>1. /\ pc \in [Proc -> AllPlaces] /\ out \in [Proc -> {"none", "tmp", "file", "lost"}]
      /\ mem \in [Proc -> Config] /\ None \notin Table /\ GoalFits /\ routes \subseteq Route
  BY NoneType DEF ChangeInv, TypeInv, TypeOK, TargetTypeOK, AllPlaces
<1>2. cmd[p] = "config" => pc[p] \in {"start", "open", "write", "rename", "saved", "failed", "done"}
  BY DEF ChangeInv, Orderly
<1>3. cmd[p] = "install" => pc[p] \in {"start", "lock", "install", "done"}
  BY DEF ChangeInv, Orderly
<1>4. Changing(p)
  BY <1>3 DEF Changing, TargetStep, ScanRoutes, FindTable, AddTable, CheckRoutes, AddRoute,
         LookTable, RouterFails, OpenTmp, CloseTmp, Rename
<1>5. Change(p) /\ OneWayOut
  BY <1>4 DEF ChangeInv
<1>6. ASSUME NEW m, NEW i, NEW t \in Table, Select(p, m, i, t) PROVE mem'[p].table # None
  BY <1>1, <1>6 DEF Select
<1>7. CASE ScanRoutes(p)
  <2>1. TablesVia(goal[p][2]) \subseteq Table
    BY <1>1 DEF TablesVia, Route
  <2>2. pc'[p] = "open" => mem'[p].table # None
    BY <1>1, <1>6, <1>7, <2>1 DEF ScanRoutes
  <2> QED
    BY <1>1, <1>2, <1>5, <1>7, <2>2 DEF ScanRoutes, Change, OneWayOut, TargetStep
<1>8. CASE FindTable(p) \/ AddTable(p)
  BY <1>1, <1>5, <1>8 DEF FindTable, AddTable, Change, OneWayOut, TargetStep
<1>9. CASE CheckRoutes(p)
  <2>1. pc'[p] = "open" => mem'[p].table # None
    BY <1>1, <1>6, <1>9, DedicatedType DEF CheckRoutes, Dedicates
  <2> QED
    BY <1>1, <1>2, <1>5, <1>9, <2>1
       DEF CheckRoutes, Dedicates, Change, Conflict, OneWayOut, TargetStep
<1>10. CASE AddRoute(p)
  <2>1. mem'[p].table # None
    BY <1>1, <1>6, <1>10, DedicatedType DEF AddRoute, Dedicates
  <2>2. OneWayOut'
    BY <1>5, <1>10 DEF AddRoute, Change, Conflict, OneWayOut
  <2> QED
    BY <1>1, <1>2, <1>10, <2>1, <2>2 DEF AddRoute, Dedicates, Change
<1>11. CASE LookTable(p)
  <2>1. goal[p][2] \in Table
    BY <1>1, <1>11 DEF LookTable, GoalFits
  <2>2. pc'[p] = "open" => mem'[p].table # None
    BY <1>1, <1>6, <1>11, <2>1 DEF LookTable
  <2> QED
    BY <1>1, <1>2, <1>5, <1>11, <2>2 DEF LookTable, Change, OneWayOut, TargetStep
<1>12. CASE RouterFails(p)
  <2>1. OneWayOut'
    BY <1>5, <1>12 DEF RouterFails, Change, Conflict, OneWayOut, TargetStep
  <2> QED
    BY <1>1, <1>12, <2>1 DEF RouterFails, Change
<1>13. CASE OpenTmp(p) \/ CloseTmp(p) \/ Rename(p)
  <2>1. UNCHANGED <<mem, routes, crossed>>
    BY <1>13 DEF OpenTmp, CloseTmp, Rename, TargetStep
  <2>2. OneWayOut'
    BY <1>5, <2>1 DEF OneWayOut
  <2>3. CASE OpenTmp(p)
    BY <1>1, <1>5, <2>1, <2>2, <2>3 DEF OpenTmp, Kept, Change
  <2>4. CASE CloseTmp(p)
    BY <1>1, <1>5, <2>1, <2>2, <2>4 DEF CloseTmp, Change
  <2>5. CASE Rename(p)
    BY <1>1, <2>2, <2>5 DEF Rename, Change
  <2> QED
    BY <1>13, <2>2, <2>3, <2>4, <2>5
<1> QED
  BY <1>7, <1>8, <1>9, <1>10, <1>11, <1>12, <1>13 DEF TargetStep

\* A step of a command, for that command.
LEMMA OwnChange ==
    ASSUME ChangeInv, ~crossed', NEW p \in Proc, Command(p), TypeInv'
    PROVE  (Changing(p)' => Change(p)') /\ OneWayOut'
<1> USE DEF Go, Saving
<1>1. ~crossed /\ OneWayOut
  BY CrossedStays DEF ChangeInv
<1>2. pc \in [Proc -> AllPlaces] /\ mem \in [Proc -> Config]
  BY DEF ChangeInv, TypeInv, TypeOK, TargetTypeOK, AllPlaces
<1>3. UNCHANGED <<routes, crossed>> => OneWayOut'
  BY <1>1 DEF OneWayOut
<1>4. CASE ChangeTarget(p)
  BY <1>1, <1>4, ChangeGoesOn, TypeParts DEF ChangeTarget, commandVars
<1>5. CASE Load(p)
  <2>1. OneWayOut'
    BY <1>1, <1>5 DEF Load, routeVars, OneWayOut
  <2>2. cmd[p] = "config" /\ "read" \notin Faults => mem'[p].table = file'.table
    <3>1. PICK cfg \in Loaded :
             mem' = [mem EXCEPT ![p] = IF cmd[p] = "config"
                                       THEN [cfg EXCEPT !.profile = goal[p][2]] ELSE cfg]
      BY <1>5 DEF Load
    <3>2. "read" \notin Faults => cfg = file
      BY DEF Loaded
    <3>3. file \in Config /\ UNCHANGED file
      BY <1>5 DEF Load, diskVars, ChangeInv, TypeInv, TypeOK, TargetTypeOK
    <3> QED
      BY <1>2, <3>1, <3>2, <3>3 DEF Config
  <2>3. pc'[p] \in {"open", "scan", "table", "lock"} /\ (pc'[p] = "open" => cmd'[p] = "config")
        /\ cmd' = cmd
    BY <1>2, <1>5 DEF Load, Search, commandVars
  <2> QED
    BY <2>1, <2>2, <2>3 DEF Change
<1>6. CASE TakeLock(p) \/ EnforceIpv4(p) \/ Prompt(p)
  <2>1. pc'[p] \in {"ipv6", "install", "prompt", "failed", "scan", "table", "done"}
    BY <1>2, <1>6 DEF TakeLock, EnforceIpv4, Prompt, Exit, Search
  <2>2. UNCHANGED <<routes, crossed>>
    BY <1>6 DEF TakeLock, EnforceIpv4, Prompt, Exit, routeVars
  <2> QED
    BY <1>3, <2>1, <2>2 DEF Change
<1>7. CASE BeginInstall(p) \/ Installing(p)
  <2>1. pc'[p] = "install" /\ UNCHANGED <<routes, crossed>>
    BY <1>2, <1>7 DEF BeginInstall, Installing, routeVars
  <2> QED
    BY <1>3, <2>1 DEF Changing
<1>8. CASE InstallEnds(p) \/ Ends(p) \/ Crash(p)
  <2>1. pc'[p] = "done" /\ UNCHANGED <<routes, crossed>>
    BY <1>2, <1>8 DEF InstallEnds, Ends, Crash, Exit, routeVars
  <2> QED
    BY <1>3, <2>1 DEF Changing
<1> QED
  BY <1>4, <1>5, <1>6, <1>7, <1>8 DEF Command

\* The invariant of the changes is kept.
LEMMA ChangeInductive == Spec => []ChangeInv
<1>1. ChangeInv /\ [Next]_vars => ChangeInv'
  <2> SUFFICES ASSUME ChangeInv, [Next]_vars PROVE ChangeInv'
    OBVIOUS
  <2>1. TypeInv'
    BY NextTyped DEF ChangeInv
  <2>2. ASSUME NEW p \in Proc, Command(p) PROVE ChangeInv'
    <3>1. Orderly'
      BY <2>2, OrderlyKept DEF ChangeInv
    <3>2. SUFFICES ASSUME ~crossed'
          PROVE /\ \A q, r \in Proc : Changing(q)' /\ Changing(r)' => q = r
                /\ \A q \in Proc : Changing(q)' => Change(q)'
                /\ OneWayOut'
      BY <2>1, <3>1 DEF ChangeInv
    <3>3. ~crossed
      BY <2>2, <3>2, CrossedStays
    <3>4. \A q \in Proc \ {p} : pc'[q] = pc[q] /\ cmd'[q] = cmd[q]
      BY <2>2 DEF Go, Command, Load, TakeLock, EnforceIpv4, Prompt, ChangeTarget, BeginInstall,
            Installing, InstallEnds, Ends, Crash, Exit, commandVars,
            TargetStep, ScanRoutes, FindTable, AddTable, CheckRoutes, AddRoute, LookTable,
            RouterFails, OpenTmp, CloseTmp, Rename, Dedicates, ChangeInv, TypeInv, TypeOK
    <3>5. \A q \in Proc \ {p} : Changing(q)' => Changing(q)
      BY <3>4 DEF Changing
    <3>6. \A q \in Proc \ {p} : Changing(q)' => Change(q)' /\ ~Changing(p)'
      <4> SUFFICES ASSUME NEW q \in Proc \ {p}, Changing(q)' PROVE Change(q)' /\ ~Changing(p)'
        OBVIOUS
      <4>1. Changing(q) /\ Change(q)
        BY <3>3, <3>5 DEF ChangeInv
      <4>2. /\ UNCHANGED <<file, tmp, hasTmp, routes>>
            /\ out'[q] = out[q] /\ mem'[q] = mem[q] /\ pc'[q] = pc[q] /\ cmd'[q] = cmd[q]
            /\ ~Changing(p)'
        BY <2>2, <3>2, <4>1, OthersStand
      <4> QED
        BY <4>1, <4>2 DEF Change, Conflict
    <3>7. (Changing(p)' => Change(p)') /\ OneWayOut'
      BY <2>1, <2>2, <3>2, OwnChange
    <3>8. \A q, r \in Proc \ {p} : Changing(q)' /\ Changing(r)' => q = r
      BY <3>3, <3>5 DEF ChangeInv
    <3> QED
      BY <3>6, <3>7, <3>8
  <2>3. CASE UNCHANGED <<targetVars, commandVars>>
    BY <2>1, <2>3 DEF targetVars, commandVars, diskVars, routeVars, ChangeInv, Orderly, Changing,
                      Change, Conflict, OneWayOut
  <2> QED
    BY <2>2, <2>3 DEF Next, vars
<1> QED
  BY <1>1, ChangeInit, PTL DEF Spec

\* Unless two commands changed the target at once, the dedicated table leads
\* through one interface, whatever calls fail and commands die.
THEOREM OneWay == Spec => []OneWayOut
<1>1. ChangeInv => OneWayOut
  BY DEF ChangeInv, OneWayOut
<1> QED
  BY <1>1, ChangeInductive, PTL

\* A selection that was saved is not lost to a crash, a full disk or a failed
\* change, unless two commands changed settings at once, provided the file can
\* be opened to be read.
THEOREM SelectionSurvives == "read" \notin Faults => (Spec => SelectionKept)
<1> SUFFICES ASSUME "read" \notin Faults PROVE Spec => SelectionKept
  OBVIOUS
<1>1. ChangeInv /\ [Next]_vars =>
         [~crossed' /\ file.table # None => file'.table # None]_vars
  <2> SUFFICES ASSUME ChangeInv, Next, ~crossed', file.table # None PROVE file'.table # None
    OBVIOUS
  <2>1. CASE file' = file
    BY <2>1
  <2>2. ASSUME NEW p \in Proc, file' # file, Command(p) PROVE file'.table # None
    <3>1. CloseTmp(p) \/ Rename(p)
      BY <2>2 DEF Command, Load, TakeLock, EnforceIpv4, Prompt, ChangeTarget, BeginInstall,
            Installing, InstallEnds, Ends, Crash, Exit, diskVars, TargetStep, ScanRoutes, FindTable,
            AddTable, CheckRoutes, AddRoute, LookTable, RouterFails, OpenTmp, Kept
    <3>2. ~crossed /\ pc[p] \in {"write", "rename"}
      <4>1. ~crossed
        BY <2>2, CrossedStays
      <4> QED
        BY <3>1, <4>1 DEF CloseTmp, Rename
    <3>3. cmd[p] # "install"
      BY <3>2 DEF ChangeInv, Orderly
    <3>4. Changing(p)
      BY <3>2, <3>3 DEF Changing
    <3>5. Change(p)
      BY <3>2, <3>4 DEF ChangeInv
    <3>6. Rename(p) /\ file' = mem[p]
      BY <2>2, <3>1, <3>5 DEF CloseTmp, Rename, Change
    <3> QED
      BY <3>2, <3>5, <3>6 DEF Change, Saving
  <2> QED
    BY <2>1, <2>2 DEF Next, targetVars, diskVars
<1> QED
  BY <1>1, ChangeInductive, PTL DEF Spec, SelectionKept

=============================================================================
