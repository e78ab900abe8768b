------------------------------- MODULE Setup -------------------------------
(***************************************************************************)
(* The commands that bring the data plane up, beside those that change its *)
(* settings: "config set", "target set", "setup" and "install".  All load  *)
(* the configuration first; setup and install then take the runtime lock,  *)
(* or end.  setup turns IPv6 off, asks for the target, saves it, installs  *)
(* and, when that succeeds, removes the bootstrap helper.  A command may   *)
(* die at any step, which frees the lock.                                  *)
(***************************************************************************)
EXTENDS Install

CONSTANTS
    Plans       \* the commands the processes are, and what they are to set

\* setup asks for its target, install takes the one that was saved.
Plan == ({"config"} \X ({"profile"} \X Profile))
        \cup ({"target"} \X (({"interface"} \X Iface) \cup ({"table"} \X Table)))
        \cup ({"setup", "install"} \X {None})

ASSUME PlansType == Plans \subseteq [Proc -> Plan]

VARIABLES
    cmd,        \* the command of a process
    lock,       \* the holder of the runtime lock
    helper,     \* is the bootstrap helper on the router?
    ipv6        \* does the router forward IPv6?

commandVars == <<cmd, lock, helper, ipv6>>
targetVars  == <<diskVars, routeVars, mem, goal, pc, crossed>>
cleanupVars == <<left, cleanVars>>
routerVars  == <<objectVars, job, installVars, histVars, cleanupVars>>
vars == <<targetVars, routerVars, commandVars>>

TypeOK ==
    /\ TargetTypeOK /\ InstallTypeOK /\ CleanupTypeOK
    /\ ruleTable \in Table \cup {None}
    /\ pc \in [Proc -> Places \cup {"start", "lock", "ipv6", "prompt", "install", "done"}]
    /\ cmd \in [Proc -> {"config", "target", "setup", "install"}]
    /\ lock \in Proc \cup {None}
    /\ helper \in BOOLEAN /\ ipv6 \in BOOLEAN

Init ==
    /\ TargetInit /\ InstallInit /\ CleanupInit
    /\ pc = [p \in Proc |-> "start"]
    /\ \E plan \in Plans :
          cmd = [p \in Proc |-> plan[p][1]] /\ goal = [p \in Proc |-> plan[p][2]]
    /\ lock = None /\ helper = TRUE /\ ipv6 = TRUE

-----------------------------------------------------------------------------
\* Between the load of the configuration and the end of its save.
Changing(p) == cmd[p] # "install" /\ pc[p] \notin {"start", "failed", "saved", "install", "done"}

\* The first place of the search for a target.
Search(g) == IF g[1] = "interface" THEN "scan" ELSE "table"

\* A file that cannot be opened is taken for none.
Loaded == {file} \cup (IF "read" \in Faults THEN {Default} ELSE {})

Load(p) ==
    /\ pc[p] = "start"
    /\ \E cfg \in Loaded :
          mem' = [mem EXCEPT ![p] = IF cmd[p] = "config"
                                    THEN [cfg EXCEPT !.profile = goal[p][2]] ELSE cfg]
    /\ Go(p, IF cmd[p] = "config" THEN "open"
             ELSE IF cmd[p] = "target" THEN Search(goal[p]) ELSE "lock")
    /\ crossed' = (crossed \/ (cmd[p] # "install" /\ \E q \in Proc \ {p} : Changing(q)))
    /\ UNCHANGED <<diskVars, routeVars, goal, routerVars, commandVars>>

\* The end of a command: its memory, its stream and the lock go with it.
Exit(p) ==
    /\ Go(p, "done")
    /\ mem' = [mem EXCEPT ![p] = Default] /\ goal' = [goal EXCEPT ![p] = None]
    /\ out' = [out EXCEPT ![p] = "none"]
    /\ IF lock = p
       THEN /\ lock' = None /\ End("idle") /\ created' = FALSE
            /\ kind' = "idle" /\ look' = "inspect" /\ tries' = 1 /\ relearnt' = FALSE
       ELSE UNCHANGED <<lock, installVars, cleanVars, relearnt>>
    /\ UNCHANGED <<file, tmp, hasTmp, routeVars, crossed, objectVars, job, trouble,
                   left, cmd, ipv6>>

\* A command that cannot have the lock ends.
TakeLock(p) ==
    /\ pc[p] = "lock"
    /\ \/ /\ lock = None /\ lock' = p
          /\ Go(p, IF cmd[p] = "setup" THEN "ipv6" ELSE "install")
          /\ UNCHANGED <<diskVars, routeVars, mem, goal, crossed, routerVars, cmd,
                         helper, ipv6>>
       \/ lock # None /\ Exit(p) /\ UNCHANGED helper

\* Read, set and read again.
EnforceIpv4(p) ==
    /\ pc[p] = "ipv6"
    /\ \/ ipv6' = FALSE /\ Go(p, "prompt")
       \/ CallFails /\ ipv6' \in {ipv6, FALSE} /\ Go(p, "failed")
    /\ UNCHANGED <<diskVars, routeVars, mem, goal, crossed, routerVars, cmd, lock, helper>>

\* What setup offers: enabled interfaces and the tables there are.
Offered == ({"interface"} \X Usable) \cup ({"table"} \X tables)

Prompt(p) ==
    /\ pc[p] = "prompt"
    /\ \/ \E g \in Offered : goal' = [goal EXCEPT ![p] = g] /\ Go(p, Search(g))
       \/ Go(p, "failed") /\ UNCHANGED goal
    /\ UNCHANGED <<diskVars, routeVars, mem, crossed, routerVars, commandVars>>

ChangeTarget(p) ==
    /\ TargetStep(p)
    /\ UNCHANGED <<routerVars, commandVars>>

\* setup goes on with what it has saved, and has in its memory.
BeginInstall(p) ==
    /\ \/ /\ pc[p] = "saved" /\ cmd[p] = "setup" /\ Go(p, "install")
          /\ UNCHANGED routerVars
       \/ pc[p] = "install" /\ phase = "idle" /\ Begin /\ UNCHANGED pc
    /\ UNCHANGED <<diskVars, routeVars, mem, goal, crossed, commandVars>>

Installing(p) ==
    /\ pc[p] = "install" /\ InstallStep(mem[p])
    /\ UNCHANGED <<diskVars, routeVars, mem, goal, pc, crossed, commandVars>>

\* Defect: the result of the installation is not looked at.
AnyResult == {"ok", "blocked", "failed"}

Success == {"ok"}

\* The helper is of no use any more, and removed best effort; a failure leaves
\* it for a retry.
InstallEnds(p) ==
    /\ pc[p] = "install" /\ phase \in {"ok", "blocked", "failed"}
    /\ helper' \in IF cmd[p] = "setup" /\ phase \in Success
                   THEN {FALSE} \cup (IF CallFails THEN {helper} ELSE {}) ELSE {helper}
    /\ Exit(p)

\* A command that is done, or has failed, before it installs.
Ends(p) ==
    /\ pc[p] = "failed" \/ (pc[p] = "saved" /\ cmd[p] # "setup")
    /\ Exit(p) /\ UNCHANGED helper

Crash(p) ==
    /\ "crash" \in Faults /\ pc[p] \notin {"start", "done"}
    /\ Exit(p) /\ UNCHANGED helper

Command(p) ==
    \/ Load(p) \/ TakeLock(p) \/ EnforceIpv4(p) \/ Prompt(p) \/ ChangeTarget(p)
    \/ BeginInstall(p) \/ Installing(p) \/ InstallEnds(p) \/ Ends(p) \/ Crash(p)

Next ==
    \/ \E p \in Proc : Command(p)
    \/ Router /\ UNCHANGED <<targetVars, commandVars>>

Spec == Init /\ [][Next]_vars

-----------------------------------------------------------------------------
(* What setting up promises.                                                *)

\* The saved selection leads somewhere: its table has a default route, in
\* interface mode through that interface, whatever commands ran beside it.
Routed(cfg) == cfg.table # None =>
    \E r \in routes : r[1] = cfg.table /\ (cfg.mode = "interface" => r[2] = cfg.egress)

SavedTargetRoutes == Routed(file)

\* The managed rules route to a table that has a default route.
InstalledRoutes == ruleTable # None => \E r \in routes : r[1] = ruleTable

\* Unless two commands changed the target at once, the dedicated table leads
\* through one interface.
OneWayOut == ~crossed => \A r, s \in routes :
    r[1] = Dedicated /\ s[1] = Dedicated => r[2] = s[2]

\* A selection that was saved is not lost to a crash, a full disk or a failed
\* change, unless two commands changed the settings at once.
SelectionKept ==
    [][~crossed' /\ file.table # None => file'.table # None]_vars

\* No routing rule is on without every safety rule, unless a removal failed.
SafetyFirst ==
    ~trouble /\ enabled \cap Of("rule") # {} => Of("bypass") \subseteq enabled

\* When the first scheduler is enabled nothing is left of the adaptive state,
\* although traffic went on while it was cleared.  The one exception: a job of an
\* earlier, failed attempt outlived its rollback and added state behind the cleanup,
\* and even then nothing of an older release is left.
StartsClean ==
    phase = "commit" /\ at = "scheduler" /\ todo = Of("scheduler") =>
        "legacy" \notin left /\ (left # {} => relearnt)

\* An installation that failed leaves the router as it found it, unless a
\* removal failed or a NAT rule was added without a reply.
FailedLeavesNothing == phase = "failed" /\ ~trouble => there = {}

\* The bootstrap helper stays until the installation is complete.
HelperUntilInstalled == ~helper => Complete

=============================================================================
