------------------------------ MODULE Install ------------------------------
(***************************************************************************)
(* The fresh installation: a router without any object of Susanin gets the *)
(* scripts, the rules, the NAT rule and the schedulers, all disabled; the  *)
(* adaptive state of older releases is cleared; then everything is         *)
(* enabled, the schedulers last.  A failure takes back what was made.      *)
(*                                                                         *)
(* Every call is a step: it may fail, applied or not, and the controller   *)
(* may die before the next.  Meanwhile enabled schedulers start jobs,      *)
(* HEALTH switches the routing rules and traffic is marked.  Within a kind *)
(* the order of the objects is left open.  The temporary scripts of the    *)
(* validation have names of their own and are left out.                    *)
(***************************************************************************)
EXTENDS Target, Cleanup

CONSTANTS
    Job,            \* the managed scripts, each with its scheduler
    Rule,           \* the managed mangle rules (8)
    Bypass,         \* the safety rules of private networks (3)
    Addressed,      \* interfaces with an address to probe from
    Masqueraded     \* interfaces with an active masquerade of somebody else

Obj == ({"script", "scheduler"} \X Job) \cup ({"rule"} \X Rule)
       \cup ({"bypass"} \X Bypass) \cup {<<"nat", "nat">>}

Of(k) == {o \in Obj : o[1] = k}

VARIABLES
    there, enabled, \* the objects on the router, and those not disabled
    ruleTable,      \* the table the managed rules route to
    job,            \* the jobs that run
    phase, at,      \* what the installation does, and to which kind of object
    todo,           \* the objects of that kind it has still to do
    created,        \* does it know of a NAT rule of its own?
    trouble,        \* history: has a call failed that nothing makes up for?
    relearnt        \* history: has a job added state behind the cleanup?

objectVars  == <<there, enabled, ruleTable>>
installVars == <<phase, at, todo, created>>
histVars    == <<trouble, relearnt>>

Kinds  == {"script", "bypass", "rule", "nat", "scheduler"}
Phases == {"idle", "count", "render", "create", "clean", "commit", "undo",
           "ok", "blocked", "failed"}

InstallTypeOK ==
    /\ there \subseteq Obj /\ enabled \subseteq there
    /\ job \subseteq Job
    /\ phase \in Phases /\ at \in Kinds \cup {"none"}
    /\ todo \subseteq Obj
    /\ created \in BOOLEAN /\ trouble \in BOOLEAN /\ relearnt \in BOOLEAN

InstallInit ==
    /\ there = {} /\ enabled = {} /\ ruleTable = None
    /\ job = {}
    /\ phase = "idle" /\ at = "none" /\ todo = {}
    /\ created = FALSE /\ trouble = FALSE /\ relearnt = FALSE

-----------------------------------------------------------------------------
(* The router beside the controller.                                        *)

\* An enabled scheduler starts its script; the detectors and JUDGE end at once
\* where a routing rule is missing or off.
StartJob(j) ==
    /\ <<"scheduler", j>> \in enabled /\ <<"script", j>> \in there
    /\ j # "health" => Of("rule") \subseteq enabled
    /\ job' = job \cup {j}
    /\ UNCHANGED <<objectVars, installVars, histVars, left, cleanVars>>

\* A job that runs goes on when its script is removed.
EndJob(j) ==
    /\ j \in job /\ job' = job \ {j}
    /\ UNCHANGED <<objectVars, installVars, histVars, left, cleanVars>>

\* Defect: the rules are counted on that have been removed meanwhile.
AllRules == Of("rule")

\* What HEALTH can enable.
Switchable == Of("rule") \cap there

HealthSwitch ==
    /\ "health" \in job
    /\ enabled' \in {enabled \cup Switchable, enabled \ Of("rule")}
    /\ UNCHANGED <<there, ruleTable, job, installVars, histVars, left, cleanVars>>

\* The cleanup is past the first kind, so that what is added now may stay.
Passed == phase = "commit" \/ (phase = "clean" /\ kind # First)

\* A detector adds the lazy rules of a port and lists a destination.
Learn(j) ==
    /\ j \in job \ {"health"}
    /\ left' = left \cup {"lazy", "lists"}
    /\ relearnt' = (relearnt \/ Passed)
    /\ UNCHANGED <<objectVars, job, installVars, trouble, cleanVars>>

Traffic ==
    /\ MarkConnection(enabled \cap Of("rule") # {})
    /\ UNCHANGED <<objectVars, job, installVars, histVars>>

Router == Traffic \/ HealthSwitch \/ \E j \in Job : StartJob(j) \/ EndJob(j) \/ Learn(j)

-----------------------------------------------------------------------------
(* install_run.                                                             *)

\* A phase works through one kind of object after the other.
Work(ph, k, objs) == phase' = ph /\ at' = k /\ todo' = objs
End(ph)           == Work(ph, "none", {})

\* Taking back begins with what starts jobs.
Undo == Work("undo", "scheduler", Of("scheduler") \cap there')

\* Jobs of an earlier attempt may still run, and nobody looks for them.  HEALTH ends
\* when the rule it goes by is gone.
Begin ==
    /\ End("count") /\ created' = FALSE
    /\ job' = IF Of("rule") \cap there = {} THEN job \ {"health"} ELSE job
    /\ UNCHANGED <<objectVars, histVars, left, cleanVars>>

Incomplete(cfg) == cfg.table = None \/ (cfg.mode = "interface" /\ cfg.egress = None)

Complete == Of("script") \cup Of("scheduler") \cup Of("rule") \subseteq there

\* Anything of an installation counts.
Partial == there # {}

\* An installation is neither repaired nor done over.
Count(cfg) ==
    /\ phase = "count"
    /\ \/ ~Incomplete(cfg) /\ Complete /\ End("ok")
       \/ ~Incomplete(cfg) /\ ~Complete /\ ~Partial /\ End("render")
       \/ (Incomplete(cfg) \/ (Partial /\ ~Complete) \/ CallFails) /\ End("blocked")
    /\ UNCHANGED <<objectVars, job, created, histVars, left, cleanVars>>

\* The sources are rendered for an egress with an address, and validated.
Render(cfg) ==
    /\ phase = "render"
    /\ \/ cfg.egress \in Addressed /\ Work("create", "script", Of("script"))
       \/ (cfg.egress \notin Addressed \/ CallFails) /\ End("blocked")
    /\ UNCHANGED <<objectVars, job, created, histVars, left, cleanVars>>

\* Added disabled and read back.
Create(cfg) ==
    /\ phase = "create" /\ at # "nat"
    /\ \E o \in todo :
          /\ ruleTable' = IF at = "rule" THEN cfg.table ELSE ruleTable
          /\ \/ there' = there \cup {o} /\ todo' = todo \ {o} /\ UNCHANGED <<phase, at>>
             \/ CallFails /\ there' \in {there, there \cup {o}} /\ Undo
    /\ UNCHANGED <<enabled, job, created, histVars, left, cleanVars>>

\* Only an interface without a masquerade gets one.  A rule that is reported as
\* not added is not known of.
CreateNat(cfg) ==
    /\ phase = "create" /\ at = "nat"
    /\ LET wanted == cfg.mode = "interface" /\ cfg.egress \notin Masqueraded IN
       \/ /\ ~wanted /\ Work("create", "scheduler", Of("scheduler"))
          /\ UNCHANGED <<there, created, trouble>>
       \/ /\ wanted /\ Work("create", "scheduler", Of("scheduler"))
          /\ there' = there \cup Of("nat") /\ created' = TRUE
          /\ UNCHANGED trouble
       \/ /\ CallFails /\ cfg.mode = "interface" /\ UNCHANGED there
          /\ Undo /\ UNCHANGED <<created, trouble>>
       \/ /\ CallFails /\ wanted /\ there' = there \cup Of("nat")
          /\ Undo
          /\ \/ created' = TRUE /\ UNCHANGED trouble
             \/ trouble' = TRUE /\ UNCHANGED created
    /\ UNCHANGED <<enabled, ruleTable, job, relearnt, left, cleanVars>>

\* The kinds in the order they are created.
KindCreated ==
    /\ phase = "create" /\ at # "nat" /\ todo = {}
    /\ \/ /\ \/ at = "script" /\ Work("create", "bypass", Of("bypass"))
             \/ at = "bypass" /\ Work("create", "rule", Of("rule"))
             \/ at = "rule" /\ Work("create", "nat", {})
          /\ UNCHANGED <<cleanVars, relearnt>>
       \/ at = "scheduler" /\ End("clean") /\ CleanStart /\ relearnt' = FALSE
    /\ UNCHANGED <<objectVars, job, created, trouble, left>>

\* A cleanup that could not be verified: AUTO-AWG is disabled, best effort, and
\* everything is taken back.
Cleaned ==
    /\ phase = "clean"
    /\ \/ CleanStep /\ UNCHANGED <<objectVars, installVars, histVars>>
       \/ /\ kind = "done" /\ Work("commit", "bypass", Of("bypass"))
          /\ UNCHANGED <<objectVars, created, histVars, left, cleanVars>>
       \/ /\ kind = "failed"
          /\ enabled' \in {enabled \ Of("rule")} \cup (IF CallFails THEN {enabled} ELSE {})
          /\ UNCHANGED <<there, ruleTable, created, histVars, left, cleanVars>>
          /\ Undo
    /\ UNCHANGED job

Enable ==
    /\ phase = "commit"
    /\ \E o \in todo :
          \/ /\ o \in there
             /\ enabled' = enabled \cup {o} /\ todo' = todo \ {o}
             /\ UNCHANGED <<there, phase, at>>
          \/ /\ CallFails \/ o \notin there
             /\ enabled' \in {enabled, enabled \cup ({o} \cap there)}
             /\ UNCHANGED there /\ Undo
    /\ UNCHANGED <<ruleTable, job, created, histVars, left, cleanVars>>

\* The kinds in the order they are enabled.
Commit == [bypass |-> "rule", rule |-> "nat", nat |-> "scheduler", scheduler |-> "ok"]

KindEnabled ==
    /\ phase = "commit" /\ todo = {}
    /\ \/ Commit[at] = "ok" /\ End("ok")
       \/ /\ Commit[at] # "ok"
          /\ Work("commit", Commit[at],
                  IF Commit[at] = "nat" /\ ~created THEN {} ELSE Of(Commit[at]))
    /\ UNCHANGED <<objectVars, job, created, histVars, left, cleanVars>>

\* Best effort: an object that cannot be found or removed stays.
Remove ==
    /\ phase = "undo"
    /\ \E o \in todo :
          /\ todo' = todo \ {o}
          /\ \/ there' = there \ {o} /\ enabled' = enabled \ {o} /\ UNCHANGED trouble
             \/ CallFails /\ trouble' = TRUE /\ UNCHANGED <<there, enabled>>
    /\ UNCHANGED <<ruleTable, job, phase, at, created, relearnt, left, cleanVars>>

\* Defects: the safety rules go before the rules they protect from; they are
\* forgotten.
SafetyGoesFirst ==
    [scheduler |-> "bypass", bypass |-> "rule", rule |-> "nat", nat |-> "script", script |-> "failed"]
SafetyForgotten ==
    [scheduler |-> "rule", rule |-> "nat", nat |-> "script", script |-> "failed"]

\* The kinds in the order they are taken back.
Rollback ==
    [scheduler |-> "rule", rule |-> "bypass", bypass |-> "nat", nat |-> "script", script |-> "failed"]

KindRemoved ==
    /\ phase = "undo" /\ todo = {}
    /\ \/ Rollback[at] = "failed" /\ End("failed")
       \/ /\ Rollback[at] # "failed"
          /\ Work("undo", Rollback[at],
                  IF Rollback[at] = "nat" /\ ~created THEN {} ELSE Of(Rollback[at]) \cap there)
    /\ UNCHANGED <<objectVars, job, created, histVars, left, cleanVars>>

InstallStep(cfg) ==
    \/ Count(cfg) \/ Render(cfg) \/ Create(cfg) \/ CreateNat(cfg) \/ KindCreated
    \/ Cleaned \/ Enable \/ KindEnabled \/ Remove \/ KindRemoved

=============================================================================
