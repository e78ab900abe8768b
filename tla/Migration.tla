----------------------------- MODULE Migration -----------------------------
(***************************************************************************)
(* stage, promote and rollback: how the controller replaces the four       *)
(* managed scripts on a live router.  The runtime lock admits one of them  *)
(* at a time, but the router keeps working beside it: schedulers start     *)
(* jobs, jobs write adaptive state, traffic is marked.  Each API call that *)
(* changes the router is a step; it may fail, and the controller may die   *)
(* between any two.                                                        *)
(*                                                                         *)
(* A script source is the version that rendered it.  Adaptive state is     *)
(* kept as the versions whose jobs wrote it.                               *)
(***************************************************************************)
EXTENDS Naturals, Sequences

CONSTANTS
    Managed,    \* the managed scripts, in the order the loops visit them
    Version,    \* rendered script bundles: profiles, or releases
    None,       \* no script object, or no job
    Faults      \* what may go wrong: the calls that make the backups ("backup"),
                \* those that restore a source ("restore"), any other call that
                \* changes the router ("api"), the controller ("crash")

Script  == {Managed[i] : i \in DOMAIN Managed}
Kind    == {"rules", "lists", "marks"}

ASSUME ManagedType == /\ Managed \in Seq({"health", "fast", "detect", "judge"})
                      /\ Managed # <<>>
                      /\ \A i, j \in DOMAIN Managed : Managed[i] = Managed[j] => i = j
ASSUME NoneIsNoVersion == None \notin Version
ASSUME FaultsType == Faults \subseteq {"backup", "api", "restore", "crash"}

VARIABLES
    prod, stage, backup,    \* sources of auto-awg-*, susanin-stage-*, susanin-backup-*
    sched,      \* the enabled schedulers
    job,        \* the version each running job executes
    on,         \* are the AUTO-AWG mangle rules enabled?
    residue,    \* the versions whose adaptive state is on the router
    desired,    \* the version the configuration renders to
    op,         \* the current or last command
    pc, at,     \* its phase and its place in the loop of the phase
    saved,      \* what it captured: old and new sources, schedulers
    result,     \* what it has reported
    unrestored  \* history: has a source once not been restored?

routerVars == <<prod, stage, backup, sched, job, on, residue>>
vars == <<routerVars, desired, op, pc, at, saved, result, unrestored>>

Slot == Version \cup {None}

TypeOK ==
    /\ prod \in [Script -> Version]
    /\ stage \in [Script -> Slot] /\ backup \in [Script -> Slot]
    /\ sched \subseteq Script
    /\ job \in [Script -> Slot]
    /\ on \in BOOLEAN
    /\ residue \in [Kind -> SUBSET Version]
    /\ desired \in Version
    /\ op \in {"none", "stage", "clean", "promote", "rollback"}
    /\ pc \in {"idle", "preclean", "add", "unstage", "backup", "copy", "pause",
               "wait", "write", "clean", "restore", "disable", "resume"}
    /\ at \in Nat
    /\ saved \in [old : [Script -> Slot], new : [Script -> Slot], sched : SUBSET Script]
    /\ result \in {"none", "ok", "failed", "open", "unsafe"}
    /\ unrestored \in BOOLEAN

Nothing == [s \in Script |-> None]

NoneSaved == [old |-> Nothing, new |-> Nothing, sched |-> {}]

Init ==
    /\ \E v \in Version : prod = [s \in Script |-> v] /\ desired = v
    /\ stage = Nothing /\ backup = Nothing
    /\ sched \in SUBSET Script
    /\ job = Nothing
    /\ on = TRUE
    /\ residue = [k \in Kind |-> {}]
    /\ op = "none" /\ pc = "idle" /\ at = 1
    /\ saved = NoneSaved
    /\ result = "none" /\ unrestored = FALSE

-----------------------------------------------------------------------------
(* The router beside the controller.                                        *)

StartJob(s) ==
    /\ s \in sched /\ job[s] = None
    /\ job' = [job EXCEPT ![s] = prod[s]]
    /\ UNCHANGED <<prod, stage, backup, sched, on, residue, desired, op, pc, at,
                   saved, result>>

EndJob(s) ==
    /\ job[s] # None
    /\ job' = [job EXCEPT ![s] = None]
    /\ UNCHANGED <<prod, stage, backup, sched, on, residue, desired, op, pc, at,
                   saved, result>>

\* A detector or JUDGE creates lazy rules and list entries while the AUTO-AWG
\* rules are enabled.
Learn(s, k) ==
    /\ job[s] # None /\ s # "health" /\ on /\ k # "marks"
    /\ residue' = [residue EXCEPT ![k] = @ \cup {job[s]}]
    /\ UNCHANGED <<prod, stage, backup, sched, job, on, desired, op, pc, at,
                   saved, result>>

\* Traffic to listed destinations is marked by the lazy rules.
MarkTraffic ==
    /\ on /\ residue["rules"] # {}
    /\ residue' = [residue EXCEPT !["marks"] = @ \cup residue["lists"]]
    /\ UNCHANGED <<prod, stage, backup, sched, job, on, desired, op, pc, at,
                   saved, result>>

\* HEALTH enables or disables the AUTO-AWG rules.
HealthSwitch ==
    /\ "health" \in Script /\ job["health"] # None
    /\ on' = ~on
    /\ UNCHANGED <<prod, stage, backup, sched, job, residue, desired, op, pc, at,
                   saved, result>>

\* "config set" needs no lock; a command that runs meanwhile has rendered its
\* sources when it began, so that only the next one sees the change.
Configure(v) ==
    /\ pc = "idle"
    /\ v # desired /\ desired' = v
    /\ UNCHANGED <<routerVars, op, pc, at, saved, result>>

-----------------------------------------------------------------------------
(* One command at a time, each loop in the order of Managed.                *)

ApiFails == "api" \in Faults
Here     == Managed[at]

\* The next script of the loop, or the next phase.
Step(next) ==
    IF at < Len(Managed) THEN at' = at + 1 /\ UNCHANGED pc
    ELSE at' = 1 /\ pc' = next

Go(phase) == at' = 1 /\ pc' = phase

Begin(command, phase) ==
    /\ pc = "idle"
    /\ op' = command /\ result' = "none"
    /\ Go(phase)
    /\ UNCHANGED <<routerVars, desired>>

\* Commands whose preconditions are not met change nothing and are left out.
StageBegin ==
    /\ Begin("stage", "preclean")
    /\ saved' = [old |-> prod, new |-> [s \in Script |-> desired], sched |-> sched]

StageCleanBegin ==
    /\ Begin("clean", "unstage")
    /\ UNCHANGED saved

\* Defect: the staged sources are not compared with the desired ones.
StageUnverified == TRUE

StageVerified == \A s \in Script : stage[s] = desired

PromoteBegin ==
    /\ StageVerified
    /\ Begin("promote", "backup")
    /\ saved' = [old |-> prod, new |-> [s \in Script |-> desired], sched |-> sched]

\* Defect: a missing backup goes unnoticed.
BackupsAssumed == TRUE

BackupsFound == \A s \in Script : backup[s] # None

RollbackBegin ==
    /\ BackupsFound
    /\ Begin("rollback", "pause")
    /\ saved' = [old |-> prod, new |-> backup, sched |-> sched]

Preclean ==
    /\ pc = "preclean"
    /\ \/ /\ stage' = [stage EXCEPT ![Here] = None]
          /\ Step("add")
          /\ UNCHANGED result
       \/ /\ ApiFails
          /\ Go("idle") /\ result' = "failed"
          /\ UNCHANGED stage
    /\ UNCHANGED <<prod, backup, sched, job, on, residue, desired, op>>

\* Added and read back; a failure removes every stage object again.
AddStage ==
    /\ pc = "add"
    /\ \/ /\ stage' = [stage EXCEPT ![Here] = saved.new[Here]]
          /\ Step("idle")
          /\ result' = IF at = Len(Managed) THEN "ok" ELSE result
       \/ /\ ApiFails
          /\ Go("unstage") /\ result' = "failed"
          /\ \/ UNCHANGED stage
             \/ stage' = [stage EXCEPT ![Here] = saved.new[Here]]
    /\ UNCHANGED <<prod, backup, sched, job, on, residue, desired, op>>

\* After a promotion, a failed stage or for stage-clean: every removal is tried.
Unstage ==
    /\ pc = "unstage"
    /\ \/ stage' = [stage EXCEPT ![Here] = None] /\ UNCHANGED result
       \/ /\ ApiFails /\ UNCHANGED stage
          /\ result' = IF op = "promote" THEN result ELSE "failed"
    /\ Step("idle")
    /\ UNCHANGED <<prod, backup, sched, job, on, residue, desired, op>>

\* A backup is removed and added again, so it may be missing in between.
RemoveBackup ==
    /\ pc = "backup"
    /\ \/ /\ backup' = [backup EXCEPT ![Here] = None]
          /\ pc' = "copy"
          /\ UNCHANGED <<at, result>>
       \/ /\ "backup" \in Faults
          /\ Go("idle") /\ result' = "failed"
          /\ backup' \in {backup, [backup EXCEPT ![Here] = None]}
    /\ UNCHANGED <<prod, stage, sched, job, on, residue, desired, op>>

AddBackup ==
    /\ pc = "copy"
    /\ \/ /\ backup' = [backup EXCEPT ![Here] = saved.old[Here]]
          /\ IF at < Len(Managed) THEN at' = at + 1 /\ pc' = "backup" ELSE Go("pause")
          /\ UNCHANGED result
       \/ /\ "backup" \in Faults
          /\ Go("idle") /\ result' = "failed"
          /\ backup' \in {backup, [backup EXCEPT ![Here] = saved.old[Here]]}
    /\ UNCHANGED <<prod, stage, sched, job, on, residue, desired, op>>

\* A scheduler that cannot be paused: the others get their state back.
Pause ==
    /\ pc = "pause"
    /\ \/ /\ sched' = sched \ {Here}
          /\ Step("wait")
          /\ UNCHANGED result
       \/ /\ ApiFails
          /\ Go("resume") /\ result' = "failed"
          /\ UNCHANGED sched
    /\ UNCHANGED <<prod, stage, backup, job, on, residue, desired, op>>

\* Defect: running jobs are not waited for.
IdleAssumed == TRUE

JobsIdle == \A s \in Script : job[s] = None

\* promote writes the sources and then clears the state, rollback the reverse.
WaitIdle ==
    /\ pc = "wait"
    /\ \/ /\ JobsIdle
          /\ Go(IF op = "promote" THEN "write" ELSE "clean")
          /\ UNCHANGED result
       \/ /\ ~JobsIdle \/ ApiFails
          /\ Go("resume") /\ result' = "failed"
    /\ UNCHANGED <<routerVars, desired, op>>

\* Set and read back.  promote takes back what it wrote and resumes; rollback
\* takes the AUTO-AWG rules out and leaves the schedulers paused.
WriteSource ==
    /\ pc = "write"
    /\ \/ /\ prod' = [prod EXCEPT ![Here] = saved.new[Here]]
          /\ Step(IF op = "promote" THEN "clean" ELSE "resume")
          /\ UNCHANGED result
       \/ /\ ApiFails
          /\ \/ UNCHANGED prod
             \/ prod' = [prod EXCEPT ![Here] = saved.new[Here]]
          /\ Go(IF op = "promote" THEN "restore" ELSE "disable")
          /\ result' = "failed"
    /\ UNCHANGED <<stage, backup, sched, job, on, residue, desired, op>>

\* Defects: the connections go first; or they are left alone.
MarksFirst == <<"marks", "lists", "rules">>
MarksKept  == <<"rules", "lists">>

\* Rules first, so that no connection is marked from a list any more.
CleanOrder == <<"rules", "lists", "marks">>

\* Lazy rules, lists and marked connections, each removed and read back until
\* nothing is left of it.
Clean ==
    /\ pc = "clean"
    /\ \/ /\ residue' = [residue EXCEPT ![CleanOrder[at]] = {}]
          /\ IF at < Len(CleanOrder) THEN at' = at + 1 /\ UNCHANGED pc
             ELSE Go(IF op = "promote" THEN "resume" ELSE "write")
          /\ UNCHANGED result
       \/ /\ ApiFails
          /\ \E v \in SUBSET residue[CleanOrder[at]] :
                residue' = [residue EXCEPT ![CleanOrder[at]] = v]
          /\ Go(IF op = "promote" THEN "restore" ELSE "disable")
          /\ result' = "unsafe"
    /\ UNCHANGED <<prod, stage, backup, sched, job, on, desired, op>>

\* Defect: the schedulers are resumed even after a failed cleanup.
AlwaysResumed(r) == "resume"

AfterRestore(r) == IF r = "unsafe" THEN "disable" ELSE "resume"

\* promote: the old sources, after a failed write or cleanup.  rollback: the
\* backups, best effort, after a failed cleanup.  Every script is tried.
RestoreSource ==
    /\ pc = "restore"
    /\ \/ /\ prod' = [prod EXCEPT ![Here] =
                        IF op = "promote" THEN saved.old[Here] ELSE saved.new[Here]]
          /\ UNCHANGED unrestored
       \/ "restore" \in Faults /\ UNCHANGED prod /\ unrestored' = TRUE
    /\ Step(IF op = "promote" THEN AfterRestore(result) ELSE "idle")
    /\ UNCHANGED <<stage, backup, sched, job, on, residue, desired, op, result>>

\* Fail-open: all AUTO-AWG rules disabled, and read back to report it.
DisableMangle ==
    /\ pc = "disable"
    /\ \/ on' = FALSE /\ result' = "open"
       \/ ApiFails /\ on' \in {on, FALSE} /\ result' = "unsafe"
    /\ Go(IF op = "rollback" /\ result = "unsafe" THEN "restore" ELSE "idle")
    /\ UNCHANGED <<prod, stage, backup, sched, job, residue, desired, op>>

\* Every scheduler gets the state it was found in; errors are not looked at.
Resume ==
    /\ pc = "resume"
    /\ \/ sched' = IF Here \in saved.sched THEN sched \cup {Here} ELSE sched \ {Here}
       \/ ApiFails /\ UNCHANGED sched
    /\ Step(IF op = "promote" /\ result = "none" THEN "unstage" ELSE "idle")
    /\ result' = IF at = Len(Managed) /\ result = "none" THEN "ok" ELSE result
    /\ UNCHANGED <<prod, stage, backup, job, on, residue, desired, op>>

\* The controller dies; what it captured is lost with it.
Crash ==
    /\ "crash" \in Faults /\ pc # "idle"
    /\ Go("idle") /\ op' = "none" /\ result' = "none"
    /\ saved' = NoneSaved
    /\ UNCHANGED <<routerVars, desired>>

\* What a command captured goes with it when it ends.
Captured == saved' = IF pc' = "idle" THEN NoneSaved ELSE saved

Command ==
    \/ Preclean \/ AddStage \/ Unstage
    \/ RemoveBackup \/ AddBackup
    \/ Pause \/ WaitIdle \/ WriteSource \/ Clean
    \/ DisableMangle \/ Resume

Start == StageBegin \/ StageCleanBegin \/ PromoteBegin \/ RollbackBegin

Router ==
    \/ \E s \in Script :
          StartJob(s) \/ EndJob(s) \/ \E k \in Kind : Learn(s, k)
    \/ MarkTraffic \/ HealthSwitch
    \/ \E v \in Version : Configure(v)

Next ==
    \/ Command /\ Captured /\ UNCHANGED unrestored
    \/ RestoreSource /\ Captured
    \/ (Start \/ Crash \/ Router) /\ UNCHANGED unrestored

Spec == Init /\ [][Next]_vars

-----------------------------------------------------------------------------
(* What a migration promises.                                               *)

\* Unless a source could not be restored: while a job runs, its script is the one
\* it was started from, and all adaptive state was written by versions that are in
\* production.  No decision of a profile that was replaced is taken for evidence
\* of the one that replaced it.
StateOfRunningVersion ==
    ~unrestored => \A s \in Script : job[s] # None =>
        /\ job[s] = prod[s]
        /\ \A k \in Kind : residue[k] \subseteq {prod[r] : r \in Script}

\* Jobs that run beside each other are of one version.
OneVersionRuns ==
    \A r, s \in Script : job[r] # None /\ job[s] # None => job[r] = job[s]

\* No managed job runs, nor can start, while sources are written or adaptive
\* state is cleared.
QuietWhileMutating ==
    pc \in {"write", "clean", "restore", "disable"} => sched = {} /\ \A s \in Script : job[s] = None

\* A cleanup that could not be verified, or a rollback that could not restore,
\* leaves the schedulers paused, and AUTO-AWG disabled where it says so.
UnverifiedStaysOpen ==
    /\ result \in {"open", "unsafe"} =>
          sched = {} /\ \A s \in Script : job[s] = None
    /\ result = "open" => ~on

\* Production is only given, beside what it had, sources that were staged and
\* verified in the form they are now, or that it had before.
OnlyStagedIsPromoted ==
    [][\A s \in Script : prod'[s] # prod[s] =>
          prod'[s] \in {stage[s], backup[s]}]_vars

\* When promote or rollback lets the schedulers resume after a success, nothing
\* is left of the adaptive state, although traffic went on while it was cleared.
ResumesClean ==
    pc = "resume" /\ at = 1 /\ result = "none" =>
        \A k \in Kind : residue[k] = {}

\* The whole of it: whatever commands, failures and crashes interleave with jobs and
\* traffic, sources and state change hands as Handover says.
H == INSTANCE Handover WITH code <- prod, enabled <- sched, runs <- job,
                            state <- residue, broken <- unrestored
ImplementsHandover == H!Spec

=============================================================================
