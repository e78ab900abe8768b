-------------------------- MODULE MigrationProofs --------------------------
(***************************************************************************)
(* Theorems about Migration: nothing runs while sources and state change,  *)
(* what was not verified stays paused and open, schedulers resume on no    *)
(* state, only staged and former sources are written, and no version meets *)
(* the state of another.  If promotions end their backups, jobs that run   *)
(* beside each other are of one version.                                   *)
(***************************************************************************)
EXTENDS Migration, TLAPS

\* No managed job runs, nor can start.
Still == sched = {} /\ \A s \in Script : job[s] = None

\* The phases that visit the scripts one by one; those in which a command works
\* on the production objects; those in which it changes sources and state.
Visiting  == {"preclean", "add", "unstage", "backup", "copy", "pause", "write",
              "restore", "resume"}
Replacing == {"pause", "wait", "write", "clean", "restore", "disable", "resume"}
Mutating  == {"write", "clean", "restore", "disable"}

\* A loop is at one of its elements.
LoopFits ==
    /\ pc \in Visiting => at \in DOMAIN Managed
    /\ pc = "clean" => at \in DOMAIN CleanOrder

\* A phase belongs to a command, and the command has captured sources.
CommandFits ==
    /\ pc \in {"preclean", "add"} => op = "stage"
    /\ pc \in {"backup", "copy"} => op = "promote"
    /\ pc \in Replacing => op \in {"promote", "rollback"}
    /\ pc # "idle" /\ op = "promote" => saved.old \in [Script -> Version]
    /\ pc # "idle" /\ op \in {"promote", "rollback"} => saved.new \in [Script -> Version]

\* What a command may have reported so far.
ResultFits ==
    /\ pc \in {"preclean", "add", "backup", "copy", "pause", "wait", "write", "clean"} =>
          result = "none"
    /\ pc = "restore" /\ op = "promote" => result \in {"failed", "unsafe"}
    /\ pc = "resume" => result \in {"none", "failed"}
    /\ pc = "unstage" => result \notin {"open", "unsafe"}

\* The inductive invariant behind TypeOK.
TypeInv == TypeOK /\ LoopFits /\ CommandFits /\ ResultFits

\* The inductive invariant of the pauses: the schedulers are paused one by one,
\* then the jobs are waited for, and only a resume lets them start again.
QuietInv ==
    /\ TypeInv
    /\ pc = "pause" => \A i \in DOMAIN Managed : i < at => Managed[i] \notin sched
    /\ pc = "wait" => sched = {}
    /\ pc = "resume" /\ at = 1 /\ result = "none" => Still
    /\ QuietWhileMutating
    /\ UnverifiedStaysOpen

\* The inductive invariant of the cleanup: a kind that was cleared stays clear.
CleanInv ==
    /\ QuietInv
    /\ pc = "clean" => \A i \in DOMAIN CleanOrder : i < at => residue[CleanOrder[i]] = {}
    /\ pc = "write" /\ op = "rollback" => \A k \in Kind : residue[k] = {}
    /\ ResumesClean

\* The inductive invariant of the sources: those a command writes are staged or
\* backed up while it does.
SourceInv ==
    /\ TypeInv
    /\ op = "promote" /\ pc \in {"backup", "copy", "pause", "wait", "write"} =>
          \A s \in Script : stage[s] = saved.new[s]
    /\ pc \in {"backup", "copy"} =>
          \A i \in DOMAIN Managed : i < at => backup[Managed[i]] = saved.old[Managed[i]]
    /\ op = "promote" /\ pc \in {"pause", "wait", "write", "clean", "restore"} =>
          \A s \in Script : backup[s] = saved.old[s]
    /\ op = "rollback" /\ pc \in {"pause", "wait", "write", "clean", "restore", "disable"} =>
          \A s \in Script : backup[s] = saved.new[s]

\* All adaptive state was written by some of the sources.
WrittenBy(src) == \A k \in Kind : residue[k] \subseteq {src[r] : r \in Script}

\* Something of the managed scripts may run, now or after the command.
MayRun == sched # {} \/ saved.sched # {} \/ \E s \in Script : job[s] # None

\* The inductive invariant of the state: whatever may run again finds state of
\* its own version; while promote changes the sources this is said of the old
\* ones, which it puts back unless everything was cleared.
StateInv ==
    /\ CleanInv
    /\ ~unrestored =>
          /\ \A s \in Script : job[s] \in {None, prod[s]}
          /\ pc \notin Mutating /\ MayRun => WrittenBy(prod)
          /\ op = "promote" /\ pc \in {"write", "clean", "restore"} /\ saved.sched # {} =>
                WrittenBy(saved.old)
          /\ op = "promote" /\ pc \in {"backup", "copy", "pause", "wait"} =>
                \A s \in Script : prod[s] = saved.old[s]
          /\ op = "promote" /\ pc = "restore" =>
                \A i \in DOMAIN Managed : i < at => prod[Managed[i]] = saved.old[Managed[i]]

\* All scripts have one source.
Uniform(src) == \A r, s \in Script : src[r] = src[s]

\* The sources that are and may come to be in production are each of one version,
\* save while a command is exchanging them.
AllOfOne ==
    /\ pc \notin Mutating => Uniform(prod)
    /\ pc \notin {"backup", "copy"} => Uniform(backup)
    /\ Uniform(saved.old) /\ Uniform(saved.new)
    /\ pc = "write" =>
          \A i \in DOMAIN Managed : i < at => prod[Managed[i]] = saved.new[Managed[i]]
    /\ op = "promote" /\ pc = "clean" => \A s \in Script : prod[s] = saved.new[s]

\* The inductive invariant of the one version: what may run again is of one.
OneInv == StateInv /\ SourceInv /\ (~unrestored /\ MayRun => AllOfOne)

\* No promote is given up or dies between two of its backups.
BackupEnds    == pc \in {"backup", "copy"} => pc' # "idle"
BackupsFinish == [][BackupEnds]_vars

-----------------------------------------------------------------------------
(* The managed scripts.                                                     *)

\* Loops go from the first script to the last and visit every one.
LEMMA Scripts ==
    /\ Len(Managed) \in Nat /\ Len(Managed) >= 1
    /\ DOMAIN Managed = 1..Len(Managed)
    /\ \A i \in DOMAIN Managed : Managed[i] \in Script
    /\ \A s \in Script : \E i \in DOMAIN Managed : s = Managed[i]
    /\ \A i, j \in DOMAIN Managed : Managed[i] = Managed[j] => i = j
  BY ManagedType DEF Script

\* The cleanup visits every kind.
LEMMA Kinds ==
    /\ DOMAIN CleanOrder = 1..3 /\ Len(CleanOrder) = 3
    /\ \A i \in DOMAIN CleanOrder : CleanOrder[i] \in Kind
    /\ \A k \in Kind : \E i \in DOMAIN CleanOrder : k = CleanOrder[i]
<1>1. /\ CleanOrder[1] = "rules" /\ CleanOrder[2] = "lists" /\ CleanOrder[3] = "marks"
      /\ DOMAIN CleanOrder = 1..3 /\ Len(CleanOrder) = 3
  BY DEF CleanOrder
<1> QED
  BY <1>1 DEF Kind

-----------------------------------------------------------------------------
(* Types.                                                                   *)

\* The fresh router is of its type.
LEMMA TypeInit == Init => TypeInv
<1> SUFFICES ASSUME Init PROVE TypeInv
  OBVIOUS
<1>1. saved \in [old : [Script -> Slot], new : [Script -> Slot], sched : SUBSET Script]
  BY DEF Init, Nothing, NoneSaved, Slot
<1>2. TypeOK
  BY <1>1 DEF Init, Nothing, Slot, TypeOK
<1> QED
  BY <1>2 DEF Init, TypeInv, LoopFits, CommandFits, ResultFits, Visiting, Replacing

\* A command forgets what it has captured when it ends, and not before.
LEMMA Keeps ==
    ASSUME TypeInv, Captured
    PROVE  /\ saved' \in [old : [Script -> Slot], new : [Script -> Slot], sched : SUBSET Script]
           /\ pc' # "idle" => saved' = saved
           /\ pc' = "idle" => saved' = NoneSaved
<1>1. NoneSaved \in [old : [Script -> Slot], new : [Script -> Slot], sched : SUBSET Script]
  BY DEF Nothing, NoneSaved, Slot
<1> QED
  BY <1>1 DEF Captured, TypeInv, TypeOK

\* A loop is at a script of its own,
LEMMA Visits ==
    ASSUME TypeInv, pc \in Visiting
    PROVE  Here \in Script /\ at \in 1..Len(Managed)
  BY Scripts DEF TypeInv, LoopFits, Here

\* goes on to the next one, or to the next phase,
LEMMA StepFits ==
    ASSUME TypeInv, pc \in Visiting, NEW next, Step(next)
    PROVE  /\ LoopFits' /\ at' \in Nat /\ pc' \in {pc, next}
           /\ \/ at < Len(Managed) /\ at' = at + 1 /\ pc' = pc
              \/ at = Len(Managed) /\ at' = 1 /\ pc' = next
<1>1. at \in 1..Len(Managed) /\ Len(Managed) \in Nat
  BY Visits, Scripts
<1>2. \/ at < Len(Managed) /\ at' = at + 1 /\ pc' = pc
      \/ at = Len(Managed) /\ at' = 1 /\ pc' = next
  BY <1>1 DEF Step
<1>3. at' \in 1..Len(Managed) /\ at' \in Nat /\ pc' \in {pc, next}
  BY <1>1, <1>2
<1>4. pc' = "clean" => at' \in DOMAIN CleanOrder
  BY <1>2, Kinds DEF Visiting
<1> QED
  BY <1>2, <1>3, <1>4, Scripts DEF LoopFits

\* where it begins with the first.
LEMMA GoFits ==
    ASSUME NEW phase, Go(phase)
    PROVE  LoopFits' /\ at' \in Nat /\ pc' = phase
  BY Scripts, Kinds DEF Go, LoopFits

\* Every step keeps the types and the places.
LEMMA TypeStep ==
    ASSUME TypeInv, [Next]_vars PROVE TypeInv'
<1>1. ASSUME NEW s \in Script, StartJob(s), UNCHANGED unrestored PROVE TypeInv'
  BY <1>1, Scripts
     DEF StartJob, Slot, TypeInv, TypeOK, LoopFits, CommandFits, ResultFits,
         Visiting, Replacing
<1>2. ASSUME NEW s \in Script, EndJob(s), UNCHANGED unrestored PROVE TypeInv'
  BY <1>2, Scripts
     DEF EndJob, Slot, TypeInv, TypeOK, LoopFits, CommandFits, ResultFits, Visiting,
         Replacing
<1>3. ASSUME NEW s \in Script, NEW k \in Kind, Learn(s, k), UNCHANGED unrestored
      PROVE  TypeInv'
  BY <1>3, Scripts
     DEF Learn, Slot, Kind, TypeInv, TypeOK, LoopFits, CommandFits, ResultFits,
         Visiting, Replacing
<1>4. ASSUME MarkTraffic, UNCHANGED unrestored PROVE TypeInv'
  BY <1>4, Scripts
     DEF MarkTraffic, Slot, Kind, TypeInv, TypeOK, LoopFits, CommandFits,
         ResultFits, Visiting, Replacing
<1>5. ASSUME HealthSwitch, UNCHANGED unrestored PROVE TypeInv'
  BY <1>5, Scripts
     DEF HealthSwitch, TypeInv, TypeOK, LoopFits, CommandFits, ResultFits, Visiting,
         Replacing
<1>6. ASSUME NEW v \in Version, Configure(v), UNCHANGED unrestored PROVE TypeInv'
  BY <1>6, Scripts
     DEF Configure, routerVars, TypeInv, TypeOK, LoopFits, CommandFits, ResultFits,
         Visiting, Replacing
<1>7. ASSUME StageBegin, UNCHANGED unrestored PROVE TypeInv'
  BY <1>7, Scripts
     DEF StageBegin, Begin, Go, Slot, routerVars, TypeInv, TypeOK, LoopFits,
         CommandFits, ResultFits, Visiting, Replacing
<1>8. ASSUME StageCleanBegin, UNCHANGED unrestored PROVE TypeInv'
  BY <1>8, Scripts
     DEF StageCleanBegin, Begin, Go, Slot, routerVars, TypeInv, TypeOK, LoopFits,
         CommandFits, ResultFits, Visiting, Replacing
<1>9. ASSUME PromoteBegin, UNCHANGED unrestored PROVE TypeInv'
  BY <1>9, Scripts
     DEF PromoteBegin, Begin, Go, Slot, routerVars, StageVerified, TypeInv, TypeOK,
         LoopFits, CommandFits, ResultFits, Visiting, Replacing
<1>10. ASSUME RollbackBegin, UNCHANGED unrestored PROVE TypeInv'
  BY <1>10, Scripts
     DEF RollbackBegin, Begin, Go, Slot, routerVars, BackupsFound, TypeInv, TypeOK,
         LoopFits, CommandFits, ResultFits, Visiting, Replacing
<1>11. ASSUME Preclean, Captured, UNCHANGED unrestored PROVE TypeInv'
  <2>1. /\ Here \in Script /\ at' \in Nat /\ LoopFits'
        /\ pc' \in {pc, "add", "idle", "wait", "clean", "resume", "restore", "unstage",
                    "disable"}
    BY <1>11, Visits, StepFits, GoFits DEF Preclean, Visiting, TypeInv, Go
  <2>2. TypeOK'
    BY <1>11, Keeps, <2>1
       DEF Preclean, Step, Go, Slot, TypeInv, TypeOK, CommandFits, Visiting,
           Replacing
  <2>3. CommandFits'
    BY <1>11, Keeps, <2>1
       DEF Preclean, Step, Go, TypeInv, CommandFits, Visiting, Replacing
  <2>4. ResultFits'
    BY <1>11, Keeps, <2>1
       DEF Preclean, Step, Go, TypeInv, ResultFits, CommandFits, Visiting, Replacing
  <2> QED
    BY <2>1, <2>2, <2>3, <2>4 DEF TypeInv
<1>12. ASSUME AddStage, Captured, UNCHANGED unrestored PROVE TypeInv'
  <2>1. /\ Here \in Script /\ at' \in Nat /\ LoopFits'
        /\ pc' \in {pc, "add", "idle", "wait", "clean", "resume", "restore", "unstage",
                    "disable"}
    BY <1>12, Visits, StepFits, GoFits DEF AddStage, Visiting, TypeInv, Go
  <2>2. TypeOK'
    BY <1>12, Keeps, <2>1
       DEF AddStage, Step, Go, Slot, TypeInv, TypeOK, CommandFits, Visiting,
           Replacing
  <2>3. CommandFits'
    BY <1>12, Keeps, <2>1
       DEF AddStage, Step, Go, TypeInv, CommandFits, Visiting, Replacing
  <2>4. ResultFits'
    BY <1>12, Keeps, <2>1
       DEF AddStage, Step, Go, TypeInv, ResultFits, CommandFits, Visiting, Replacing
  <2> QED
    BY <2>1, <2>2, <2>3, <2>4 DEF TypeInv
<1>13. ASSUME Unstage, Captured, UNCHANGED unrestored PROVE TypeInv'
  <2>1. /\ Here \in Script /\ at' \in Nat /\ LoopFits'
        /\ pc' \in {pc, "add", "idle", "wait", "clean", "resume", "restore", "unstage",
                    "disable"}
    BY <1>13, Visits, StepFits, GoFits DEF Unstage, Visiting, TypeInv, Go
  <2>2. TypeOK'
    BY <1>13, Keeps, <2>1
       DEF Unstage, Step, Go, Slot, TypeInv, TypeOK, CommandFits, Visiting,
           Replacing
  <2>3. CommandFits'
    BY <1>13, Keeps, <2>1
       DEF Unstage, Step, Go, TypeInv, CommandFits, Visiting, Replacing
  <2>4. ResultFits'
    BY <1>13, Keeps, <2>1
       DEF Unstage, Step, Go, TypeInv, ResultFits, CommandFits, Visiting, Replacing
  <2> QED
    BY <2>1, <2>2, <2>3, <2>4 DEF TypeInv
<1>14. ASSUME RemoveBackup, Captured, UNCHANGED unrestored PROVE TypeInv'
  <2>1. Here \in Script /\ at' \in Nat /\ LoopFits'
    BY <1>14, Visits, StepFits, GoFits, Scripts
       DEF RemoveBackup, Visiting, TypeInv, LoopFits, Go
  <2>2. TypeOK'
    BY <1>14, Keeps, <2>1
       DEF RemoveBackup, Go, Slot, TypeInv, TypeOK, CommandFits, Visiting, Replacing
  <2>3. CommandFits'
    BY <1>14, Keeps, <2>1
       DEF RemoveBackup, Go, TypeInv, CommandFits, Visiting, Replacing
  <2>4. ResultFits'
    BY <1>14, Keeps, <2>1
       DEF RemoveBackup, Go, TypeInv, ResultFits, CommandFits, Visiting, Replacing
  <2> QED
    BY <2>1, <2>2, <2>3, <2>4 DEF TypeInv
<1>15. ASSUME AddBackup, Captured, UNCHANGED unrestored PROVE TypeInv'
  <2>1. Here \in Script /\ at' \in Nat /\ LoopFits'
    BY <1>15, Visits, StepFits, GoFits, Scripts
       DEF AddBackup, Visiting, TypeInv, LoopFits, Go
  <2>2. TypeOK'
    BY <1>15, Keeps, <2>1
       DEF AddBackup, Go, Slot, TypeInv, TypeOK, CommandFits, Visiting, Replacing
  <2>3. CommandFits'
    BY <1>15, Keeps, <2>1
       DEF AddBackup, Go, TypeInv, CommandFits, Visiting, Replacing
  <2>4. ResultFits'
    BY <1>15, Keeps, <2>1
       DEF AddBackup, Go, TypeInv, ResultFits, CommandFits, Visiting, Replacing
  <2> QED
    BY <2>1, <2>2, <2>3, <2>4 DEF TypeInv
<1>16. ASSUME Pause, Captured, UNCHANGED unrestored PROVE TypeInv'
  <2>1. /\ Here \in Script /\ at' \in Nat /\ LoopFits'
        /\ pc' \in {pc, "add", "idle", "wait", "clean", "resume", "restore", "unstage",
                    "disable"}
    BY <1>16, Visits, StepFits, GoFits DEF Pause, Visiting, TypeInv, Go
  <2>2. TypeOK'
    BY <1>16, Keeps, <2>1
       DEF Pause, Step, Go, Slot, TypeInv, TypeOK, CommandFits, Visiting, Replacing
  <2>3. CommandFits'
    BY <1>16, Keeps, <2>1
       DEF Pause, Step, Go, TypeInv, CommandFits, Visiting, Replacing
  <2>4. ResultFits'
    BY <1>16, Keeps, <2>1
       DEF Pause, Step, Go, TypeInv, ResultFits, CommandFits, Visiting, Replacing
  <2> QED
    BY <2>1, <2>2, <2>3, <2>4 DEF TypeInv
<1>17. ASSUME WaitIdle, Captured, UNCHANGED unrestored PROVE TypeInv'
  <2>1. at' \in Nat /\ LoopFits'
    BY <1>17, GoFits DEF WaitIdle, routerVars, Go
  <2>2. TypeOK'
    BY <1>17, Keeps, <2>1
       DEF WaitIdle, routerVars, Go, Slot, TypeInv, TypeOK, CommandFits, Visiting,
           Replacing
  <2>3. CommandFits'
    BY <1>17, Keeps, <2>1
       DEF WaitIdle, routerVars, Go, TypeInv, CommandFits, Visiting, Replacing
  <2>4. ResultFits'
    BY <1>17, Keeps, <2>1
       DEF WaitIdle, routerVars, Go, TypeInv, ResultFits, CommandFits, Visiting,
           Replacing
  <2> QED
    BY <2>1, <2>2, <2>3, <2>4 DEF TypeInv
<1>18. ASSUME WriteSource, Captured, UNCHANGED unrestored PROVE TypeInv'
  <2>1. /\ Here \in Script /\ at' \in Nat /\ LoopFits'
        /\ pc' \in {pc, "add", "idle", "wait", "clean", "resume", "restore", "unstage",
                    "disable"}
    BY <1>18, Visits, StepFits, GoFits DEF WriteSource, Visiting, TypeInv, Go
  <2>2. /\ saved.new \in [Script -> Version]
        /\ op = "promote" => saved.old \in [Script -> Version]
    BY <1>18 DEF WriteSource, TypeInv, CommandFits, Replacing
  <2>3. prod' \in [Script -> Version]
    BY <1>18, <2>1, <2>2 DEF WriteSource, TypeInv, TypeOK
  <2>4. TypeOK'
    BY <1>18, Keeps, <2>1, <2>3 DEF WriteSource, Go, TypeInv, TypeOK
  <2>5. CommandFits'
    BY <1>18, Keeps, <2>1
       DEF WriteSource, Step, Go, TypeInv, CommandFits, Visiting, Replacing
  <2>6. ResultFits'
    BY <1>18, Keeps, <2>1
       DEF WriteSource, Step, Go, TypeInv, ResultFits, CommandFits, Visiting,
           Replacing
  <2> QED
    BY <2>1, <2>4, <2>5, <2>6 DEF TypeInv
<1>19. ASSUME Clean, Captured, UNCHANGED unrestored PROVE TypeInv'
  <2>1. CleanOrder[at] \in Kind /\ at' \in Nat /\ LoopFits'
    BY <1>19, Kinds, GoFits DEF Clean, Visiting, TypeInv, LoopFits, Go
  <2>2. TypeOK'
    BY <1>19, Keeps, <2>1
       DEF Clean, Go, Slot, TypeInv, TypeOK, CommandFits, Visiting, Replacing
  <2>3. CommandFits'
    BY <1>19, Keeps, <2>1 DEF Clean, Go, TypeInv, CommandFits, Visiting, Replacing
  <2>4. ResultFits'
    BY <1>19, Keeps, <2>1
       DEF Clean, Go, TypeInv, ResultFits, CommandFits, Visiting, Replacing
  <2> QED
    BY <2>1, <2>2, <2>3, <2>4 DEF TypeInv
<1>20. ASSUME DisableMangle, Captured, UNCHANGED unrestored PROVE TypeInv'
  <2>1. at' \in Nat /\ LoopFits'
    BY <1>20, GoFits DEF DisableMangle, Go
  <2>2. TypeOK'
    BY <1>20, Keeps, <2>1
       DEF DisableMangle, Go, Slot, TypeInv, TypeOK, CommandFits, Visiting,
           Replacing
  <2>3. CommandFits'
    BY <1>20, Keeps, <2>1
       DEF DisableMangle, Go, TypeInv, CommandFits, Visiting, Replacing
  <2>4. ResultFits'
    BY <1>20, Keeps, <2>1
       DEF DisableMangle, Go, TypeInv, ResultFits, CommandFits, Visiting, Replacing
  <2> QED
    BY <2>1, <2>2, <2>3, <2>4 DEF TypeInv
<1>21. ASSUME Resume, Captured, UNCHANGED unrestored PROVE TypeInv'
  <2>1. /\ Here \in Script /\ at' \in Nat /\ LoopFits'
        /\ pc' \in {pc, "add", "idle", "wait", "clean", "resume", "restore", "unstage",
                    "disable"}
    BY <1>21, Visits, StepFits, GoFits DEF Resume, Visiting, TypeInv, Go
  <2>2. TypeOK'
    BY <1>21, Keeps, <2>1
       DEF Resume, Step, Go, Slot, TypeInv, TypeOK, CommandFits, Visiting, Replacing
  <2>3. CommandFits'
    BY <1>21, Keeps, <2>1
       DEF Resume, Step, Go, TypeInv, CommandFits, Visiting, Replacing
  <2>4. ResultFits'
    BY <1>21, Keeps, <2>1
       DEF Resume, Step, Go, TypeInv, ResultFits, CommandFits, Visiting, Replacing
  <2> QED
    BY <2>1, <2>2, <2>3, <2>4 DEF TypeInv
<1>22. ASSUME RestoreSource, Captured PROVE TypeInv'
  <2>1. /\ Here \in Script /\ at' \in Nat /\ LoopFits'
        /\ pc' \in {pc, "add", "idle", "wait", "clean", "resume", "restore", "unstage",
                    "disable"}
    BY <1>22, Visits, StepFits, GoFits
       DEF RestoreSource, AfterRestore, Visiting, TypeInv, Go
  <2>2. /\ saved.new \in [Script -> Version]
        /\ op = "promote" => saved.old \in [Script -> Version]
    BY <1>22 DEF RestoreSource, AfterRestore, TypeInv, CommandFits, Replacing
  <2>3. prod' \in [Script -> Version]
    BY <1>22, <2>1, <2>2 DEF RestoreSource, AfterRestore, TypeInv, TypeOK
  <2>4. TypeOK'
    BY <1>22, Keeps, <2>1, <2>3 DEF RestoreSource, AfterRestore, Go, TypeInv, TypeOK
  <2>5. CommandFits'
    BY <1>22, Keeps, <2>1
       DEF RestoreSource, AfterRestore, Step, Go, TypeInv, CommandFits, Visiting,
           Replacing
  <2>6. ResultFits'
    BY <1>22, Keeps, <2>1
       DEF RestoreSource, AfterRestore, Step, Go, TypeInv, ResultFits, CommandFits,
           Visiting, Replacing
  <2> QED
    BY <2>1, <2>4, <2>5, <2>6 DEF TypeInv
<1>23. ASSUME Crash, UNCHANGED unrestored PROVE TypeInv'
  BY <1>23, Scripts
     DEF Crash, Go, Captured, NoneSaved, Nothing, Slot, routerVars, TypeInv, TypeOK,
         LoopFits, CommandFits, ResultFits, Visiting, Replacing
<1>24. ASSUME UNCHANGED vars PROVE TypeInv'
  BY <1>24
     DEF vars, routerVars, TypeInv, TypeOK, LoopFits, CommandFits, ResultFits,
         Visiting, Replacing
<1> QED
  BY <1>1, <1>2, <1>3, <1>4, <1>5, <1>6, <1>7, <1>8, <1>9, <1>10, <1>11, <1>12,
     <1>13, <1>14, <1>15, <1>16, <1>17, <1>18, <1>19, <1>20, <1>21, <1>22, <1>23,
     <1>24
     DEF Next, Command, Start, Router

\* The variables of Migration keep their types: every managed script has a
\* source at any time, whatever fails.
THEOREM TypeCorrect == Spec => []TypeOK
<1>1. TypeInv => TypeOK
  BY DEF TypeInv
<1> QED
  BY <1>1, TypeInit, TypeStep, PTL DEF Spec

-----------------------------------------------------------------------------
(* Pauses.                                                                  *)

\* Nothing is paused on the fresh router.
LEMMA QuietInit == Init => QuietInv
  BY TypeInit DEF Init, QuietInv, QuietWhileMutating, UnverifiedStaysOpen

\* Every step keeps what is paused.
LEMMA QuietStep ==
    ASSUME QuietInv, [Next]_vars PROVE QuietInv'
<1>0. TypeInv /\ TypeInv'
  BY TypeStep DEF QuietInv
<1>1. ASSUME NEW s \in Script, StartJob(s), UNCHANGED unrestored PROVE QuietInv'
  BY <1>1, <1>0
     DEF StartJob, QuietInv, Still, QuietWhileMutating, UnverifiedStaysOpen,
         TypeInv, TypeOK, CommandFits, ResultFits, Replacing
<1>2. ASSUME NEW s \in Script, EndJob(s), UNCHANGED unrestored PROVE QuietInv'
  BY <1>2, <1>0
     DEF EndJob, QuietInv, Still, QuietWhileMutating, UnverifiedStaysOpen, TypeInv,
         TypeOK, CommandFits, ResultFits, Replacing
<1>3. ASSUME NEW s \in Script, NEW k \in Kind, Learn(s, k), UNCHANGED unrestored
      PROVE  QuietInv'
  BY <1>3, <1>0
     DEF Learn, QuietInv, Still, QuietWhileMutating, UnverifiedStaysOpen, TypeInv,
         TypeOK, CommandFits, ResultFits, Replacing
<1>4. ASSUME MarkTraffic, UNCHANGED unrestored PROVE QuietInv'
  BY <1>4, <1>0
     DEF MarkTraffic, QuietInv, Still, QuietWhileMutating, UnverifiedStaysOpen,
         TypeInv, TypeOK, CommandFits, ResultFits, Replacing
<1>5. ASSUME HealthSwitch, UNCHANGED unrestored PROVE QuietInv'
  BY <1>5, <1>0
     DEF HealthSwitch, QuietInv, Still, QuietWhileMutating, UnverifiedStaysOpen,
         TypeInv, TypeOK, CommandFits, ResultFits, Replacing
<1>6. ASSUME NEW v \in Version, Configure(v), UNCHANGED unrestored PROVE QuietInv'
  BY <1>6, <1>0
     DEF Configure, routerVars, QuietInv, Still, QuietWhileMutating,
         UnverifiedStaysOpen, TypeInv, TypeOK, CommandFits, ResultFits, Replacing
<1>7. ASSUME StageBegin, UNCHANGED unrestored PROVE QuietInv'
  BY <1>7, <1>0
     DEF StageBegin, Begin, Go, routerVars, QuietInv, Still, QuietWhileMutating,
         UnverifiedStaysOpen, TypeInv, TypeOK, CommandFits, ResultFits, Replacing
<1>8. ASSUME StageCleanBegin, UNCHANGED unrestored PROVE QuietInv'
  BY <1>8, <1>0
     DEF StageCleanBegin, Begin, Go, routerVars, QuietInv, Still,
         QuietWhileMutating, UnverifiedStaysOpen, TypeInv, TypeOK, CommandFits,
         ResultFits, Replacing
<1>9. ASSUME PromoteBegin, UNCHANGED unrestored PROVE QuietInv'
  BY <1>9, <1>0
     DEF PromoteBegin, Begin, Go, routerVars, QuietInv, Still, QuietWhileMutating,
         UnverifiedStaysOpen, TypeInv, TypeOK, CommandFits, ResultFits, Replacing
<1>10. ASSUME RollbackBegin, UNCHANGED unrestored PROVE QuietInv'
  BY <1>10, <1>0, Scripts
     DEF RollbackBegin, Begin, Go, routerVars, QuietInv, QuietWhileMutating,
         UnverifiedStaysOpen
<1>11. ASSUME Preclean, Captured, UNCHANGED unrestored PROVE QuietInv'
  BY <1>11, <1>0
     DEF Preclean, Step, Go, QuietInv, Still, QuietWhileMutating,
         UnverifiedStaysOpen, TypeInv, TypeOK, CommandFits, ResultFits, Replacing
<1>12. ASSUME AddStage, Captured, UNCHANGED unrestored PROVE QuietInv'
  BY <1>12, <1>0
     DEF AddStage, Step, Go, QuietInv, Still, QuietWhileMutating,
         UnverifiedStaysOpen, TypeInv, TypeOK, CommandFits, ResultFits, Replacing
<1>13. ASSUME Unstage, Captured, UNCHANGED unrestored PROVE QuietInv'
  BY <1>13, <1>0
     DEF Unstage, Step, Go, QuietInv, Still, QuietWhileMutating,
         UnverifiedStaysOpen, TypeInv, TypeOK, CommandFits, ResultFits, Replacing
<1>14. ASSUME RemoveBackup, Captured, UNCHANGED unrestored PROVE QuietInv'
  BY <1>14, <1>0
     DEF RemoveBackup, Go, QuietInv, Still, QuietWhileMutating, UnverifiedStaysOpen,
         TypeInv, TypeOK, CommandFits, ResultFits, Replacing
<1>15. ASSUME AddBackup, Captured, UNCHANGED unrestored PROVE QuietInv'
  BY <1>15, <1>0
     DEF AddBackup, Go, QuietInv, Still, QuietWhileMutating, UnverifiedStaysOpen,
         TypeInv, TypeOK, CommandFits, ResultFits, Replacing
<1>16. ASSUME Pause, Captured, UNCHANGED unrestored PROVE QuietInv'
  <2>1. pc = "pause" /\ result = "none"
    BY <1>16, <1>0 DEF Pause, TypeInv, ResultFits
  <2>2. CASE sched' = sched \ {Here} /\ Step("wait") /\ UNCHANGED result
    <3>1. \/ at' = at + 1 /\ pc' = "pause"
          \/ at = Len(Managed) /\ pc' = "wait"
      BY <1>0, <2>1, <2>2, StepFits DEF Visiting
    <3>2. \A i \in DOMAIN Managed : i < at + 1 => Managed[i] \notin sched'
      BY <1>0, <2>1, <2>2, Visits, Scripts DEF Visiting, QuietInv, Here
    <3>3. pc' = "wait" => sched' = {}
      BY <1>0, <2>2, <3>1, <3>2, Scripts DEF TypeInv, TypeOK
    <3> QED
      BY <1>16, <1>0, <2>1, <2>2, <3>1, <3>2, <3>3
         DEF Pause, QuietInv, QuietWhileMutating, UnverifiedStaysOpen
  <2>3. CASE Go("resume") /\ result' = "failed" /\ UNCHANGED sched
    BY <1>16, <1>0, <2>3
       DEF Go, Pause, QuietInv, QuietWhileMutating, UnverifiedStaysOpen
  <2> QED
    BY <1>16, <2>2, <2>3 DEF Pause
<1>17. ASSUME WaitIdle, Captured, UNCHANGED unrestored PROVE QuietInv'
  BY <1>17, <1>0
     DEF WaitIdle, Go, routerVars, JobsIdle, QuietInv, Still, QuietWhileMutating,
         UnverifiedStaysOpen, TypeInv, TypeOK, CommandFits, ResultFits, Replacing
<1>18. ASSUME WriteSource, Captured, UNCHANGED unrestored PROVE QuietInv'
  BY <1>18, <1>0
     DEF WriteSource, Step, Go, QuietInv, Still, QuietWhileMutating,
         UnverifiedStaysOpen, TypeInv, TypeOK, CommandFits, ResultFits, Replacing
<1>19. ASSUME Clean, Captured, UNCHANGED unrestored PROVE QuietInv'
  BY <1>19, <1>0
     DEF Clean, Go, QuietInv, Still, QuietWhileMutating, UnverifiedStaysOpen,
         TypeInv, TypeOK, CommandFits, ResultFits, Replacing
<1>20. ASSUME DisableMangle, Captured, UNCHANGED unrestored PROVE QuietInv'
  BY <1>20, <1>0
     DEF DisableMangle, Go, QuietInv, Still, QuietWhileMutating,
         UnverifiedStaysOpen, TypeInv, TypeOK, CommandFits, ResultFits, Replacing
<1>21. ASSUME Resume, Captured, UNCHANGED unrestored PROVE QuietInv'
  <2>1. pc' = "resume" => at' # 1
    BY <1>21, <1>0, Visits, StepFits DEF Resume, Visiting
  <2>2. pc' \in {"resume", "unstage", "idle"} /\ result' \notin {"open", "unsafe"}
    BY <1>21, <1>0, StepFits DEF Resume, Visiting, TypeInv, ResultFits
  <2> QED
    BY <1>21, <1>0, <2>1, <2>2
       DEF Resume, QuietInv, QuietWhileMutating, UnverifiedStaysOpen
<1>22. ASSUME RestoreSource, Captured PROVE QuietInv'
  BY <1>22, <1>0
     DEF RestoreSource, Step, Go, AfterRestore, QuietInv, Still, QuietWhileMutating,
         UnverifiedStaysOpen, TypeInv, TypeOK, CommandFits, ResultFits, Replacing
<1>23. ASSUME Crash, UNCHANGED unrestored PROVE QuietInv'
  BY <1>23, <1>0
     DEF Crash, Go, routerVars, QuietInv, Still, QuietWhileMutating,
         UnverifiedStaysOpen, TypeInv, TypeOK, CommandFits, ResultFits, Replacing
<1>24. ASSUME UNCHANGED vars PROVE QuietInv'
  BY <1>24, TypeStep
     DEF vars, routerVars, QuietInv, Still, QuietWhileMutating, UnverifiedStaysOpen
<1> QED
  BY <1>1, <1>2, <1>3, <1>4, <1>5, <1>6, <1>7, <1>8, <1>9, <1>10, <1>11, <1>12,
     <1>13, <1>14, <1>15, <1>16, <1>17, <1>18, <1>19, <1>20, <1>21, <1>22, <1>23,
     <1>24
     DEF Next, Command, Start, Router

\* No managed job runs, nor can start, while sources are written or adaptive
\* state is cleared, wherever a command fails or dies.
THEOREM QuietChanges == Spec => []QuietWhileMutating
<1>1. QuietInv => QuietWhileMutating
  BY DEF QuietInv
<1> QED
  BY <1>1, QuietInit, QuietStep, PTL DEF Spec

\* What could not be verified leaves the schedulers paused, and AUTO-AWG disabled
\* where the command says so.
THEOREM UnverifiedOpen == Spec => []UnverifiedStaysOpen
<1>1. QuietInv => UnverifiedStaysOpen
  BY DEF QuietInv
<1> QED
  BY <1>1, QuietInit, QuietStep, PTL DEF Spec

-----------------------------------------------------------------------------
(* Cleanup.                                                                 *)

\* The fresh router is clean.
LEMMA CleanInit == Init => CleanInv
  BY QuietInit DEF Init, CleanInv, ResumesClean

\* Every step keeps what is clear.
LEMMA CleanStep ==
    ASSUME CleanInv, [Next]_vars PROVE CleanInv'
<1>0. QuietInv /\ TypeInv /\ QuietInv'
  BY QuietStep DEF CleanInv, QuietInv
<1>1. ASSUME NEW s \in Script, StartJob(s), UNCHANGED unrestored PROVE CleanInv'
  BY <1>1, <1>0 DEF StartJob, CleanInv, ResumesClean
<1>2. ASSUME NEW s \in Script, EndJob(s), UNCHANGED unrestored PROVE CleanInv'
  BY <1>2, <1>0 DEF EndJob, CleanInv, ResumesClean
<1>3. ASSUME NEW s \in Script, NEW k \in Kind, Learn(s, k), UNCHANGED unrestored
      PROVE  CleanInv'
  <2>1. pc \notin {"write", "clean"} /\ ~(pc = "resume" /\ at = 1 /\ result = "none")
    BY <1>3, <1>0 DEF Learn, QuietInv, Still, QuietWhileMutating
  <2> QED
    BY <1>3, <1>0, <2>1 DEF Learn, CleanInv, ResumesClean
<1>4. ASSUME MarkTraffic, UNCHANGED unrestored PROVE CleanInv'
  <2>1. ~(pc = "clean" /\ at > 1)
    <3>1. pc = "clean" => at \in 1..3
      BY <1>0, Kinds DEF QuietInv, TypeInv, LoopFits
    <3>2. pc = "clean" /\ at > 1 => residue["rules"] = {}
      BY <3>1, Kinds DEF CleanInv, CleanOrder
    <3> QED
      BY <1>4, <3>2 DEF MarkTraffic
  <2>2. ~(pc = "write" /\ op = "rollback") /\ ~(pc = "resume" /\ at = 1 /\ result = "none")
    BY <1>4 DEF MarkTraffic, CleanInv, ResumesClean, Kind
  <2>3. pc = "clean" => at = 1
    BY <1>0, <2>1, Kinds DEF QuietInv, TypeInv, LoopFits
  <2> QED
    BY <1>4, <1>0, <2>2, <2>3, Kinds DEF MarkTraffic, CleanInv, ResumesClean
<1>5. ASSUME HealthSwitch, UNCHANGED unrestored PROVE CleanInv'
  BY <1>5, <1>0 DEF HealthSwitch, CleanInv, ResumesClean
<1>6. ASSUME NEW v \in Version, Configure(v), UNCHANGED unrestored PROVE CleanInv'
  BY <1>6, <1>0 DEF Configure, routerVars, CleanInv, ResumesClean
<1>7. ASSUME StageBegin, UNCHANGED unrestored PROVE CleanInv'
  BY <1>7, <1>0 DEF StageBegin, Begin, Go, routerVars, CleanInv, ResumesClean
<1>8. ASSUME StageCleanBegin, UNCHANGED unrestored PROVE CleanInv'
  BY <1>8, <1>0 DEF StageCleanBegin, Begin, Go, routerVars, CleanInv, ResumesClean
<1>9. ASSUME PromoteBegin, UNCHANGED unrestored PROVE CleanInv'
  BY <1>9, <1>0 DEF PromoteBegin, Begin, Go, routerVars, CleanInv, ResumesClean
<1>10. ASSUME RollbackBegin, UNCHANGED unrestored PROVE CleanInv'
  BY <1>10, <1>0, Kinds
     DEF RollbackBegin, Begin, Go, routerVars, CleanInv, ResumesClean
<1>11. ASSUME Preclean, Captured, UNCHANGED unrestored PROVE CleanInv'
  BY <1>11, <1>0 DEF Preclean, Step, Go, CleanInv, ResumesClean
<1>12. ASSUME AddStage, Captured, UNCHANGED unrestored PROVE CleanInv'
  BY <1>12, <1>0 DEF AddStage, Step, Go, CleanInv, ResumesClean
<1>13. ASSUME Unstage, Captured, UNCHANGED unrestored PROVE CleanInv'
  BY <1>13, <1>0 DEF Unstage, Step, Go, CleanInv, ResumesClean
<1>14. ASSUME RemoveBackup, Captured, UNCHANGED unrestored PROVE CleanInv'
  BY <1>14, <1>0 DEF RemoveBackup, Go, CleanInv, ResumesClean
<1>15. ASSUME AddBackup, Captured, UNCHANGED unrestored PROVE CleanInv'
  BY <1>15, <1>0 DEF AddBackup, Go, CleanInv, ResumesClean
<1>16. ASSUME Pause, Captured, UNCHANGED unrestored PROVE CleanInv'
  BY <1>16, <1>0 DEF Pause, Step, Go, CleanInv, ResumesClean
<1>17. ASSUME WaitIdle, Captured, UNCHANGED unrestored PROVE CleanInv'
  BY <1>17, <1>0, Kinds DEF WaitIdle, Go, routerVars, CleanInv, ResumesClean
<1>18. ASSUME WriteSource, Captured, UNCHANGED unrestored PROVE CleanInv'
  <2>1. pc = "write" /\ result = "none"
    BY <1>18, <1>0 DEF WriteSource, QuietInv, TypeInv, ResultFits
  <2>2. CASE Step(IF op = "promote" THEN "clean" ELSE "resume") /\ UNCHANGED result
    <3>1. \/ pc' = "write"
          \/ op = "promote" /\ pc' = "clean" /\ at' = 1
          \/ op # "promote" /\ pc' = "resume"
      BY <1>0, <2>1, <2>2, StepFits DEF QuietInv, Visiting
    <3>2. op # "promote" => op = "rollback"
      BY <1>0, <2>1 DEF QuietInv, TypeInv, CommandFits, Replacing
    <3> QED
      BY <1>18, <1>0, <2>1, <3>1, <3>2, Kinds
         DEF WriteSource, CleanInv, ResumesClean
  <2>3. CASE Go(IF op = "promote" THEN "restore" ELSE "disable") /\ result' = "failed"
    BY <1>18, <1>0, <2>3 DEF Go, CleanInv, ResumesClean
  <2> QED
    BY <1>18, <2>2, <2>3 DEF WriteSource
<1>19. ASSUME Clean, Captured, UNCHANGED unrestored PROVE CleanInv'
  <2>1. pc = "clean" /\ result = "none" /\ at \in 1..3 /\ CleanOrder[at] \in Kind
    BY <1>19, <1>0, Kinds DEF Clean, QuietInv, TypeInv, LoopFits, ResultFits
  <2>2. CASE result' = "unsafe"
    BY <1>19, <1>0, <2>1, <2>2 DEF Clean, Go, CleanInv, ResumesClean
  <2>3. CASE result' # "unsafe"
    <3>1. /\ residue' = [residue EXCEPT ![CleanOrder[at]] = {}]
          /\ IF at < 3 THEN at' = at + 1 /\ UNCHANGED pc
             ELSE Go(IF op = "promote" THEN "resume" ELSE "write")
      BY <1>19, <2>3, Kinds DEF Clean
    <3>2. residue \in [Kind -> SUBSET Version]
      BY <1>0 DEF QuietInv, TypeInv, TypeOK
    <3>3. \A i \in DOMAIN CleanOrder : i < at + 1 => residue'[CleanOrder[i]] = {}
      BY <2>1, <3>1, <3>2, Kinds DEF CleanInv
    <3>4. CASE at < 3
      BY <1>0, <2>1, <3>1, <3>3, <3>4 DEF CleanInv, ResumesClean
    <3>5. CASE ~(at < 3)
      <4>1. \A k \in Kind : residue'[k] = {}
        BY <2>1, <3>3, <3>5, Kinds
      <4> QED
        BY <1>0, <3>1, <3>5, <4>1 DEF Go, CleanInv, ResumesClean
    <3> QED
      BY <3>4, <3>5
  <2> QED
    BY <2>2, <2>3
<1>20. ASSUME DisableMangle, Captured, UNCHANGED unrestored PROVE CleanInv'
  BY <1>20, <1>0 DEF DisableMangle, Go, CleanInv, ResumesClean
<1>21. ASSUME Resume, Captured, UNCHANGED unrestored PROVE CleanInv'
  <2>1. /\ pc' = "resume" => at' # 1
        /\ pc' \in {"resume", "unstage", "idle"}
    BY <1>21, <1>0, Visits, StepFits DEF Resume, Visiting, QuietInv
  <2> QED
    BY <1>0, <2>1 DEF CleanInv, ResumesClean
<1>22. ASSUME RestoreSource, Captured PROVE CleanInv'
  <2>1. CASE op = "promote"
    <3>1. result' \in {"failed", "unsafe"} /\ pc' \in {"restore", "resume", "disable"}
      BY <1>22, <1>0, <2>1, StepFits
         DEF RestoreSource, AfterRestore, Visiting, QuietInv, TypeInv, ResultFits
    <3> QED
      BY <1>0, <3>1 DEF CleanInv, ResumesClean
  <2>2. CASE op # "promote"
    <3>1. pc' \in {"restore", "idle"}
      BY <1>22, <1>0, <2>2, StepFits DEF RestoreSource, Visiting, QuietInv
    <3> QED
      BY <1>0, <3>1 DEF CleanInv, ResumesClean
  <2> QED
    BY <2>1, <2>2
<1>23. ASSUME Crash, UNCHANGED unrestored PROVE CleanInv'
  BY <1>23, <1>0 DEF Crash, Go, routerVars, CleanInv, ResumesClean
<1>24. ASSUME UNCHANGED vars PROVE CleanInv'
  BY <1>24, <1>0 DEF vars, routerVars, CleanInv, ResumesClean
<1> QED
  BY <1>1, <1>2, <1>3, <1>4, <1>5, <1>6, <1>7, <1>8, <1>9, <1>10, <1>11, <1>12,
     <1>13, <1>14, <1>15, <1>16, <1>17, <1>18, <1>19, <1>20, <1>21, <1>22, <1>23,
     <1>24
     DEF Next, Command, Start, Router

\* When the schedulers resume after a success, nothing is left of the adaptive
\* state, although traffic went on while it was cleared.
THEOREM ResumedClean == Spec => []ResumesClean
<1>1. CleanInv => ResumesClean
  BY DEF CleanInv
<1> QED
  BY <1>1, CleanInit, CleanStep, PTL DEF Spec

-----------------------------------------------------------------------------
(* Sources.                                                                 *)

\* Nothing is staged on the fresh router.
LEMMA SourceInit == Init => SourceInv
  BY TypeInit DEF Init, SourceInv

\* Every step keeps what was staged and backed up.
LEMMA SourceStep ==
    ASSUME SourceInv, [Next]_vars PROVE SourceInv'
<1>0. TypeInv /\ TypeInv'
  BY TypeStep DEF SourceInv
<1>1. ASSUME NEW s \in Script, StartJob(s), UNCHANGED unrestored PROVE SourceInv'
  BY <1>1, <1>0 DEF StartJob, SourceInv
<1>2. ASSUME NEW s \in Script, EndJob(s), UNCHANGED unrestored PROVE SourceInv'
  BY <1>2, <1>0 DEF EndJob, SourceInv
<1>3. ASSUME NEW s \in Script, NEW k \in Kind, Learn(s, k), UNCHANGED unrestored
      PROVE  SourceInv'
  BY <1>3, <1>0 DEF Learn, SourceInv
<1>4. ASSUME MarkTraffic, UNCHANGED unrestored PROVE SourceInv'
  BY <1>4, <1>0 DEF MarkTraffic, SourceInv
<1>5. ASSUME HealthSwitch, UNCHANGED unrestored PROVE SourceInv'
  BY <1>5, <1>0 DEF HealthSwitch, SourceInv
<1>6. ASSUME NEW v \in Version, Configure(v), UNCHANGED unrestored PROVE SourceInv'
  BY <1>6, <1>0 DEF Configure, routerVars, SourceInv
<1>7. ASSUME StageBegin, UNCHANGED unrestored PROVE SourceInv'
  BY <1>7, <1>0 DEF StageBegin, Begin, Go, routerVars, SourceInv
<1>8. ASSUME StageCleanBegin, UNCHANGED unrestored PROVE SourceInv'
  BY <1>8, <1>0 DEF StageCleanBegin, Begin, Go, routerVars, SourceInv
<1>9. ASSUME PromoteBegin, UNCHANGED unrestored PROVE SourceInv'
  <2>1. /\ op' = "promote" /\ pc' = "backup" /\ at' = 1
        /\ \A s \in Script : stage'[s] = saved'.new[s]
    BY <1>9, <1>0
       DEF PromoteBegin, StageVerified, Begin, Go, routerVars, TypeInv, TypeOK
  <2> QED
    BY <1>0, <2>1, Scripts DEF SourceInv
<1>10. ASSUME RollbackBegin, UNCHANGED unrestored PROVE SourceInv'
  BY <1>10, <1>0
     DEF RollbackBegin, Begin, Go, routerVars, SourceInv, TypeInv, TypeOK,
         CommandFits, ResultFits, Replacing
<1>11. ASSUME Preclean, Captured, UNCHANGED unrestored PROVE SourceInv'
  <2>1. pc' \in {"preclean", "add", "idle"}
    BY <1>11, <1>0, StepFits, GoFits DEF Preclean, Visiting
  <2> QED
    BY <1>0, <2>1 DEF SourceInv
<1>12. ASSUME AddStage, Captured, UNCHANGED unrestored PROVE SourceInv'
  <2>1. pc' \in {"add", "idle", "unstage"}
    BY <1>12, <1>0, StepFits, GoFits DEF AddStage, Visiting
  <2> QED
    BY <1>0, <2>1 DEF SourceInv
<1>13. ASSUME Unstage, Captured, UNCHANGED unrestored PROVE SourceInv'
  <2>1. pc' \in {"unstage", "idle"}
    BY <1>13, <1>0, StepFits, GoFits DEF Unstage, Visiting
  <2> QED
    BY <1>0, <2>1 DEF SourceInv
<1>14. ASSUME RemoveBackup, Captured, UNCHANGED unrestored PROVE SourceInv'
  <2>1. pc = "backup" /\ Here \in Script /\ at \in DOMAIN Managed
    BY <1>14, <1>0, Visits, Scripts DEF RemoveBackup, Visiting
  <2>2. CASE pc' = "copy"
    <3>1. backup' = [backup EXCEPT ![Here] = None] /\ at' = at /\ saved' = saved
      BY <1>14, <1>0, <2>2, Keeps DEF RemoveBackup, Go
    <3>2. \A i \in DOMAIN Managed : i < at => backup'[Managed[i]] = saved'.old[Managed[i]]
      <4> SUFFICES ASSUME NEW i \in DOMAIN Managed, i < at
                   PROVE  backup'[Managed[i]] = saved'.old[Managed[i]]
        OBVIOUS
      <4>1. Managed[i] # Here /\ Managed[i] \in Script
        BY <2>1, Scripts DEF Here
      <4>2. backup[Managed[i]] = saved.old[Managed[i]]
        BY <2>1 DEF SourceInv
      <4> QED
        BY <1>0, <3>1, <4>1, <4>2 DEF TypeInv, TypeOK
    <3> QED
      BY <1>14, <1>0, <2>1, <2>2, <3>1, <3>2 DEF RemoveBackup, SourceInv
  <2>3. CASE pc' = "idle"
    BY <1>0, <2>3 DEF SourceInv
  <2> QED
    BY <1>14, <2>2, <2>3 DEF RemoveBackup, Go
<1>15. ASSUME AddBackup, Captured, UNCHANGED unrestored PROVE SourceInv'
  <2>1. pc = "copy" /\ Here \in Script /\ at \in 1..Len(Managed) /\ op = "promote"
    BY <1>15, <1>0, Visits DEF AddBackup, Visiting, TypeInv, CommandFits
  <2>2. CASE pc' # "idle"
    <3>1. /\ backup' = [backup EXCEPT ![Here] = saved.old[Here]] /\ saved' = saved
          /\ stage' = stage /\ op' = op
          /\ \/ at < Len(Managed) /\ at' = at + 1 /\ pc' = "backup"
             \/ ~(at < Len(Managed)) /\ pc' = "pause"
      BY <1>15, <1>0, <2>2, Keeps DEF AddBackup, Go
    <3>2. \A i \in DOMAIN Managed : i < at + 1 => backup'[Managed[i]] = saved'.old[Managed[i]]
      <4> SUFFICES ASSUME NEW i \in DOMAIN Managed, i < at + 1
                   PROVE  backup'[Managed[i]] = saved'.old[Managed[i]]
        OBVIOUS
      <4>1. Managed[i] \in Script /\ backup \in [Script -> Slot]
        BY <1>0, Scripts DEF TypeInv, TypeOK
      <4>2. CASE i = at
        BY <2>1, <3>1, <4>1, <4>2 DEF Here
      <4>3. CASE i < at
        <5>1. backup[Managed[i]] = saved.old[Managed[i]]
          BY <2>1, <4>3 DEF SourceInv
        <5> QED
          BY <3>1, <4>1, <5>1
      <4> QED
        BY <2>1, <4>2, <4>3, Scripts
    <3>3. CASE pc' = "backup"
      BY <1>0, <2>1, <3>1, <3>2, <3>3 DEF SourceInv
    <3>4. CASE pc' = "pause"
      <4>1. \A s \in Script : backup'[s] = saved'.old[s]
        BY <2>1, <3>1, <3>2, <3>4, Scripts
      <4> QED
        BY <1>0, <2>1, <3>1, <3>4, <4>1 DEF SourceInv
    <3> QED
      BY <3>1, <3>3, <3>4
  <2>3. CASE pc' = "idle"
    BY <1>0, <2>3 DEF SourceInv
  <2> QED
    BY <2>2, <2>3
<1>16. ASSUME Pause, Captured, UNCHANGED unrestored PROVE SourceInv'
  <2>1. pc = "pause" /\ pc' \in {"pause", "wait", "resume"}
    BY <1>16, <1>0, StepFits, GoFits DEF Pause, Visiting
  <2>2. pc' # "idle" => saved' = saved
    BY <1>16, <1>0, Keeps
  <2> QED
    BY <1>16, <1>0, <2>1, <2>2 DEF Pause, SourceInv
<1>17. ASSUME WaitIdle, Captured, UNCHANGED unrestored PROVE SourceInv'
  BY <1>17, <1>0, Keeps
     DEF WaitIdle, Go, routerVars, SourceInv, TypeInv, TypeOK, CommandFits,
         ResultFits, Replacing
<1>18. ASSUME WriteSource, Captured, UNCHANGED unrestored PROVE SourceInv'
  <2>1. /\ pc = "write" /\ pc' \in {"write", "clean", "resume", "restore", "disable"}
        /\ pc' = "restore" => op = "promote"
    BY <1>18, <1>0, StepFits, GoFits DEF WriteSource, Visiting
  <2>2. pc' # "idle" => saved' = saved
    BY <1>18, <1>0, Keeps
  <2> QED
    BY <1>18, <1>0, <2>1, <2>2 DEF WriteSource, SourceInv
<1>19. ASSUME Clean, Captured, UNCHANGED unrestored PROVE SourceInv'
  BY <1>19, <1>0, Keeps
     DEF Clean, Go, SourceInv, TypeInv, TypeOK, CommandFits, ResultFits, Replacing
<1>20. ASSUME DisableMangle, Captured, UNCHANGED unrestored PROVE SourceInv'
  BY <1>20, <1>0, Keeps
     DEF DisableMangle, Go, SourceInv, TypeInv, TypeOK, CommandFits, ResultFits,
         Replacing
<1>21. ASSUME Resume, Captured, UNCHANGED unrestored PROVE SourceInv'
  <2>1. pc' \in {"resume", "unstage", "idle"}
    BY <1>21, <1>0, StepFits, GoFits DEF Resume, Visiting
  <2> QED
    BY <1>0, <2>1 DEF SourceInv
<1>22. ASSUME RestoreSource, Captured PROVE SourceInv'
  <2>1. /\ pc = "restore" /\ pc' \in {"restore", "resume", "disable", "idle"}
        /\ pc' = "disable" => op = "promote"
    BY <1>22, <1>0, StepFits, GoFits DEF RestoreSource, Visiting, AfterRestore
  <2>2. pc' # "idle" => saved' = saved
    BY <1>22, <1>0, Keeps
  <2> QED
    BY <1>22, <1>0, <2>1, <2>2 DEF RestoreSource, SourceInv
<1>23. ASSUME Crash, UNCHANGED unrestored PROVE SourceInv'
  BY <1>23, <1>0 DEF Crash, Go, routerVars, SourceInv
<1>24. ASSUME UNCHANGED vars PROVE SourceInv'
  BY <1>24, <1>0 DEF vars, routerVars, SourceInv
<1> QED
  BY <1>1, <1>2, <1>3, <1>4, <1>5, <1>6, <1>7, <1>8, <1>9, <1>10, <1>11, <1>12,
     <1>13, <1>14, <1>15, <1>16, <1>17, <1>18, <1>19, <1>20, <1>21, <1>22, <1>23,
     <1>24
     DEF Next, Command, Start, Router

\* Production is only given sources that were staged and verified, or that it had
\* before.
LEMMA SourceWritten ==
    ASSUME SourceInv, [Next]_vars, NEW s \in Script, prod'[s] # prod[s]
    PROVE  prod'[s] \in {stage[s], backup[s]}
<1>0. TypeInv
  BY DEF SourceInv
<1>1. WriteSource \/ RestoreSource
  BY DEF Next, Command, Start, Router, StageBegin, StageCleanBegin, PromoteBegin,
         RollbackBegin, Begin, Preclean, AddStage, Unstage, RemoveBackup, AddBackup,
         Pause, WaitIdle, Clean, DisableMangle, Resume, Crash, StartJob, EndJob, Learn,
         MarkTraffic, HealthSwitch, Configure, routerVars, vars
<1>2. CASE WriteSource
  <2>1. /\ pc = "write" /\ op \in {"promote", "rollback"}
        /\ prod' = [prod EXCEPT ![Here] = saved.new[Here]]
    BY <1>0, <1>2 DEF WriteSource, TypeInv, CommandFits, Replacing
  <2>2. prod'[s] = saved.new[s]
    BY <1>0, <2>1 DEF TypeInv, TypeOK
  <2> QED
    BY <2>1, <2>2 DEF SourceInv
<1>3. CASE RestoreSource
  <2>1. /\ pc = "restore" /\ op \in {"promote", "rollback"}
        /\ prod' = [prod EXCEPT ![Here] =
                       IF op = "promote" THEN saved.old[Here] ELSE saved.new[Here]]
    BY <1>0, <1>3 DEF RestoreSource, TypeInv, CommandFits, Replacing
  <2>2. prod'[s] = IF op = "promote" THEN saved.old[s] ELSE saved.new[s]
    BY <1>0, <2>1 DEF TypeInv, TypeOK
  <2> QED
    BY <2>1, <2>2 DEF SourceInv
<1> QED
  BY <1>1, <1>2, <1>3

\* As an action property: production is only given, beside what it had, sources
\* that were staged and verified in the form they are now.
THEOREM StagedIsPromoted == Spec => OnlyStagedIsPromoted
<1>1. SourceInv /\ [Next]_vars =>
        \A s \in Script : prod'[s] # prod[s] => prod'[s] \in {stage[s], backup[s]}
  BY SourceWritten
<1>2. SourceInv /\ [Next]_vars =>
        [\A s \in Script : prod'[s] # prod[s] => prod'[s] \in {stage[s], backup[s]}]_vars
  BY <1>1
<1> QED
  BY <1>2, SourceInit, SourceStep, PTL DEF Spec, OnlyStagedIsPromoted

-----------------------------------------------------------------------------
(* Adaptive state.                                                          *)

\* The fresh router has no adaptive state.
LEMMA StateInit == Init => StateInv
<1> SUFFICES ASSUME Init PROVE StateInv
  OBVIOUS
<1>1. WrittenBy(prod)
  BY DEF Init, WrittenBy
<1>2. \A s \in Script : job[s] = None
  BY DEF Init, Nothing
<1> QED
  BY <1>1, <1>2, CleanInit DEF Init, StateInv

\* A step that touches neither sources nor state and lets nothing run that could
\* not run before.
LEMMA Passed ==
    ASSUME StateInv, CleanInv', pc \notin Mutating, pc' \notin Mutating,
           UNCHANGED <<prod, residue, job, unrestored>>,
           sched' \subseteq sched \cup saved.sched,
           saved'.sched \subseteq sched \cup saved.sched,
           op' = "promote" /\ pc' \in {"backup", "copy", "pause", "wait"} =>
              \A s \in Script : prod'[s] = saved'.old[s] \/ unrestored
    PROVE  StateInv'
<1>1. MayRun' => MayRun
  BY DEF MayRun
<1> QED
  BY <1>1 DEF StateInv, WrittenBy, Mutating

\* A step that ends a command while nothing runs.
LEMMA Stopped ==
    ASSUME CleanInv', Captured, pc' = "idle", sched' = {},
           \A s \in Script : job'[s] = None
    PROVE  StateInv' /\ ~MayRun'
<1>1. ~MayRun'
  BY DEF MayRun, Captured, NoneSaved
<1> QED
  BY <1>1 DEF StateInv

\* promote puts the old sources back one by one.
LEMMA PutBack ==
    ASSUME StateInv, RestoreSource, op = "promote", ~unrestored',
           NEW i \in DOMAIN Managed, i < at + 1
    PROVE  prod'[Managed[i]] = saved.old[Managed[i]]
<1>0. TypeInv
  BY DEF StateInv, CleanInv, QuietInv
<1>1. /\ pc = "restore" /\ Here \in Script /\ at \in 1..Len(Managed)
      /\ prod' = [prod EXCEPT ![Here] = saved.old[Here]] /\ ~unrestored
  BY <1>0, Visits DEF RestoreSource, Visiting
<1>2. Managed[i] \in Script /\ prod \in [Script -> Version]
  BY <1>0, Scripts DEF TypeInv, TypeOK
<1>3. CASE i = at
  BY <1>1, <1>2, <1>3 DEF Here
<1>4. CASE i < at
  <2>1. prod[Managed[i]] = saved.old[Managed[i]]
    BY <1>1, <1>4 DEF StateInv
  <2> QED
    BY <1>1, <1>2, <2>1
<1> QED
  BY <1>1, <1>3, <1>4, Scripts

\* Every step keeps state to the versions that may run.
LEMMA StateStep ==
    ASSUME StateInv, [Next]_vars PROVE StateInv'
<1>0. StateInv /\ QuietInv /\ TypeInv /\ CleanInv'
  BY CleanStep DEF StateInv, CleanInv, QuietInv
<1>1. ASSUME NEW s \in Script, StartJob(s), UNCHANGED unrestored PROVE StateInv'
  <2>1. sched # {} /\ pc \notin Mutating
    BY <1>1, <1>0 DEF StartJob, QuietInv, QuietWhileMutating, Mutating
  <2>2. MayRun
    BY <2>1 DEF MayRun
  <2>3. /\ job' = [job EXCEPT ![s] = prod[s]]
        /\ UNCHANGED <<prod, residue, pc, op, at, saved, unrestored>>
    BY <1>1 DEF StartJob
  <2>4. ~unrestored => \A r \in Script : job'[r] \in {None, prod[r]}
    BY <1>0, <2>3 DEF StateInv, TypeInv, TypeOK
  <2> QED
    BY <1>0, <2>1, <2>2, <2>3, <2>4 DEF StateInv, WrittenBy, Mutating
<1>2. ASSUME NEW s \in Script, EndJob(s), UNCHANGED unrestored PROVE StateInv'
  <2>1. /\ job' = [job EXCEPT ![s] = None]
        /\ UNCHANGED <<prod, sched, residue, pc, op, at, saved, unrestored>>
    BY <1>2 DEF EndJob
  <2>2. (MayRun' => MayRun) /\ \A r \in Script : job'[r] \in {None, job[r]}
    BY <1>0, <2>1 DEF MayRun, TypeInv, TypeOK
  <2> QED
    BY <1>0, <2>1, <2>2 DEF StateInv, WrittenBy
<1>3. ASSUME NEW s \in Script, NEW k \in Kind, Learn(s, k), UNCHANGED unrestored
      PROVE  StateInv'
  <2>1. job[s] # None /\ pc \notin Mutating
    BY <1>3, <1>0 DEF Learn, QuietInv, QuietWhileMutating, Mutating
  <2>2. MayRun
    BY <2>1 DEF MayRun
  <2>3. UNCHANGED <<prod, sched, job, pc, op, at, saved, unrestored>>
    BY <1>3 DEF Learn
  <2>4. /\ residue'[k] = residue[k] \cup {job[s]}
        /\ \A j \in Kind \ {k} : residue'[j] = residue[j]
    BY <1>3, <1>0 DEF Learn, TypeInv, TypeOK
  <2>5. ~unrestored => WrittenBy(prod)'
    <3> SUFFICES ASSUME ~unrestored, NEW j \in Kind, NEW x \in residue'[j]
                 PROVE  x \in {prod[r] : r \in Script}
      BY <2>3 DEF WrittenBy
    <3>1. job[s] = prod[s] /\ WrittenBy(prod)
      BY <2>1, <2>2 DEF StateInv
    <3>2. x \in residue[j] \/ x = job[s]
      BY <2>4
    <3> QED
      BY <3>1, <3>2 DEF WrittenBy
  <2> QED
    BY <1>0, <2>1, <2>3, <2>5 DEF StateInv, Mutating
<1>4. ASSUME MarkTraffic, UNCHANGED unrestored PROVE StateInv'
  <2>1. UNCHANGED <<prod, sched, job, pc, op, at, saved, unrestored>>
    BY <1>4 DEF MarkTraffic
  <2>2. /\ residue'["marks"] = residue["marks"] \cup residue["lists"]
        /\ \A j \in Kind \ {"marks"} : residue'[j] = residue[j]
    BY <1>4, <1>0 DEF MarkTraffic, TypeInv, TypeOK, Kind
  <2>3. \A src : WrittenBy(src) => \A k \in Kind : residue'[k] \subseteq {src[r] : r \in Script}
    BY <2>2 DEF WrittenBy, Kind
  <2>4. MayRun' <=> MayRun
    BY <2>1 DEF MayRun
  <2> QED
    BY <1>0, <2>1, <2>3, <2>4 DEF StateInv, WrittenBy
<1>5. ASSUME HealthSwitch, UNCHANGED unrestored PROVE StateInv'
  <2>1. UNCHANGED <<prod, sched, job, residue, pc, op, at, saved, unrestored>>
    BY <1>5 DEF HealthSwitch
  <2>2. MayRun' <=> MayRun
    BY <2>1 DEF MayRun
  <2> QED
    BY <1>0, <2>1, <2>2 DEF StateInv, WrittenBy
<1>6. ASSUME NEW v \in Version, Configure(v), UNCHANGED unrestored PROVE StateInv'
  <2>1. UNCHANGED <<prod, sched, job, residue, pc, op, at, saved, unrestored>>
    BY <1>6 DEF Configure, routerVars
  <2>2. MayRun' <=> MayRun
    BY <2>1 DEF MayRun
  <2> QED
    BY <1>0, <2>1, <2>2 DEF StateInv, WrittenBy
<1>7. ASSUME StageBegin, UNCHANGED unrestored PROVE StateInv'
  <2>1. /\ pc \notin Mutating /\ pc' \notin Mutating
        /\ UNCHANGED <<prod, residue, job, unrestored>>
        /\ sched' \subseteq sched \cup saved.sched
    BY <1>7, <1>0 DEF StageBegin, Begin, Go, routerVars, Mutating, Visiting
  <2>2. saved'.sched \subseteq sched \cup saved.sched
    BY <1>0, <1>7 DEF StageBegin, Begin, Go, routerVars, TypeInv, TypeOK
  <2>3. op' = "promote" /\ pc' \in {"backup", "copy", "pause", "wait"} =>
           \A s \in Script : prod'[s] = saved'.old[s] \/ unrestored
    BY <1>7 DEF StageBegin, Begin, Go
  <2> QED
    BY <1>0, <2>1, <2>2, <2>3, Passed
<1>8. ASSUME StageCleanBegin, UNCHANGED unrestored PROVE StateInv'
  <2>1. /\ pc \notin Mutating /\ pc' \notin Mutating
        /\ UNCHANGED <<prod, residue, job, unrestored>>
        /\ sched' \subseteq sched \cup saved.sched
    BY <1>8, <1>0 DEF StageCleanBegin, Begin, Go, routerVars, Mutating, Visiting
  <2>2. saved'.sched \subseteq sched \cup saved.sched
    BY <1>0, <1>8 DEF StageCleanBegin
  <2>3. op' = "promote" /\ pc' \in {"backup", "copy", "pause", "wait"} =>
           \A s \in Script : prod'[s] = saved'.old[s] \/ unrestored
    BY <1>8 DEF StageCleanBegin, Begin, Go
  <2> QED
    BY <1>0, <2>1, <2>2, <2>3, Passed
<1>9. ASSUME PromoteBegin, UNCHANGED unrestored PROVE StateInv'
  <2>1. /\ pc \notin Mutating /\ pc' \notin Mutating
        /\ UNCHANGED <<prod, residue, job, unrestored>>
        /\ sched' \subseteq sched \cup saved.sched
    BY <1>9, <1>0 DEF PromoteBegin, Begin, Go, routerVars, Mutating, Visiting
  <2>2. saved'.sched \subseteq sched \cup saved.sched
    BY <1>0, <1>9 DEF PromoteBegin, Begin, Go, routerVars, TypeInv, TypeOK
  <2>3. op' = "promote" /\ pc' \in {"backup", "copy", "pause", "wait"} =>
           \A s \in Script : prod'[s] = saved'.old[s] \/ unrestored
    BY <1>9 DEF PromoteBegin, Begin, Go, routerVars
  <2> QED
    BY <1>0, <2>1, <2>2, <2>3, Passed
<1>10. ASSUME RollbackBegin, UNCHANGED unrestored PROVE StateInv'
  <2>1. /\ pc \notin Mutating /\ pc' \notin Mutating
        /\ UNCHANGED <<prod, residue, job, unrestored>>
        /\ sched' \subseteq sched \cup saved.sched
    BY <1>10, <1>0 DEF RollbackBegin, Begin, Go, routerVars, Mutating, Visiting
  <2>2. saved'.sched \subseteq sched \cup saved.sched
    BY <1>0, <1>10 DEF RollbackBegin, Begin, Go, routerVars, TypeInv, TypeOK
  <2>3. op' = "promote" /\ pc' \in {"backup", "copy", "pause", "wait"} =>
           \A s \in Script : prod'[s] = saved'.old[s] \/ unrestored
    BY <1>10 DEF RollbackBegin, Begin, Go
  <2> QED
    BY <1>0, <2>1, <2>2, <2>3, Passed
<1>11. ASSUME Preclean, Captured, UNCHANGED unrestored PROVE StateInv'
  <2>1. /\ pc \notin Mutating /\ pc' \notin Mutating
        /\ UNCHANGED <<prod, residue, job, unrestored>>
        /\ sched' \subseteq sched \cup saved.sched
    BY <1>11, <1>0, StepFits, GoFits DEF Preclean, Mutating, Visiting
  <2>2. saved'.sched \subseteq sched \cup saved.sched
    BY <1>0, <1>11, Keeps DEF NoneSaved
  <2>3. op' = "promote" /\ pc' \in {"backup", "copy", "pause", "wait"} =>
           \A s \in Script : prod'[s] = saved'.old[s] \/ unrestored
    BY <1>11, <1>0, StepFits, GoFits DEF Preclean, Visiting
  <2> QED
    BY <1>0, <2>1, <2>2, <2>3, Passed
<1>12. ASSUME AddStage, Captured, UNCHANGED unrestored PROVE StateInv'
  <2>1. /\ pc \notin Mutating /\ pc' \notin Mutating
        /\ UNCHANGED <<prod, residue, job, unrestored>>
        /\ sched' \subseteq sched \cup saved.sched
    BY <1>12, <1>0, StepFits, GoFits DEF AddStage, Mutating, Visiting
  <2>2. saved'.sched \subseteq sched \cup saved.sched
    BY <1>0, <1>12, Keeps DEF NoneSaved
  <2>3. op' = "promote" /\ pc' \in {"backup", "copy", "pause", "wait"} =>
           \A s \in Script : prod'[s] = saved'.old[s] \/ unrestored
    BY <1>12, <1>0, StepFits, GoFits DEF AddStage, Visiting
  <2> QED
    BY <1>0, <2>1, <2>2, <2>3, Passed
<1>13. ASSUME Unstage, Captured, UNCHANGED unrestored PROVE StateInv'
  <2>1. /\ pc \notin Mutating /\ pc' \notin Mutating
        /\ UNCHANGED <<prod, residue, job, unrestored>>
        /\ sched' \subseteq sched \cup saved.sched
    BY <1>13, <1>0, StepFits, GoFits DEF Unstage, Mutating, Visiting
  <2>2. saved'.sched \subseteq sched \cup saved.sched
    BY <1>0, <1>13, Keeps DEF NoneSaved
  <2>3. op' = "promote" /\ pc' \in {"backup", "copy", "pause", "wait"} =>
           \A s \in Script : prod'[s] = saved'.old[s] \/ unrestored
    BY <1>13, <1>0, StepFits, GoFits DEF Unstage, Visiting
  <2> QED
    BY <1>0, <2>1, <2>2, <2>3, Passed
<1>14. ASSUME RemoveBackup, Captured, UNCHANGED unrestored PROVE StateInv'
  <2>1. /\ pc \notin Mutating /\ pc' \notin Mutating
        /\ UNCHANGED <<prod, residue, job, unrestored>>
        /\ sched' \subseteq sched \cup saved.sched
    BY <1>14, <1>0, StepFits, GoFits DEF RemoveBackup, Go, Mutating, Visiting
  <2>2. saved'.sched \subseteq sched \cup saved.sched
    BY <1>0, <1>14, Keeps DEF NoneSaved
  <2>3. op' = "promote" /\ pc' \in {"backup", "copy", "pause", "wait"} =>
           \A s \in Script : prod'[s] = saved'.old[s] \/ unrestored
    BY <1>14, <1>0, Keeps DEF RemoveBackup, Go, StateInv
  <2> QED
    BY <1>0, <2>1, <2>2, <2>3, Passed
<1>15. ASSUME AddBackup, Captured, UNCHANGED unrestored PROVE StateInv'
  <2>1. /\ pc \notin Mutating /\ pc' \notin Mutating
        /\ UNCHANGED <<prod, residue, job, unrestored>>
        /\ sched' \subseteq sched \cup saved.sched
    BY <1>15, <1>0, StepFits, GoFits DEF AddBackup, Go, Mutating, Visiting
  <2>2. saved'.sched \subseteq sched \cup saved.sched
    BY <1>0, <1>15, Keeps DEF NoneSaved
  <2>3. op' = "promote" /\ pc' \in {"backup", "copy", "pause", "wait"} =>
           \A s \in Script : prod'[s] = saved'.old[s] \/ unrestored
    BY <1>15, <1>0, Keeps DEF AddBackup, Go, StateInv
  <2> QED
    BY <1>0, <2>1, <2>2, <2>3, Passed
<1>16. ASSUME Pause, Captured, UNCHANGED unrestored PROVE StateInv'
  <2>1. /\ pc \notin Mutating /\ pc' \notin Mutating
        /\ UNCHANGED <<prod, residue, job, unrestored>>
        /\ sched' \subseteq sched \cup saved.sched
    BY <1>16, <1>0, StepFits, GoFits DEF Pause, Mutating, Visiting
  <2>2. saved'.sched \subseteq sched \cup saved.sched
    BY <1>0, <1>16, Keeps DEF NoneSaved
  <2>3. op' = "promote" /\ pc' \in {"backup", "copy", "pause", "wait"} =>
           \A s \in Script : prod'[s] = saved'.old[s] \/ unrestored
    BY <1>16, <1>0, Keeps, StepFits, GoFits DEF Pause, Visiting, StateInv
  <2> QED
    BY <1>0, <2>1, <2>2, <2>3, Passed
<1>17. ASSUME WaitIdle, Captured, UNCHANGED unrestored PROVE StateInv'
  <2>1. pc = "wait" /\ UNCHANGED <<prod, sched, job, residue, unrestored>>
    BY <1>17 DEF WaitIdle, routerVars
  <2>2. CASE pc' = "write"
    <3>1. op = "promote" /\ op' = op /\ saved' = saved
      BY <1>17, <1>0, <2>2, Keeps DEF WaitIdle, Go
    <3>2. ~unrestored /\ saved.sched # {} => WrittenBy(saved.old)
      BY <2>1, <3>1 DEF StateInv, WrittenBy, MayRun, Mutating
    <3> QED
      BY <1>0, <2>1, <2>2, <3>1, <3>2 DEF StateInv, WrittenBy, Mutating
  <2>3. CASE pc' = "clean"
    BY <1>17, <1>0, <2>1, <2>3 DEF WaitIdle, Go, StateInv, Mutating
  <2>4. CASE pc' = "resume"
    <3>1. saved'.sched \subseteq sched \cup saved.sched
      BY <1>17, <1>0, <2>4, Keeps
    <3> QED
      BY <1>0, <2>1, <2>4, <3>1, Passed DEF Mutating
  <2> QED
    BY <1>17, <2>2, <2>3, <2>4 DEF WaitIdle, Go
<1>18. ASSUME WriteSource, Captured, UNCHANGED unrestored PROVE StateInv'
  <2>1. /\ pc = "write" /\ UNCHANGED <<sched, job, residue, op, unrestored>>
        /\ pc' \in {"write", "clean", "resume", "restore", "disable"}
        /\ pc' = "resume" => op = "rollback"
        /\ pc' = "restore" => at' = 1
    BY <1>18, <1>0, StepFits, GoFits
       DEF WriteSource, Visiting, Go, TypeInv, CommandFits, Replacing
  <2>2. saved' = saved /\ \A s \in Script : job'[s] = None
    BY <1>18, <1>0, <2>1, Keeps DEF QuietInv, QuietWhileMutating
  <2>3. CASE pc' = "resume"
    <3>1. \A k \in Kind : residue'[k] = {}
      BY <2>1, <2>3 DEF StateInv, CleanInv
    <3> QED
      BY <1>0, <2>1, <2>2, <2>3, <3>1 DEF StateInv, WrittenBy
  <2>4. CASE pc' # "resume"
    BY <1>0, <2>1, <2>2, <2>4, Scripts DEF StateInv, WrittenBy, Mutating
  <2> QED
    BY <2>3, <2>4
<1>19. ASSUME Clean, Captured, UNCHANGED unrestored PROVE StateInv'
  <2>1. /\ pc = "clean" /\ UNCHANGED <<prod, sched, job, op, unrestored>>
        /\ CleanOrder[at] \in Kind
    BY <1>19, <1>0, Kinds DEF Clean, TypeInv, LoopFits
  <2>2. pc' \in {"clean", "resume", "write", "restore", "disable"} /\ saved' = saved
    BY <1>19, <1>0, <2>1, Keeps DEF Clean, Go
  <2>3. \A k \in Kind : residue'[k] \subseteq residue[k]
    BY <1>19, <1>0, <2>1 DEF Clean, TypeInv, TypeOK
  <2>4. \A s \in Script : job'[s] = None
    BY <1>0, <2>1 DEF QuietInv, QuietWhileMutating
  <2>5. CASE pc' = "resume"
    <3>1. at' = 1 /\ result' = "none"
      BY <1>19, <1>0, <2>1, <2>5 DEF Clean, Go, TypeInv, ResultFits
    <3>2. \A k \in Kind : residue'[k] = {}
      BY <1>0, <2>5, <3>1 DEF CleanInv, ResumesClean
    <3> QED
      BY <1>0, <2>2, <2>4, <2>5, <3>2 DEF StateInv, WrittenBy
  <2>6. CASE pc' # "resume"
    <3>1. pc' = "restore" => at' = 1
      BY <1>19, <2>1 DEF Clean, Go
    <3>2. op = "promote" /\ ~unrestored /\ saved.sched # {} => WrittenBy(saved.old)'
      BY <2>1, <2>2, <2>3 DEF StateInv, WrittenBy
    <3> QED
      BY <1>0, <2>1, <2>2, <2>4, <2>6, <3>1, <3>2, Scripts DEF StateInv, Mutating
  <2> QED
    BY <2>5, <2>6
<1>20. ASSUME DisableMangle, Captured, UNCHANGED unrestored PROVE StateInv'
  <2>1. /\ pc = "disable" /\ UNCHANGED <<prod, sched, job, residue, op, unrestored>>
        /\ sched = {} /\ \A s \in Script : job'[s] = None
        /\ pc' = "idle" \/ (pc' = "restore" /\ op = "rollback")
    BY <1>20, <1>0 DEF DisableMangle, Go, QuietInv, QuietWhileMutating
  <2>2. CASE pc' = "idle"
    BY <1>20, <1>0, <2>1, <2>2, Stopped
  <2>3. CASE pc' = "restore"
    BY <1>0, <2>1, <2>3 DEF StateInv, Mutating
  <2> QED
    BY <2>1, <2>2, <2>3
<1>21. ASSUME Resume, Captured, UNCHANGED unrestored PROVE StateInv'
  <2>1. /\ pc \notin Mutating /\ pc' \notin Mutating
        /\ UNCHANGED <<prod, residue, job, unrestored>>
        /\ sched' \subseteq sched \cup saved.sched
    BY <1>21, <1>0, StepFits, GoFits DEF Resume, Mutating, Visiting
  <2>2. saved'.sched \subseteq sched \cup saved.sched
    BY <1>0, <1>21, Keeps DEF NoneSaved
  <2>3. op' = "promote" /\ pc' \in {"backup", "copy", "pause", "wait"} =>
           \A s \in Script : prod'[s] = saved'.old[s] \/ unrestored
    BY <1>21, <1>0, StepFits, GoFits DEF Resume, Visiting
  <2> QED
    BY <1>0, <2>1, <2>2, <2>3, Passed
<1>22. ASSUME RestoreSource, Captured PROVE StateInv'
  <2>1. /\ pc = "restore" /\ UNCHANGED <<sched, job, residue, op>>
        /\ \A s \in Script : job'[s] = None
        /\ sched = {} /\ Here \in Script /\ at \in 1..Len(Managed)
    BY <1>22, <1>0, Visits DEF RestoreSource, Visiting, QuietInv, QuietWhileMutating
  <2>2. CASE unrestored'
    BY <1>0, <2>2 DEF StateInv
  <2>3. CASE ~unrestored' /\ op = "promote"
    <3>1. prod' = [prod EXCEPT ![Here] = saved.old[Here]] /\ ~unrestored
      BY <1>22, <2>3 DEF RestoreSource
    <3>2. /\ pc' \in {"restore", "resume", "disable"}
          /\ \/ at < Len(Managed) /\ at' = at + 1 /\ pc' = "restore"
             \/ at = Len(Managed) /\ pc' # "restore"
      BY <1>22, <1>0, <2>1, <2>3, StepFits DEF RestoreSource, AfterRestore, Visiting
    <3>3. saved' = saved
      BY <1>22, <1>0, <3>2, Keeps
    <3>4. \A i \in DOMAIN Managed : i < at + 1 => prod'[Managed[i]] = saved.old[Managed[i]]
      BY <1>22, <2>3, PutBack
    <3>5. saved.sched # {} => WrittenBy(saved.old)
      BY <2>1, <2>3, <3>1 DEF StateInv
    <3>6. CASE pc' = "restore"
      BY <1>0, <2>1, <3>2, <3>3, <3>4, <3>5, <3>6 DEF StateInv, WrittenBy, Mutating
    <3>7. CASE pc' = "resume"
      <4>1. \A s \in Script : prod'[s] = saved.old[s]
        BY <2>1, <3>2, <3>4, <3>7, Scripts
      <4>2. MayRun' => saved.sched # {}
        BY <2>1, <3>3 DEF MayRun
      <4>3. MayRun' => WrittenBy(prod)'
        BY <2>1, <3>5, <4>1, <4>2 DEF WrittenBy
      <4> QED
        BY <1>0, <2>1, <3>7, <4>3 DEF StateInv
    <3>8. CASE pc' = "disable"
      BY <1>0, <2>1, <3>8 DEF StateInv, Mutating
    <3> QED
      BY <3>2, <3>6, <3>7, <3>8
  <2>4. CASE op # "promote"
    <3>1. pc' \in {"restore", "idle"}
      BY <1>22, <1>0, <2>1, <2>4, StepFits DEF RestoreSource, Visiting
    <3>2. CASE pc' = "restore"
      BY <1>0, <2>1, <2>4, <3>2 DEF StateInv, Mutating
    <3>3. CASE pc' = "idle"
      BY <1>22, <1>0, <2>1, <3>3, Stopped
    <3> QED
      BY <3>1, <3>2, <3>3
  <2> QED
    BY <2>2, <2>3, <2>4
<1>23. ASSUME Crash, UNCHANGED unrestored PROVE StateInv'
  <2>1. /\ pc' = "idle" /\ saved' = NoneSaved /\ op' = "none"
        /\ UNCHANGED <<prod, sched, job, residue, unrestored>>
    BY <1>23 DEF Crash, Go, routerVars
  <2>2. CASE pc \in Mutating
    <3>1. sched' = {} /\ \A s \in Script : job'[s] = None
      BY <1>0, <2>1, <2>2 DEF QuietInv, QuietWhileMutating, Mutating
    <3> QED
      BY <1>23, <1>0, <2>1, <3>1, Stopped DEF Captured
  <2>3. CASE pc \notin Mutating
    BY <1>0, <2>1, <2>3, Passed DEF NoneSaved, Mutating
  <2> QED
    BY <2>2, <2>3
<1>24. ASSUME UNCHANGED vars PROVE StateInv'
  <2>1. UNCHANGED <<prod, sched, job, residue, pc, op, at, saved, unrestored>>
    BY <1>24 DEF vars, routerVars
  <2>2. MayRun' <=> MayRun
    BY <2>1 DEF MayRun
  <2> QED
    BY <1>0, <2>1, <2>2 DEF StateInv, WrittenBy
<1> QED
  BY <1>1, <1>2, <1>3, <1>4, <1>5, <1>6, <1>7, <1>8, <1>9, <1>10, <1>11, <1>12,
     <1>13, <1>14, <1>15, <1>16, <1>17, <1>18, <1>19, <1>20, <1>21, <1>22, <1>23,
     <1>24
     DEF Next, Command, Start, Router

\* Unless a source could not be restored, jobs run the sources that are in
\* production and on state that those have written.
THEOREM StateIsOwn == Spec => []StateOfRunningVersion
<1>1. StateInv => StateOfRunningVersion
  BY DEF StateInv, StateOfRunningVersion, QuietInv, QuietWhileMutating, CleanInv,
         Mutating,
         MayRun, WrittenBy
<1> QED
  BY <1>1, StateInit, StateStep, PTL DEF Spec

-----------------------------------------------------------------------------
(* One version.                                                             *)

\* The fresh router has one version and nothing in its backups.
LEMMA OneInit == Init => OneInv
<1> SUFFICES ASSUME Init PROVE OneInv
  OBVIOUS
<1>1. Uniform(prod) /\ Uniform(backup) /\ Uniform(Nothing)
  BY DEF Init, Uniform, Nothing
<1> QED
  BY <1>1, StateInit, SourceInit DEF Init, OneInv, AllOfOne, NoneSaved

\* A step of the router beside the command, which lets nothing run that could not.
LEMMA OneBeside ==
    ASSUME OneInv, StateInv', SourceInv', MayRun' => MayRun,
           UNCHANGED <<prod, backup, pc, op, at, saved, unrestored>>
    PROVE  OneInv'
  BY DEF OneInv, AllOfOne, Uniform

\* A step that begins, goes on with or ends a command outside the exchange and the
\* backups, and captures only what is of one version.
LEMMA OnePassed ==
    ASSUME OneInv, StateInv', SourceInv',
           pc \notin Mutating \cup {"backup", "copy"}, pc' \notin Mutating,
           UNCHANGED <<prod, backup, job, unrestored>>,
           sched' \subseteq sched \cup saved.sched,
           saved'.sched \subseteq sched \cup saved.sched,
           ~unrestored /\ MayRun /\ AllOfOne => Uniform(saved'.old) /\ Uniform(saved'.new)
    PROVE  OneInv'
<1>1. MayRun' => MayRun
  BY DEF MayRun
<1>2. ~unrestored /\ MayRun /\ AllOfOne => AllOfOne'
  BY DEF AllOfOne, Uniform, Mutating
<1> QED
  BY <1>1, <1>2 DEF OneInv

\* What is captured, or forgotten, is of one version.
LEMMA OneKept ==
    ASSUME TypeInv, Captured, AllOfOne
    PROVE  Uniform(saved'.old) /\ Uniform(saved'.new)
  BY Keeps DEF AllOfOne, Uniform, NoneSaved, Nothing

\* A step inside the exchange: what may run does not change.
LEMMA OneExchanged ==
    ASSUME OneInv, StateInv', SourceInv',
           UNCHANGED <<sched, job, saved>>, ~unrestored' => ~unrestored,
           ~unrestored' /\ MayRun /\ AllOfOne => AllOfOne'
    PROVE  OneInv'
<1>1. MayRun' => MayRun
  BY DEF MayRun
<1> QED
  BY <1>1 DEF OneInv

\* Every step keeps what may run to one version, if every promote that begins its
\* backups also ends them.
LEMMA OneStep ==
    ASSUME OneInv, [Next]_vars, [BackupEnds]_vars
    PROVE  OneInv'
<1>0. /\ StateInv /\ SourceInv /\ QuietInv /\ TypeInv
      /\ StateInv' /\ SourceInv'
  BY StateStep, SourceStep DEF OneInv, StateInv, CleanInv, QuietInv
<1>1. ASSUME NEW s \in Script, StartJob(s), UNCHANGED unrestored PROVE OneInv'
  <2>1. MayRun /\ UNCHANGED <<prod, backup, pc, op, at, saved, unrestored>>
    BY <1>1 DEF StartJob, MayRun
  <2> QED
    BY <1>0, <2>1, OneBeside
<1>2. ASSUME NEW s \in Script, EndJob(s), UNCHANGED unrestored PROVE OneInv'
  <2>1. UNCHANGED <<prod, backup, sched, pc, op, at, saved, unrestored>>
    BY <1>2 DEF EndJob
  <2>2. MayRun' => MayRun
    BY <1>2, <1>0, <2>1 DEF EndJob, MayRun, TypeInv, TypeOK
  <2> QED
    BY <1>0, <2>1, <2>2, OneBeside
<1>3. CASE /\ \/ \E s \in Script, k \in Kind : Learn(s, k)
              \/ MarkTraffic \/ HealthSwitch
              \/ \E v \in Version : Configure(v)
           /\ UNCHANGED unrestored
  <2>1. UNCHANGED <<prod, backup, sched, job, pc, op, at, saved, unrestored>>
    BY <1>3 DEF Learn, MarkTraffic, HealthSwitch, Configure, routerVars
  <2>2. MayRun' => MayRun
    BY <2>1 DEF MayRun
  <2> QED
    BY <1>0, <2>1, <2>2, OneBeside
<1>4. CASE StageBegin /\ UNCHANGED unrestored
  <2>1. /\ pc = "idle" /\ pc' = "preclean"
        /\ UNCHANGED <<prod, backup, sched, job, unrestored>>
        /\ saved' = [old |-> prod, new |-> [s \in Script |-> desired], sched |-> sched]
    BY <1>4 DEF StageBegin, Begin, Go, routerVars
  <2>2. AllOfOne => Uniform(saved'.old) /\ Uniform(saved'.new)
    BY <2>1 DEF AllOfOne, Uniform, Mutating
  <2> QED
    BY <1>0, <2>1, <2>2, OnePassed DEF Mutating
<1>5. CASE StageCleanBegin /\ UNCHANGED unrestored
  <2>1. /\ pc = "idle" /\ pc' = "unstage"
        /\ UNCHANGED <<prod, backup, sched, job, saved, unrestored>>
    BY <1>5 DEF StageCleanBegin, Begin, Go, routerVars
  <2> QED
    BY <1>0, <2>1, OnePassed DEF AllOfOne, Mutating
<1>6. CASE PromoteBegin /\ UNCHANGED unrestored
  <2>1. /\ pc = "idle" /\ pc' = "backup"
        /\ UNCHANGED <<prod, backup, sched, job, unrestored>>
        /\ saved' = [old |-> prod, new |-> [s \in Script |-> desired], sched |-> sched]
    BY <1>6 DEF PromoteBegin, Begin, Go, routerVars
  <2>2. AllOfOne => Uniform(saved'.old) /\ Uniform(saved'.new)
    BY <2>1 DEF AllOfOne, Uniform, Mutating
  <2> QED
    BY <1>0, <2>1, <2>2, OnePassed DEF Mutating
<1>7. CASE RollbackBegin /\ UNCHANGED unrestored
  <2>1. /\ pc = "idle" /\ pc' = "pause"
        /\ UNCHANGED <<prod, backup, sched, job, unrestored>>
        /\ saved' = [old |-> prod, new |-> backup, sched |-> sched]
    BY <1>7 DEF RollbackBegin, Begin, Go, routerVars
  <2>2. AllOfOne => Uniform(saved'.old) /\ Uniform(saved'.new)
    BY <2>1 DEF AllOfOne, Mutating
  <2> QED
    BY <1>0, <2>1, <2>2, OnePassed DEF Mutating
<1>8. CASE /\ Preclean \/ AddStage \/ Unstage \/ Pause \/ Resume
           /\ Captured /\ UNCHANGED unrestored
  <2>1. /\ pc \in {"preclean", "add", "unstage", "pause", "resume"}
        /\ pc' \in {"preclean", "add", "unstage", "pause", "resume", "wait", "idle"}
    BY <1>8, <1>0, StepFits, GoFits DEF Preclean, AddStage, Unstage, Pause, Resume, Visiting
  <2>2. /\ UNCHANGED <<prod, backup, job, unrestored>>
        /\ sched' \subseteq sched \cup saved.sched
    BY <1>8 DEF Preclean, AddStage, Unstage, Pause, Resume
  <2>3. saved'.sched \subseteq saved.sched
    BY <1>8, <1>0, Keeps DEF NoneSaved
  <2>4. AllOfOne => Uniform(saved'.old) /\ Uniform(saved'.new)
    BY <1>8, <1>0, OneKept
  <2> QED
    BY <1>0, <2>1, <2>2, <2>3, <2>4, OnePassed DEF Mutating
<1>9. CASE RemoveBackup /\ Captured /\ UNCHANGED unrestored
  <2>1. pc' # "idle"
    BY <1>9 DEF RemoveBackup, BackupEnds, vars
  <2>2. /\ pc = "backup" /\ pc' = "copy" /\ saved' = saved
        /\ UNCHANGED <<prod, sched, job, unrestored>>
    BY <1>9, <1>0, <2>1, Keeps DEF RemoveBackup, Go
  <2> QED
    BY <1>0, <2>2, OneExchanged DEF AllOfOne, Uniform, Mutating
<1>10. CASE AddBackup /\ Captured /\ UNCHANGED unrestored
  <2>1. pc' # "idle"
    BY <1>10 DEF AddBackup, BackupEnds, vars
  <2>2. /\ pc = "copy" /\ op = "promote" /\ op' = op /\ saved' = saved
        /\ UNCHANGED <<prod, sched, job, unrestored>>
        /\ pc' \in {"backup", "pause"}
    BY <1>10, <1>0, <2>1, Keeps DEF AddBackup, Go, TypeInv, CommandFits
  <2>3. pc' = "pause" => \A s \in Script : backup'[s] = saved.old[s]
    BY <1>0, <2>2 DEF SourceInv
  <2> QED
    BY <1>0, <2>2, <2>3, OneExchanged DEF AllOfOne, Uniform, Mutating
<1>11. CASE WaitIdle /\ Captured /\ UNCHANGED unrestored
  <2>1. /\ pc = "wait" /\ UNCHANGED <<prod, backup, sched, job, unrestored, op>>
        /\ at' = 1 /\ pc' \in {"write", "clean", "resume"}
        /\ pc' = "clean" => op # "promote"
    BY <1>11 DEF WaitIdle, Go, routerVars
  <2>2. saved' = saved /\ \A i \in DOMAIN Managed : ~(i < 1)
    BY <1>11, <1>0, <2>1, Keeps, Scripts
  <2> QED
    BY <1>0, <2>1, <2>2, OneExchanged DEF AllOfOne, Uniform, Mutating
<1>12. CASE WriteSource /\ Captured /\ UNCHANGED unrestored
  <2>1. /\ pc = "write" /\ UNCHANGED <<backup, sched, job, op, unrestored>>
        /\ Here \in Script /\ at \in 1..Len(Managed) /\ prod \in [Script -> Version]
    BY <1>12, <1>0, Visits DEF WriteSource, Visiting, TypeInv, TypeOK
  <2>2. /\ pc' \in {"write", "clean", "resume", "restore", "disable"}
        /\ pc' \in {"write", "clean", "resume"} =>
              /\ prod' = [prod EXCEPT ![Here] = saved.new[Here]]
              /\ \/ at < Len(Managed) /\ at' = at + 1 /\ pc' = "write"
                 \/ at = Len(Managed) /\ pc' # "write"
    BY <1>12, <1>0, <2>1, StepFits
       DEF WriteSource, Visiting, Go, TypeInv, CommandFits, Replacing
  <2>3. saved' = saved
    BY <1>12, <1>0, <2>2, Keeps
  <2>4. CASE pc' \in {"restore", "disable"}
    BY <1>0, <2>1, <2>3, <2>4, OneExchanged DEF AllOfOne, Mutating
  <2>5. CASE pc' \in {"write", "clean", "resume"}
    <3>1. ASSUME AllOfOne, NEW i \in DOMAIN Managed, i < at + 1
          PROVE  prod'[Managed[i]] = saved.new[Managed[i]]
      <4>1. i = at \/ prod[Managed[i]] = saved.new[Managed[i]]
        BY <2>1, <3>1, Scripts DEF AllOfOne
      <4>2. Managed[i] \in Script /\ prod' = [prod EXCEPT ![Here] = saved.new[Here]]
        BY <2>2, <2>5, Scripts
      <4> QED
        BY <2>1, <4>1, <4>2 DEF Here
    <3>2. CASE pc' = "write"
      BY <1>0, <2>1, <2>2, <2>3, <3>1, <3>2, OneExchanged DEF AllOfOne, Mutating
    <3>3. CASE pc' # "write"
      <4>1. AllOfOne => \A s \in Script : prod'[s] = saved.new[s]
        <5> SUFFICES ASSUME AllOfOne, NEW s \in Script PROVE prod'[s] = saved.new[s]
          OBVIOUS
        <5>1. PICK i \in DOMAIN Managed : s = Managed[i]
          BY Scripts
        <5>2. at = Len(Managed) /\ i < at + 1
          BY <2>2, <2>5, <3>3, Scripts
        <5> QED
          BY <3>1, <5>1, <5>2
      <4>2. AllOfOne => AllOfOne'
        BY <2>1, <2>3, <2>5, <3>3, <4>1 DEF AllOfOne, Uniform
      <4> QED
        BY <1>0, <2>1, <2>3, <4>2, OneExchanged
    <3> QED
      BY <3>2, <3>3
  <2> QED
    BY <2>2, <2>4, <2>5
<1>13. CASE Clean /\ Captured /\ UNCHANGED unrestored
  <2>1. /\ pc = "clean" /\ UNCHANGED <<prod, backup, sched, job, op, unrestored>>
        /\ pc' \in {"clean", "resume", "write", "restore", "disable"}
        /\ pc' = "resume" => op = "promote"
        /\ pc' = "write" => at' = 1
    BY <1>13 DEF Clean, Go
  <2>2. saved' = saved /\ \A i \in DOMAIN Managed : ~(i < 1)
    BY <1>13, <1>0, <2>1, Keeps, Scripts
  <2>3. AllOfOne => AllOfOne'
    BY <2>1, <2>2 DEF AllOfOne, Uniform, Mutating
  <2> QED
    BY <1>0, <2>1, <2>2, <2>3, OneExchanged
<1>14. CASE DisableMangle /\ Captured /\ UNCHANGED unrestored
  <2>1. /\ pc = "disable" /\ UNCHANGED <<prod, backup, sched, job, op, unrestored>>
        /\ sched = {} /\ \A s \in Script : job'[s] = None
        /\ pc' \in {"idle", "restore"}
    BY <1>14, <1>0 DEF DisableMangle, Go, QuietInv, QuietWhileMutating
  <2>2. CASE pc' = "idle"
    BY <1>14, <1>0, <2>1, <2>2, Stopped DEF StateInv, OneInv
  <2>3. CASE pc' = "restore"
    <3>1. saved' = saved
      BY <1>14, <1>0, <2>3, Keeps
    <3> QED
      BY <1>0, <2>1, <2>3, <3>1, OneExchanged DEF AllOfOne, Mutating
  <2> QED
    BY <2>1, <2>2, <2>3
<1>15. CASE RestoreSource /\ Captured
  <2>1. /\ pc = "restore" /\ UNCHANGED <<backup, sched, job, op>>
        /\ at \in 1..Len(Managed) /\ sched = {} /\ \A s \in Script : job'[s] = None
        /\ ~unrestored' => ~unrestored
    BY <1>15, <1>0, Visits DEF RestoreSource, Visiting, QuietInv, QuietWhileMutating
  <2>2. /\ pc' \in {"restore", "resume", "disable", "idle"}
        /\ pc' = "resume" => op = "promote" /\ at = Len(Managed)
    BY <1>15, <1>0, <2>1, StepFits DEF RestoreSource, AfterRestore, Visiting
  <2>3. CASE pc' = "idle"
    BY <1>15, <1>0, <2>1, <2>3, Stopped DEF StateInv, OneInv
  <2>4. CASE pc' # "idle"
    <3>1. saved' = saved
      BY <1>15, <1>0, <2>4, Keeps
    <3>2. pc' = "resume" /\ ~unrestored' => \A s \in Script : prod'[s] = saved.old[s]
      <4> SUFFICES ASSUME pc' = "resume", ~unrestored', NEW s \in Script
                   PROVE  prod'[s] = saved.old[s]
        OBVIOUS
      <4>1. PICK i \in DOMAIN Managed : s = Managed[i]
        BY Scripts
      <4>2. op = "promote" /\ i < at + 1
        BY <2>2, Scripts
      <4> QED
        BY <1>15, <1>0, <4>1, <4>2, PutBack
    <3>3. ~unrestored' /\ AllOfOne => AllOfOne'
      BY <2>1, <2>2, <2>4, <3>1, <3>2 DEF AllOfOne, Uniform, Mutating
    <3> QED
      BY <1>0, <2>1, <3>1, <3>3, OneExchanged
  <2> QED
    BY <2>3, <2>4
<1>16. CASE Crash /\ UNCHANGED unrestored
  <2>1. /\ pc' = "idle" /\ saved' = NoneSaved
        /\ UNCHANGED <<prod, backup, sched, job, unrestored>>
        /\ pc \notin {"backup", "copy"}
    BY <1>16 DEF Crash, Go, routerVars, BackupEnds, vars
  <2>2. CASE pc \in Mutating
    <3>1. sched' = {} /\ \A s \in Script : job'[s] = None
      BY <1>0, <2>1, <2>2 DEF QuietInv, QuietWhileMutating, Mutating
    <3> QED
      BY <1>0, <2>1, <3>1, Stopped DEF StateInv, OneInv, Captured
  <2>3. CASE pc \notin Mutating
    <3>1. Uniform(saved'.old) /\ Uniform(saved'.new) /\ saved'.sched = {}
      BY <2>1 DEF NoneSaved, Nothing, Uniform
    <3> QED
      BY <1>0, <2>1, <2>3, <3>1, OnePassed DEF Mutating
  <2> QED
    BY <2>2, <2>3
<1>17. CASE UNCHANGED vars
  <2>1. UNCHANGED <<prod, backup, sched, job, pc, op, at, saved, unrestored>>
    BY <1>17 DEF vars, routerVars
  <2>2. MayRun' => MayRun
    BY <2>1 DEF MayRun
  <2> QED
    BY <1>0, <2>1, <2>2, OneBeside
<1> QED
  BY <1>1, <1>2, <1>3, <1>4, <1>5, <1>6, <1>7, <1>8, <1>9, <1>10, <1>11, <1>12,
     <1>13, <1>14, <1>15, <1>16, <1>17
     DEF Next, Command, Start, Router

\* The backups are the one place where versions come to be mixed: if every promote
\* that begins its backups ends them, jobs that run beside each other are of one
\* version, whatever else fails or dies, unless a source could not be restored.
THEOREM OneVersion == Spec /\ BackupsFinish => [](~unrestored => OneVersionRuns)
<1>1. OneInv => (~unrestored => OneVersionRuns)
  <2> SUFFICES ASSUME OneInv, ~unrestored, NEW r \in Script, NEW s \in Script,
                      job[r] # None, job[s] # None
               PROVE  job[r] = job[s]
    BY DEF OneVersionRuns
  <2>1. MayRun /\ pc \notin Mutating
    BY DEF OneInv, StateInv, CleanInv, QuietInv, QuietWhileMutating, MayRun, Mutating
  <2>2. job[r] = prod[r] /\ job[s] = prod[s] /\ prod[r] = prod[s]
    BY <2>1 DEF OneInv, StateInv, AllOfOne, Uniform
  <2> QED
    BY <2>2
<1> QED
  BY <1>1, OneInit, OneStep, PTL DEF Spec, BackupsFinish

-----------------------------------------------------------------------------
(* What Migration implements.                                               *)

\* Every step of a command, a job, traffic or a crash is one of Handover's or none:
\* sources are written and state is cleared while nothing runs, and a scheduler is
\* resumed only on state of the sources in production.
LEMMA StepHandsOver ==
    ASSUME StateInv, [Next]_vars PROVE [H!Next]_(H!vars)
<1>0. StateInv /\ QuietInv /\ TypeInv /\ TypeInv'
  BY TypeStep DEF StateInv, CleanInv, QuietInv
<1>1. CASE UNCHANGED <<prod, sched, job, residue, unrestored>>
  BY <1>1 DEF H!vars
<1>2. ASSUME NEW s \in Script, StartJob(s), UNCHANGED unrestored PROVE H!Next
  BY <1>2 DEF StartJob, H!Next, H!Run
<1>3. ASSUME NEW s \in Script, EndJob(s), UNCHANGED unrestored PROVE H!Next
  BY <1>3 DEF EndJob, H!Next, H!End
<1>4. ASSUME NEW s \in Script, NEW k \in Kind, Learn(s, k), UNCHANGED unrestored
      PROVE  H!Next
  BY <1>4 DEF Learn, H!Next, H!Write
<1>5. ASSUME MarkTraffic, UNCHANGED unrestored PROVE H!Next
  BY <1>5 DEF MarkTraffic, H!Next, H!Spread, Kind
<1>6. ASSUME Pause, UNCHANGED unrestored PROVE H!Next
  BY <1>6 DEF Pause, H!Next, H!Pause
<1>7. ASSUME WriteSource, UNCHANGED unrestored PROVE [H!Next]_(H!vars)
  <2>1. Here \in Script /\ saved.new[Here] \in Version
    BY <1>7, <1>0, Visits DEF WriteSource, Visiting, TypeInv, CommandFits, Replacing
  <2>2. H!Paused
    BY <1>7, <1>0 DEF WriteSource, QuietInv, QuietWhileMutating, H!Paused
  <2>3. /\ prod' \in {prod, [prod EXCEPT ![Here] = saved.new[Here]]}
        /\ UNCHANGED <<sched, job, residue, unrestored>>
    BY <1>7 DEF WriteSource
  <2> QED
    BY <2>1, <2>2, <2>3 DEF H!Next, H!Replace, H!vars
<1>8. ASSUME Clean, UNCHANGED unrestored PROVE H!Next
  <2>1. H!Paused
    BY <1>8, <1>0 DEF Clean, QuietInv, QuietWhileMutating, H!Paused
  <2>2. residue' \in [Kind -> SUBSET Version]
    BY <1>0 DEF TypeInv, TypeOK
  <2>3. \A k \in Kind : residue'[k] \subseteq residue[k]
    BY <1>8, <1>0 DEF Clean, TypeInv, TypeOK
  <2> QED
    BY <1>8, <2>1, <2>2, <2>3 DEF Clean, H!Next, H!Clear
<1>9. ASSUME RestoreSource, Captured PROVE [H!Next]_(H!vars)
  <2>1. /\ Here \in Script
        /\ (IF op = "promote" THEN saved.old[Here] ELSE saved.new[Here]) \in Version
    BY <1>9, <1>0, Visits DEF RestoreSource, Visiting, TypeInv, CommandFits, Replacing
  <2>2. H!Paused
    BY <1>9, <1>0 DEF RestoreSource, QuietInv, QuietWhileMutating, H!Paused
  <2> QED
    BY <1>9, <2>1, <2>2 DEF RestoreSource, H!Next, H!Replace
<1>10. ASSUME Resume, UNCHANGED unrestored PROVE H!Next
  <2>1. Here \in Script
    BY <1>10, <1>0, Visits DEF Resume, Visiting
  <2>2. CASE sched' \subseteq sched
    BY <1>10, <2>2 DEF Resume, H!Next, H!Pause
  <2>3. CASE Here \in saved.sched /\ sched' = sched \cup {Here}
    <3>1. MayRun /\ pc \notin Mutating
      BY <1>10, <2>3 DEF Resume, MayRun, Mutating
    <3>2. H!Own \/ unrestored
      BY <3>1, <1>0 DEF StateInv, WrittenBy, H!Own
    <3>3. sched' \subseteq Script
      BY <1>0, <2>1, <2>3 DEF TypeInv, TypeOK
    <3> QED
      BY <1>10, <3>2, <3>3 DEF Resume, H!Next, H!Resume
  <2> QED
    BY <1>10, <2>2, <2>3 DEF Resume
<1>11. CASE /\ \/ HealthSwitch \/ (\E v \in Version : Configure(v)) \/ Start \/ Crash
               \/ Preclean \/ AddStage \/ Unstage \/ RemoveBackup \/ AddBackup
               \/ WaitIdle \/ DisableMangle
            /\ UNCHANGED unrestored
  BY <1>1, <1>11
     DEF HealthSwitch, Configure, Start, StageBegin, StageCleanBegin, PromoteBegin,
         RollbackBegin, Begin, Crash, Preclean, AddStage, Unstage, RemoveBackup,
         AddBackup, WaitIdle, DisableMangle, routerVars
<1>12. CASE UNCHANGED vars
  BY <1>1, <1>12 DEF vars, routerVars
<1> QED
  BY <1>2, <1>3, <1>4, <1>5, <1>6, <1>7, <1>8, <1>9, <1>10, <1>11, <1>12
     DEF Next, Command, Router

\* Migration implements Handover, for all scripts, versions and faults: seen from the
\* scripts that run, a migration is an exchange of sources in a pause, wherever the
\* command fails, dies or gives up.
THEOREM HandoverImplemented == Spec => ImplementsHandover
<1>1. Init => H!Init
  BY DEF Init, Nothing, H!Init
<1> QED
  BY <1>1, StepHandsOver, StateInit, StateStep, PTL DEF Spec, ImplementsHandover, H!Spec

=============================================================================
