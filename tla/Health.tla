------------------------------- MODULE Health -------------------------------
(***************************************************************************)
(* HEALTH probes the routing target every few seconds.  After two misses   *)
(* it takes the AUTO-AWG rules out of the packet path and forgets what was *)
(* being tested; the first good probe brings them back and reconnects the  *)
(* confirmed destinations.                                                 *)
(*                                                                         *)
(* A job pings for up to two seconds and only then reads the rules, so the *)
(* result it acts on may be old; what it does then takes several commands. *)
(***************************************************************************)
EXTENDS RouterState

VARIABLES
    hpc,        \* where the job is
    probe,      \* what its pings found
    missed      \* auto_awg_health_fail: the first misses, by the key of the probe

healthVars == <<hpc, probe, missed>>

\* The ways a probe can fail, each with a key of its own: the pings from the
\* address of the interface, or no address to ping from.
Down == {"silent", "gone"}

HealthTypeOK ==
    /\ hpc \in {"idle", "probed", "recover", "purge", "forget"}
    /\ probe \in {"up", "silent", "gone"}
    /\ missed \in [Down -> {"none", "fresh", "old"}]

HealthInit ==
    /\ hpc = "idle"
    /\ probe = "up"
    /\ missed = [k \in Down |-> "none"]

HealthProbe ==
    /\ "health" \in Active \cap sched /\ hpc = "idle"
    /\ hpc' = "probed"
    /\ probe' = target
    /\ UNCHANGED <<routerVars, histVars, missed>>

\* Defect: only the fixed rules are enabled.
EnabledFixed == lazy

Enabled == [r \in Rule |-> IF lazy[r] = "off" THEN "on" ELSE lazy[r]]

HealthUp ==
    /\ hpc = "probed" /\ probe = "up"
    /\ missed' = [k \in Down |-> "none"]
    /\ IF fixedOn
       THEN hpc' = "idle" /\ UNCHANGED ruleVars
       ELSE /\ hpc' = "recover"
            /\ fixedOn' = TRUE
            /\ lazy' = Enabled
    /\ UNCHANGED <<connVars, envVars, listVars, histVars, probe>>

\* DIRECT connections to confirmed destinations are removed, so that they are
\* opened again through the target.
HealthRecover ==
    /\ hpc = "recover"
    /\ \E seen \in Unmarked :
          Drop({c \in seen : TupleOf[c] \in ok /\ ~Bypassed(TupleOf[c])})
    /\ hpc' = "idle"
    /\ UNCHANGED <<envVars, listVars, ruleVars, histVars, probe, missed>>

\* Defect: every miss is remembered under the fixed key.
FixedKey(p) == "gone"

MissKey(p) == p

\* The first miss is remembered for 8s under its key.  Jobs run every 3s and
\* ping for at most 2s, so the next job still finds it; an older one may be gone.
HealthMiss ==
    /\ hpc = "probed" /\ probe \in Down
    /\ fixedOn /\ missed[probe] = "none"
    /\ missed' = [k \in Down |-> IF k = MissKey(probe) THEN "fresh"
                                ELSE IF missed[k] = "fresh" THEN "old"
                                ELSE missed[k]]
    /\ hpc' = "idle"
    /\ UNCHANGED <<routerVars, histVars, probe>>

HealthStillDown ==
    /\ hpc = "probed" /\ probe \in Down /\ ~fixedOn
    /\ hpc' = "idle"
    /\ UNCHANGED <<routerVars, histVars, probe, missed>>

HealthDown ==
    /\ hpc = "probed" /\ probe \in Down
    /\ fixedOn /\ missed[probe] # "none"
    /\ missed' = [k \in Down |-> "none"]
    /\ fixedOn' = FALSE
    /\ lazy' = [r \in Rule |-> IF lazy[r] = "on" THEN "off" ELSE lazy[r]]
    /\ hpc' = "purge"
    /\ UNCHANGED <<connVars, envVars, listVars, histVars, probe>>

\* Defect: only the connections of confirmed tuples are removed.
ConfirmedOnly == Marked("ok")

Purged == Marked("test") \cup Marked("ok")

HealthPurge ==
    /\ hpc = "purge"
    /\ Drop(Purged)
    /\ hpc' = "forget"
    /\ UNCHANGED <<envVars, listVars, ruleVars, histVars, probe, missed>>

\* WATCH, TEST and the evidence go; OK and COOLDOWN are kept.
HealthForget ==
    /\ hpc = "forget"
    /\ watch' = [t \in Tuple |-> "none"]
    /\ test' = {} /\ recheck' = {}
    /\ direct1' = [t \in Tuple |-> NoConn]
    /\ awg1' = [t \in Tuple |-> NoConn]
    /\ hpc' = "idle"
    /\ UNCHANGED <<connVars, envVars, ok, cool, ruleVars, histVars, probe, missed>>

MissExpire(k) ==
    /\ missed[k] = "old"
    /\ missed' = [missed EXCEPT ![k] = "none"]
    /\ UNCHANGED <<routerVars, histVars, hpc, probe>>

HealthJob ==
    \/ HealthProbe \/ HealthUp \/ HealthRecover
    \/ HealthMiss \/ HealthStillDown \/ HealthDown
    \/ HealthPurge \/ HealthForget

HealthNext == HealthJob \/ \E k \in Down : MissExpire(k)

=============================================================================
