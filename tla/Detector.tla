------------------------------ MODULE Detector ------------------------------
(***************************************************************************)
(* FAST and DETECT, the two scripts that look for failing DIRECT           *)
(* connections and move their tuple into TEST.  They share everything but  *)
(* the connections they are interested in, and run concurrently: every     *)
(* step below is a point where the other one, JUDGE, HEALTH, a garbage     *)
(* collection or a timeout may intervene.                                  *)
(*                                                                         *)
(* One job takes a snapshot of the connection table and then handles one   *)
(* flow after another from it:                                             *)
(*   loop     pick a flow, check vpn_direct, OK, TEST and COOLDOWN         *)
(*   evidence what the profile requires before TEST                        *)
(*   rules    create the lazy mangle rules of the port                     *)
(*   clear    clear the evidence that was used                             *)
(*   enter    add the tuple to TEST and drop the failed connection         *)
(***************************************************************************)
EXTENDS RouterState

VARIABLES
    dpc,        \* where each job is
    snap,       \* flows of the snapshot not handled yet, as they were then
    cur,        \* the flow being handled
    reentry,    \* slowRecheck: a failure seen in the DIRECT re-check window
    witness     \* history: the earlier failure DIRECT1 named

detVars  == <<dpc, snap, cur, reentry, witness>>

DetectorTypeOK ==
    /\ dpc \in [Detectors -> {"idle", "loop", "evidence", "rules", "clear", "enter"}]
    /\ snap \in [Detectors -> SUBSET (Conn \X {"silent", "stalled"})]
    /\ cur \in [Detectors -> Conn \cup {NoConn}]
    /\ \A d \in Detectors : dpc[d] \notin {"idle", "loop"} => cur[d] \in Conn
    /\ reentry \in [Detectors -> BOOLEAN]
    /\ witness \in [Detectors -> Conn \cup {NoConn}]

DetectorInit ==
    /\ dpc = [d \in Detectors |-> "idle"]
    /\ snap = [d \in Detectors |-> {}]
    /\ cur = [d \in Detectors |-> NoConn]
    /\ reentry = [d \in Detectors |-> FALSE]
    /\ witness = [d \in Detectors |-> NoConn]

\* Defect: the packet thresholds are not applied.
TriggerEarly(d) == {"idle", "silent", "stalled"}

\* FAST triggers on connections without a reply; DETECT also on late stalls.
Trigger(d) == IF d = "fast" THEN {"silent"} ELSE {"silent", "stalled"}

\* Decided for, or being decided: no detector touches such a tuple.
Undecided(t) == t \notin ok \cup test \cup cool

Eligible(t) == ~Bypassed(t) /\ Undecided(t)

\* The job turns to the flows that are left; nothing the script holds locally
\* about the one it handled survives.
Continue(d, left) ==
    /\ dpc' = [dpc EXCEPT ![d] = IF left = {} THEN "idle" ELSE "loop"]
    /\ cur' = [cur EXCEPT ![d] = NoConn]
    /\ reentry' = [reentry EXCEPT ![d] = FALSE]
    /\ witness' = [witness EXCEPT ![d] = NoConn]

-----------------------------------------------------------------------------
\* The job exits at once while the sentinel rule is disabled.  It takes a
\* connection without a mark in the print for a DIRECT one.
TakeSnapshot(d) ==
    /\ d \in Active \cap sched /\ dpc[d] = "idle" /\ fixedOn
    /\ \E seen \in Unmarked :
          LET flows == {f \in seen \X Trigger(d) : stat[f[1]] = f[2]}
          IN /\ flows # {}
             /\ snap' = [snap EXCEPT ![d] = flows]
    /\ dpc' = [dpc EXCEPT ![d] = "loop"]
    /\ UNCHANGED <<routerVars, cur, reentry, witness, histVars>>

Pick(d, c, s) ==
    /\ dpc[d] = "loop" /\ <<c, s>> \in snap[d]
    /\ snap' = [snap EXCEPT ![d] = @ \ {<<c, s>>}]

Skip(d, c, s) ==
    /\ Pick(d, c, s)
    /\ \/ ~Eligible(TupleOf[c])
       \/ s = "stalled" /\ watch[TupleOf[c]] = "fresh"
    /\ Continue(d, snap'[d])
    /\ UNCHANGED <<routerVars, histVars>>

\* The first late stall only starts the WATCH timer.
StartWatch(d, c) ==
    LET t == TupleOf[c] IN
    /\ Pick(d, c, "stalled")
    /\ Eligible(t) /\ watch[t] = "none"
    /\ watch' = [watch EXCEPT ![t] = "fresh"]
    /\ Continue(d, snap'[d])
    /\ UNCHANGED <<connVars, envVars, test, ok, cool, direct1, awg1, recheck,
                   ruleVars, histVars>>

Suspect(d, c, s) ==
    LET t == TupleOf[c] IN
    /\ Pick(d, c, s)
    /\ Eligible(t)
    /\ s = "stalled" => watch[t] = "ripe"
    /\ dpc' = [dpc EXCEPT ![d] = IF Profile = "fast" THEN "rules" ELSE "evidence"]
    /\ cur' = [cur EXCEPT ![d] = c]
    /\ UNCHANGED <<routerVars, reentry, witness, histVars>>

-----------------------------------------------------------------------------
(* MIDDLE and SLOW: evidence before TEST.                                   *)

\* SLOW: AWG1 without RECHECK or the reverse is stale, and cleared first.
StaleEvidence(t) == Profile = "slow" /\ ((t \in recheck) # (awg1[t] # NoConn))
RecheckOpen(t)   == Profile = "slow" /\ t \in recheck /\ awg1[t] # NoConn
FirstFailure(t)  == IF StaleEvidence(t) THEN NoConn ELSE direct1[t]

\* Defect: the connection DIRECT1 names is taken for an independent one.
AnyFailure(t, c) == FirstFailure(t) # NoConn

Independent(t, c) == FirstFailure(t) \notin {NoConn, c}

ClearStale(t) ==
    /\ awg1' = IF StaleEvidence(t) THEN [awg1 EXCEPT ![t] = NoConn] ELSE awg1
    /\ recheck' = IF StaleEvidence(t) THEN recheck \ {t} ELSE recheck

\* A failure inside the re-check window needs no DIRECT1.
FailedRecheck(d) ==
    /\ dpc[d] = "evidence"
    /\ RecheckOpen(TupleOf[cur[d]])
    /\ reentry' = [reentry EXCEPT ![d] = TRUE]
    /\ dpc' = [dpc EXCEPT ![d] = "rules"]
    /\ UNCHANGED <<routerVars, snap, cur, witness, histVars>>

\* No DIRECT1 yet: this failure becomes it, and its connection is removed so
\* that the next evidence comes from a new one.
RecordFirst(d) ==
    LET c == cur[d] t == TupleOf[cur[d]] IN
    /\ dpc[d] = "evidence"
    /\ ~RecheckOpen(t) /\ FirstFailure(t) = NoConn
    /\ ClearStale(t)
    /\ direct1' = [direct1 EXCEPT ![t] = c]
    /\ Drop({c})
    /\ Continue(d, snap[d])
    /\ UNCHANGED <<envVars, watch, test, ok, cool, ruleVars,
                   snap, histVars>>

\* RouterOS refuses the add: the tuple keeps DIRECT, the connection stays.
RecordFirstRefused(d) ==
    LET t == TupleOf[cur[d]] IN
    /\ Faults
    /\ dpc[d] = "evidence"
    /\ ~RecheckOpen(t) /\ FirstFailure(t) = NoConn
    /\ ClearStale(t)
    /\ direct1' = [direct1 EXCEPT ![t] = NoConn]
    /\ Continue(d, snap[d])
    /\ UNCHANGED <<connVars, envVars, watch, test, ok, cool, ruleVars, snap,
                   histVars>>

\* The connection DIRECT1 names is no independent evidence; nor is any when the
\* comment of DIRECT1 cannot be read.
SameFailure(d) ==
    LET c == cur[d] IN
    /\ dpc[d] = "evidence"
    /\ ~RecheckOpen(TupleOf[c])
    /\ \/ FirstFailure(TupleOf[c]) = c
       \/ Faults /\ FirstFailure(TupleOf[c]) # NoConn
    /\ Drop({c})
    /\ Continue(d, snap[d])
    /\ UNCHANGED <<envVars, listVars, ruleVars, snap, histVars>>

SecondFailure(d) ==
    LET t == TupleOf[cur[d]] IN
    /\ dpc[d] = "evidence"
    /\ ~RecheckOpen(t) /\ Independent(t, cur[d])
    /\ witness' = [witness EXCEPT ![d] = FirstFailure(t)]
    /\ dpc' = [dpc EXCEPT ![d] = "rules"]
    /\ UNCHANGED <<routerVars, snap, cur, reentry, histVars>>

-----------------------------------------------------------------------------
\* Defects: one rule of the pair is not created.
TestRuleOnly(p) == {<<p, "TEST">>}
OkRuleOnly(p)   == {<<p, "OK">>}

RulePair(p) == {<<p, "TEST">>, <<p, "OK">>}

\* Both rules of the port exist before the tuple can enter TEST.  A rule that
\* exists is left as it is; a new one is created enabled.
EnsureRules(d) ==
    /\ dpc[d] = "rules"
    /\ lazy' = [r \in Rule |-> IF r \in RulePair(PortOf(TupleOf[cur[d]]))
                                  /\ lazy[r] = "absent"
                               THEN "on" ELSE lazy[r]]
    /\ dpc' = [dpc EXCEPT ![d] = IF Profile = "fast" THEN "enter" ELSE "clear"]
    /\ UNCHANGED <<connVars, envVars, listVars, fixedOn, snap, cur, reentry,
                   witness, histVars>>

\* RouterOS refuses a rule, OK before TEST: the flow keeps DIRECT.
RulesRefused(d) ==
    LET p == PortOf(TupleOf[cur[d]]) IN
    /\ Faults /\ dpc[d] = "rules"
    /\ \/ /\ \E r \in RulePair(p) : lazy[r] = "absent"
          /\ UNCHANGED lazy
       \/ /\ \A r \in RulePair(p) : lazy[r] = "absent"
          /\ lazy' = [r \in Rule |-> IF r = <<p, "OK">> THEN "on" ELSE lazy[r]]
    /\ Continue(d, snap[d])
    /\ UNCHANGED <<connVars, envVars, listVars, fixedOn, snap, histVars>>

\* The evidence lists agree with the transition the job is making.
EvidenceFits(d, t) ==
    Profile = "slow" => IF reentry[d] THEN awg1[t] # NoConn
                        ELSE awg1[t] = NoConn /\ t \notin recheck

\* The evidence that was used is removed; if another script changed the SLOW
\* evidence meanwhile the flow is abandoned with an error.
ClearEvidence(d) ==
    LET t == TupleOf[cur[d]] IN
    /\ dpc[d] = "clear"
    /\ direct1' = [direct1 EXCEPT ![t] = NoConn]
    /\ recheck' = IF reentry[d] THEN recheck \ {t} ELSE recheck
    /\ IF EvidenceFits(d, t)
       THEN /\ dpc' = [dpc EXCEPT ![d] = "enter"]
            /\ rechecked' = IF reentry[d] THEN rechecked \cup {t} ELSE rechecked
            /\ UNCHANGED <<cur, reentry, witness>>
       ELSE /\ Continue(d, snap[d])
            /\ UNCHANGED rechecked
    /\ UNCHANGED <<connVars, envVars, watch, test, ok, cool, awg1, ruleVars,
                   snap, basis, verdicts, before, stray>>

EnterTest(d) ==
    LET c == cur[d] t == TupleOf[cur[d]] IN
    /\ dpc[d] = "enter" /\ t \notin test
    /\ watch' = [watch EXCEPT ![t] = "none"]
    /\ test' = test \cup {t}
    /\ Drop({c})
    /\ basis' = [basis EXCEPT ![t] =
                   IF reentry[d] THEN @ \cup {c} ELSE {c, witness[d]} \ {NoConn}]
    /\ Continue(d, snap[d])
    /\ UNCHANGED <<envVars, ok, cool, direct1, awg1, recheck,
                   ruleVars, snap, verdicts, rechecked, before, stray>>

\* The add fails, because the other detector was first or RouterOS refuses it;
\* the error ends the flow before its connection is removed.
EnterTestRefused(d) ==
    LET t == TupleOf[cur[d]] IN
    /\ dpc[d] = "enter" /\ (t \in test \/ Faults)
    /\ watch' = [watch EXCEPT ![t] = "none"]
    /\ Continue(d, snap[d])
    /\ UNCHANGED <<connVars, envVars, test, ok, cool, direct1, awg1, recheck,
                   ruleVars, snap, histVars>>

DetectorJob(d) ==
    \/ TakeSnapshot(d)
    \/ \E c \in Conn :
          \/ StartWatch(d, c)
          \/ \E s \in {"silent", "stalled"} : Skip(d, c, s) \/ Suspect(d, c, s)
    \/ FailedRecheck(d)
    \/ RecordFirst(d) \/ RecordFirstRefused(d)
    \/ SameFailure(d) \/ SecondFailure(d)
    \/ EnsureRules(d) \/ RulesRefused(d) \/ ClearEvidence(d)
    \/ EnterTest(d) \/ EnterTestRefused(d)

DetectorNext == \E d \in Detectors : DetectorJob(d)

=============================================================================
