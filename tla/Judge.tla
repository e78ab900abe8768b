------------------------------- MODULE Judge -------------------------------
(***************************************************************************)
(* JUDGE decides about connections that carry the test or the ok mark:     *)
(* whether the tuple of a tested connection is confirmed (OK), needs more  *)
(* evidence, or failed (COOLDOWN), and whether a confirmed one still works.*)
(*                                                                         *)
(* One job takes a snapshot of the test-marked connections, handles them   *)
(* one by one, then does the same with the ok-marked ones.  The counters   *)
(* it judges by are those of the snapshot; the lists are read when a       *)
(* connection's turn comes.                                                *)
(***************************************************************************)
EXTENDS RouterState

VARIABLES
    jpc,        \* the mark whose connections the job is handling, or the
                \* transition it is in the middle of
    jsnap,      \* snapshot: connections not handled yet, with their counters
    jcur        \* the connection being judged, with its counters

judgeVars == <<jpc, jsnap, jcur>>

Counters == Conn \X Stat
NoneJudged == <<NoConn, "idle">>

JudgeTypeOK ==
    /\ jpc \in {"idle", "test", "window", "opened", "left", "reset", "coolTest",
                "ok", "coolOk"}
    /\ jsnap \subseteq Counters
    /\ jcur \in Counters \cup {NoneJudged}

JudgeInit ==
    /\ jpc = "idle"
    /\ jsnap = {}
    /\ jcur = NoneJudged

\* No reply under the target, or enough replies, by the counters of a snapshot.
Failed(s) == s = "silent"
Good(s)   == s \in {"replied", "served"}

-----------------------------------------------------------------------------
\* Defect: the snapshot is not filtered by the mark.
ReadingsOfAny(m) == {<<c, stat[c]>> : c \in Live}

\* Connections are queried by their mark.
Readings(m) == {<<c, stat[c]>> : c \in Marked(m)}

\* The job exits at once while the sentinel rule is disabled.
JudgeStart ==
    /\ "judge" \in Active \cap sched /\ jpc = "idle" /\ fixedOn
    /\ Marked("test") \cup Marked("ok") # {}
    /\ jpc' = "test"
    /\ jsnap' = Readings("test")
    /\ UNCHANGED <<routerVars, jcur, histVars>>

\* The test-marked connections are done: the second snapshot.
JudgeTurn ==
    /\ jpc = "test" /\ jsnap = {} /\ jcur = NoneJudged
    /\ jpc' = "ok"
    /\ jsnap' = Readings("ok")
    /\ UNCHANGED <<routerVars, jcur, histVars>>

\* A snapshot that RouterOS refuses ends the job as well.
JudgeEnd ==
    /\ jpc = "ok" \/ (Faults /\ jpc = "test")
    /\ jsnap = {} /\ jcur = NoneJudged
    /\ jpc' = "idle"
    /\ UNCHANGED <<routerVars, jsnap, jcur, histVars>>

\* A connection is judged only while its tuple is in the list of its mark and
\* not under VPN Direct.
JudgePick(c, s) ==
    LET t == TupleOf[c] IN
    /\ jcur = NoneJudged /\ <<c, s>> \in jsnap
    /\ jsnap' = jsnap \ {<<c, s>>}
    /\ jcur' = IF ~Bypassed(t) /\ s # "idle"
                  /\ t \in (IF jpc = "test" THEN test ELSE ok)
               THEN <<c, s>> ELSE NoneJudged
    /\ UNCHANGED <<routerVars, jpc, histVars>>

Judging(m, c) == jpc = m /\ jcur[1] = c /\ c # NoConn

JudgeDone == jcur' = NoneJudged /\ UNCHANGED <<jpc, jsnap>>

\* The watch and the evidence of a tuple go.
ForgetEvidence(t) ==
    /\ watch' = [watch EXCEPT ![t] = "none"]
    /\ direct1' = [direct1 EXCEPT ![t] = NoConn]
    /\ awg1' = [awg1 EXCEPT ![t] = NoConn]
    /\ recheck' = recheck \ {t}

\* With TEST, everything the profiles keep of it short of OK and COOLDOWN.
ForgetTuple(t) == test' = test \ {t} /\ ForgetEvidence(t)

-----------------------------------------------------------------------------
(* A test-marked connection.                                                *)

TestFailed(c) ==
    LET t == TupleOf[c] IN
    /\ Judging("test", c) /\ Failed(jcur[2])
    /\ ForgetTuple(t)
    /\ jpc' = "coolTest"
    /\ UNCHANGED <<connVars, envVars, ok, cool, ruleVars, jsnap, jcur, histVars>>

\* Defect: the re-check is never asked for.
NoRecheck == FALSE

NeedsRecheck == Profile = "slow"

\* Defect: no evidence is taken for evidence of another connection.
ConfirmableAtOnce(t, c) ==
    Profile # "fast" => /\ awg1[t] # c
                        /\ NeedsRecheck => t \notin recheck

\* MIDDLE and SLOW confirm only with AWG1 from another connection, SLOW only
\* when the re-check it opened was closed by a new DIRECT failure.
Confirmable(t, c) ==
    Profile # "fast" => /\ awg1[t] \notin {NoConn, c}
                        /\ NeedsRecheck => t \notin recheck

\* The tuple is confirmed; its connection stays and keeps the test mark.
Confirm(c) ==
    LET t == TupleOf[c] IN
    /\ Judging("test", c) /\ Good(jcur[2]) /\ Confirmable(t, c)
    /\ ok' = ok \cup {t}
    /\ ForgetTuple(t)
    /\ cool' = cool \ {t}
    /\ verdicts' = [verdicts EXCEPT ![t] =
                                     IF Profile = "fast" THEN {c} ELSE @ \cup {c}]
    /\ JudgeDone
    /\ UNCHANGED <<connVars, envVars, ruleVars, basis, rechecked, before, stray>>

\* The connection AWG1 names is no independent evidence; nor is any when the
\* comment of AWG1 cannot be read.
SameSuccess(c) ==
    LET t == TupleOf[c] IN
    /\ Judging("test", c) /\ Good(jcur[2]) /\ Profile # "fast"
    /\ NeedsRecheck => t \notin recheck
    /\ awg1[t] = c \/ (Faults /\ awg1[t] # NoConn)
    /\ Drop({c})
    /\ JudgeDone
    /\ UNCHANGED <<envVars, listVars, ruleVars, histVars>>

\* MIDDLE: the first success becomes AWG1; the tuple stays in TEST.
FirstSuccessMiddle(c) ==
    LET t == TupleOf[c] IN
    /\ Judging("test", c) /\ Good(jcur[2]) /\ Profile # "fast" /\ ~NeedsRecheck
    /\ awg1[t] = NoConn
    /\ awg1' = [awg1 EXCEPT ![t] = c]
    /\ verdicts' = [verdicts EXCEPT ![t] = {c}]
    /\ Drop({c})
    /\ JudgeDone
    /\ UNCHANGED <<envVars, watch, test, ok, cool, direct1,
                   recheck, ruleVars, basis, rechecked, before, stray>>

\* AWG1 or OK cannot be added: the tuple and its connection stay as they are.
SuccessRefused(c) ==
    LET t == TupleOf[c] IN
    /\ Faults
    /\ Judging("test", c) /\ Good(jcur[2])
    /\ \/ Profile # "fast" /\ ~NeedsRecheck /\ awg1[t] = NoConn
       \/ Confirmable(t, c) /\ t \notin ok
    /\ JudgeDone
    /\ UNCHANGED <<routerVars, histVars>>

\* SLOW: the first success becomes AWG1, and what is left of an older re-check goes
\* before.
FirstSuccessSlow(c) ==
    LET t == TupleOf[c] IN
    /\ Judging("test", c) /\ Good(jcur[2]) /\ NeedsRecheck
    /\ awg1[t] = NoConn
    /\ recheck' = recheck \ {t}
    /\ awg1' = [awg1 EXCEPT ![t] = c]
    /\ verdicts' = [verdicts EXCEPT ![t] = {c}]
    /\ rechecked' = rechecked \ {t}
    /\ jpc' = "window"
    /\ UNCHANGED <<connVars, envVars, watch, test, ok, cool, direct1, ruleVars,
                   jsnap, jcur, basis, before, stray>>

\* RECHECK opens the window in which DIRECT has to fail once more.
OpenRecheck(c) ==
    LET t == TupleOf[c] IN
    /\ Judging("window", c)
    /\ recheck' = recheck \cup {t}
    /\ rechecked' = rechecked \ {t}
    /\ before' = [before EXCEPT ![t] = Opened]
    /\ jpc' = "opened"
    /\ UNCHANGED <<connVars, envVars, watch, test, ok, cool, direct1, awg1, ruleVars,
                   jsnap, jcur, basis, verdicts, stray>>

\* TEST ends only when both evidence lists are found to be there.
LeaveTest(c) ==
    LET t == TupleOf[c] IN
    /\ Judging("opened", c)
    /\ awg1[t] # NoConn /\ t \in recheck
    /\ test' = test \ {t}
    /\ jpc' = "left"
    /\ UNCHANGED <<connVars, envVars, watch, ok, cool, direct1, awg1, recheck,
                   ruleVars, jsnap, jcur, histVars>>

\* TEST is found to have ended: the tuple is DIRECT again, and being re-checked.
ReturnToDirect(c) ==
    LET t == TupleOf[c] IN
    /\ Judging("left", c) /\ t \notin test
    /\ watch' = [watch EXCEPT ![t] = "none"]
    /\ cool' = cool \ {t}
    /\ direct1' = [direct1 EXCEPT ![t] = NoConn]
    /\ Drop({c})
    /\ jpc' = "test" /\ jcur' = NoneJudged
    /\ UNCHANGED <<envVars, test, ok, awg1, recheck, ruleVars, jsnap, histVars>>

\* SLOW: the window could not be opened or TEST not be left, or AWG1 is there while
\* the window is still open: back to DIRECT without evidence.
ResetToDirect(c) ==
    LET t == TupleOf[c] IN
    /\ NeedsRecheck
    /\ \/ /\ Judging("test", c) /\ Good(jcur[2])
          /\ \/ awg1[t] = NoConn /\ Faults
             \/ awg1[t] # NoConn /\ t \in recheck
       \/ Judging("window", c) /\ Faults
       \/ Judging("opened", c) /\ (awg1[t] = NoConn \/ t \notin recheck \/ Faults)
       \/ Judging("left", c) /\ t \in test
    /\ ForgetEvidence(t)
    /\ test' = test \ {t} \/ (Faults /\ UNCHANGED test)
    /\ jpc' = "reset"
    /\ UNCHANGED <<connVars, envVars, ok, cool, ruleVars, jsnap, jcur, histVars>>

\* A tuple that is still in TEST, or again, is kept DIRECT by the removal of the
\* TEST rule of its port.
FinishReset(c) ==
    LET t == TupleOf[c] IN
    /\ Judging("reset", c)
    /\ \/ t \notin test /\ UNCHANGED lazy
       \/ t \in test /\ lazy' = [lazy EXCEPT ![<<PortOf(t), "TEST">>] = "absent"]
       \/ t \in test /\ Faults /\ UNCHANGED lazy
    /\ Drop({c})
    /\ jpc' = "test" /\ jcur' = NoneJudged
    /\ UNCHANGED <<envVars, listVars, fixedOn, jsnap, histVars>>

-----------------------------------------------------------------------------
(* An ok-marked connection.  COOLDOWN ends both kinds of failure.           *)

\* JUDGE has no failure threshold for generic UDP.
ConfirmedFailed(c) ==
    LET t == TupleOf[c] IN
    /\ Judging("ok", c) /\ Failed(jcur[2]) /\ PortOf(t) \notin GenericUdp
    /\ ok' = ok \ {t}
    /\ ForgetTuple(t)
    /\ jpc' = "coolOk"
    /\ UNCHANGED <<connVars, envVars, cool, ruleVars, jsnap, jcur, histVars>>

\* A healthy confirmed tuple is refreshed by a removal and an add, so a refused
\* add forgets it.
ConfirmedHealthy(c) ==
    LET t == TupleOf[c] IN
    /\ Judging("ok", c)
    /\ Failed(jcur[2]) => PortOf(t) \in GenericUdp
    /\ \/ UNCHANGED ok
       \/ Faults /\ Good(jcur[2]) /\ ok' = ok \ {t}
    /\ JudgeDone
    /\ UNCHANGED <<connVars, envVars, watch, test, cool, direct1, awg1, recheck,
                   ruleVars, histVars>>

\* Only when the tuple has left every list is COOLDOWN added, and then the
\* connection removed; a refused add ends the flow and the connection stays.
CoolDown(m, c) ==
    LET t == TupleOf[c] IN
    /\ Judging(IF m = "test" THEN "coolTest" ELSE "coolOk", c)
    /\ \/ cool' = cool \cup {t} /\ Drop({c})
       \/ Faults /\ t \notin cool /\ UNCHANGED <<cool, connVars>>
    /\ jpc' = m /\ jcur' = NoneJudged
    /\ UNCHANGED <<envVars, watch, test, ok, direct1, awg1, recheck, ruleVars,
                   jsnap, histVars>>

JudgeNext ==
    \/ JudgeStart \/ JudgeTurn \/ JudgeEnd
    \/ \E c \in Conn :
          \/ \E s \in Stat : JudgePick(c, s)
          \/ TestFailed(c) \/ Confirm(c) \/ SameSuccess(c)
          \/ FirstSuccessMiddle(c) \/ SuccessRefused(c)
          \/ FirstSuccessSlow(c) \/ OpenRecheck(c) \/ LeaveTest(c)
          \/ ReturnToDirect(c) \/ ResetToDirect(c) \/ FinishReset(c)
          \/ ConfirmedFailed(c) \/ ConfirmedHealthy(c)
          \/ \E m \in {"test", "ok"} : CoolDown(m, c)

=============================================================================
