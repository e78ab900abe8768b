----------------------------- MODULE DataPlane -----------------------------
(***************************************************************************)
(* The adaptive data plane as it runs: the packet path, FAST and DETECT,   *)
(* JUDGE, HEALTH and the controller's garbage collector, interleaved at    *)
(* every command that another of them can observe.                         *)
(***************************************************************************)
EXTENDS Detector, Judge, Health, RuntimeGC

vars == <<routerVars, histVars, detVars, judgeVars, healthVars, gcVars>>

Init == RouterInit /\ DetectorInit /\ JudgeInit /\ HealthInit /\ GCInit

\* What /system/script/job shows to the gate of the collector.
NoJobs == (\A d \in Detectors : dpc[d] = "idle") /\ jpc = "idle" /\ hpc = "idle"

RouterStep  == RouterNext /\ UNCHANGED <<detVars, judgeVars, healthVars, gcVars>>
DetectorStep(d) == DetectorJob(d) /\ UNCHANGED <<judgeVars, healthVars, gcVars>>
JudgeStep   == JudgeNext /\ UNCHANGED <<detVars, healthVars, gcVars>>
HealthStep  == HealthNext /\ UNCHANGED <<detVars, judgeVars, gcVars>>
GCStep      == GCNext(NoJobs) /\ UNCHANGED <<detVars, judgeVars, healthVars>>

Next == \/ RouterStep
        \/ \E d \in Detectors : DetectorStep(d)
        \/ JudgeStep \/ HealthStep \/ GCStep

Spec == Init /\ [][Next]_vars

\* Fairness.  The scheduler starts HEALTH every 3s, and a job or a collection
\* that was started runs to its end.  The collector's gate is tried every five
\* minutes, and passes some time if it may pass again and again.
HealthFair    == WF_vars(HealthJob /\ UNCHANGED <<detVars, judgeVars, gcVars>>)
JobsEnd       == /\ \A d \in Detectors : WF_vars(dpc[d] # "idle" /\ DetectorStep(d))
                 /\ WF_vars(jpc # "idle" /\ JudgeStep)
CollectorFair == /\ WF_vars(gpc # "idle" /\ GCStep)
                 /\ SF_vars(GCGate(NoJobs) /\ UNCHANGED <<detVars, judgeVars, healthVars>>)

FairSpec == Spec /\ HealthFair /\ JobsEnd /\ CollectorFair

-----------------------------------------------------------------------------
(* What the data plane promises.                                            *)

\* Every variable has its type; a job past the choice of a flow has one.
TypeOK == RouterTypeOK /\ DetectorTypeOK /\ JudgeTypeOK /\ HealthTypeOK /\ GCTypeOK

\* Two connections to the tuple, as the evidence rules of MIDDLE and SLOW ask.
TwoOf(t, C) == \E x, y \in C : x # y /\ TupleOf[x] = t /\ TupleOf[y] = t

\* In MIDDLE and SLOW a tuple enters TEST only on failures of two different
\* connections to that very tuple, whichever detectors saw them and whatever ran
\* between the two.  They are DIRECT ones if the router shows the marks.
TestNeedsTwoFailures ==
    [][\A t \in test' \ test : Profile # "fast" =>
          TwoOf(t, basis'[t])]_vars

\* In MIDDLE and SLOW a tuple is confirmed only on the success of two different
\* tested connections to it.
OkNeedsTwoTests ==
    [][\A t \in ok' \ ok : Profile # "fast" =>
          TwoOf(t, verdicts'[t])]_vars

\* In SLOW a tuple is confirmed only when a detector ended the DIRECT re-check
\* that the first success opened.
SlowOkNeedsRecheck ==
    [][\A t \in ok' \ ok : Profile = "slow" => t \in rechecked]_vars

\* A successful test is one whose replies came through the target: none of before
\* an outage that was answered in it without the route rules.  Excepted is a
\* connection that was marked in the outage, by a rule a detector made then.
SuccessThroughTarget ==
    [][\A t \in Tuple : verdicts'[t] # verdicts[t] =>
          jcur[2] = "served" \/ jcur[1] \in stray]_vars

\* In FAST and MIDDLE a tuple in TEST has a rule that marks its connections: a
\* detector never lets it in without one, whatever the other detector does to the
\* pair.  In SLOW JUDGE takes the rule from a tuple it cannot take off TEST.
TestHasRule == \A t \in test : lazy[<<PortOf(t), "TEST">>] # "absent"

\* A confirmed tuple has a rule that marks its connections, so that the decision
\* routes them through the target.
OkHasRule == \A t \in ok : lazy[<<PortOf(t), "OK">>] # "absent"

\* A new connection to a tuple under test or confirmed goes through the target
\* whenever adaptive routing is in the packet path, also after an outage.
DecidedThroughTarget ==
    [][\A c \in Opened' \ Opened : TupleOf[c] \in test \cup ok /\ fixedOn =>
          ThroughTarget(c)']_vars

\* When the fail-safe reported success and nothing runs any more, adaptive
\* routing is out of the packet path.
FailSafeStaysOpen == safe /\ gpc = "idle" /\ NoJobs => ~fixedOn

\* One pass of the collector never removes more than the budget of each kind.
GCBounded ==
    /\ gpc \in {"rules", "recount", "remove"} => \A k \in RuleKind : gused[k] <= LazyBudget
    /\ gpc \in {"marks", "look", "drop"} => \A k \in RuleKind : gused[k] <= MarkBudget

\* The re-check of SLOW is ended only by the failure of a connection that was
\* opened in it.
RecheckByNewFailure ==
    [][\A d \in Detectors :
          reentry[d] /\ dpc[d] = "clear" /\ dpc'[d] = "enter" =>
              cur[d] \notin before[TupleOf[cur[d]]]]_vars

\* The whole of it: whatever the detectors, JUDGE, HEALTH, the collector and the
\* timeouts interleave, what they decide is what Decision allows.  The evidence
\* of a decision is what the model counted, not what the lists still hold.
D == INSTANCE Decision WITH failed <- basis, good <- verdicts
ImplementsDecision == D!Spec

\* When the target stays down, by either sign of it, adaptive traffic goes and
\* stays DIRECT.
FailsOpen == \A s \in Down : <>[](target = s) => <>[]~fixedOn

\* When the target stays up, every AUTO-AWG rule is and stays enabled.
Recovers == <>[](target = "up") =>
                <>[](fixedOn /\ \A r \in Rule : lazy[r] # "off")

\* Nothing keeps the short jobs from overlapping for ever, and then the gate of
\* the collector stays shut; its promises are for a router that pauses at times.
Pauses == []<>NoJobs

\* A connection whose mark no list entry backs does not keep it.
Stale(c, m) == ct[c] = m /\ TupleOf[c] \notin (IF m = "test" THEN test ELSE ok)
StaleMarksReclaimed ==
    Pauses => \A c \in Conn, m \in {"test", "ok"} : Stale(c, m) ~> ~Stale(c, m)

\* A lazy rule whose lists are empty does not stay.
Orphan(r) == /\ lazy[r] # "absent"
             /\ \A t \in (IF r[2] = "TEST" THEN test ELSE ok) : PortOf(t) # r[1]
OrphanRulesReclaimed == Pauses => \A r \in Rule : Orphan(r) ~> ~Orphan(r)

-----------------------------------------------------------------------------
(* What makes the evidence rules hold: the invariant behind the three        *)
(* properties of MIDDLE and SLOW above.                                      *)

\* The tuple JUDGE has noted a first success of and not opened the window for.
Opening(t) == jpc = "window" /\ TupleOf[jcur[1]] = t

\* DIRECT1 names a failure of its tuple.  Past the choice of the transition a
\* detector holds a second failure of the tuple, independent of the one DIRECT1
\* named, or re-enters TEST for a tuple that was there on two before.
FailureEvidence ==
    /\ \A t \in Tuple : direct1[t] # NoConn => TupleOf[direct1[t]] = t
    /\ \A d \in Detectors : LET t == TupleOf[cur[d]] IN
          dpc[d] \in {"rules", "clear", "enter"} =>
             \/ Profile = "fast" /\ ~reentry[d]
             \/ reentry[d] /\ TwoOf(t, basis[t])
             \/ ~reentry[d] /\ witness[d] \in Conn \ {cur[d]}
                            /\ TupleOf[witness[d]] = t
    /\ \A d \in Detectors :
          reentry[d] => Profile = "slow" /\ dpc[d] \in {"rules", "clear", "enter"}

\* Whatever is under test, or was tested well, entered TEST on two failures.
TestedOnFailures ==
    Profile # "fast" =>
       /\ \A t \in Tuple : t \in test \/ awg1[t] # NoConn => TwoOf(t, basis[t])
       /\ jpc = "test" /\ jcur # NoneJudged =>
             TwoOf(TupleOf[jcur[1]], basis[TupleOf[jcur[1]]])

\* AWG1 names a counted success of its tuple; in SLOW the window it opened is
\* still open or was closed by a failure.
SuccessEvidence ==
    /\ jpc = "idle" => jsnap = {} /\ jcur = NoneJudged
    /\ jpc \notin {"idle", "test", "ok"} => jcur # NoneJudged
    /\ jpc \in {"window", "opened", "left", "reset"} => Profile = "slow"
    /\ \A t \in Tuple : awg1[t] # NoConn =>
          /\ TupleOf[awg1[t]] = t
          /\ awg1[t] \in verdicts[t]
          /\ Profile = "slow" /\ ~Opening(t) => t \in recheck \cup rechecked

\* The profiles' bookkeeping of evidence is consistent at every moment.
EvidenceInv == FailureEvidence /\ TestedOnFailures /\ SuccessEvidence

=============================================================================
