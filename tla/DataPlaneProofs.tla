-------------------------- MODULE DataPlaneProofs --------------------------
(***************************************************************************)
(* Theorems about DataPlane, for every set of connections, destinations    *)
(* and ports, every profile and every deployment.                          *)
(***************************************************************************)
EXTENDS DataPlane, TLAPS

-----------------------------------------------------------------------------
(* Types.  Each component keeps the router's types and its own.             *)

\* Dropping connections keeps the types of the connection table.
LEMMA DropType ==
    ASSUME RouterTypeOK, NEW C, Drop(C)
    PROVE  /\ ct' \in [Conn -> {"unused", "none", "test", "ok", "gone"}]
           /\ stat' \in [Conn -> Stat]
BY DEF RouterTypeOK, Drop, Stat

\* The packet path, the timeouts and the environment keep the router's types.
LEMMA RouterKeepsTypes ==
    ASSUME RouterTypeOK, RouterNext PROVE RouterTypeOK'
<1> USE DEF envVars, listVars, ruleVars, histVars, connVars
<1>1. ASSUME NEW c \in Conn, Open(c) PROVE RouterTypeOK'
  <2>1. MarksOf(TupleOf[c]) \subseteq {"none", "test", "ok"}
    BY DEF MarksOf, Offers
  <2> QED BY <1>1, <2>1 DEF Open, RouterTypeOK
<1>2. ASSUME NEW c \in Conn, Silence(c) \/ Reply(c) \/ Stall(c) PROVE RouterTypeOK'
  BY <1>2 DEF Silence, Reply, Stall, RouterTypeOK, Stat
<1>3. ASSUME NEW c \in Conn, Close(c) PROVE RouterTypeOK'
  BY <1>3, DropType DEF Close, RouterTypeOK
<1>4. ASSUME NEW t \in Tuple, Ripen(t) \/ Expire(t) PROVE RouterTypeOK'
  BY <1>4 DEF Ripen, Expire, RouterTypeOK
<1>5. ASSUME NEW d \in Dst, PolicyChange(d) PROVE RouterTypeOK'
  BY <1>5 DEF PolicyChange, RouterTypeOK
<1>6. ASSUME NEW s \in {"up", "silent", "gone"}, TargetChange(s) PROVE RouterTypeOK'
  BY <1>6 DEF TargetChange, RouterTypeOK
<1> QED BY <1>1, <1>2, <1>3, <1>4, <1>5, <1>6 DEF RouterNext

\* A detector keeps the router's types and its own.
LEMMA DetectorKeepsTypes ==
    ASSUME RouterTypeOK, DetectorTypeOK, NEW d \in Detectors, DetectorJob(d)
    PROVE  RouterTypeOK' /\ DetectorTypeOK'
<1> USE TupleOfType, NoConnIsNone
    DEF routerVars, envVars, listVars, ruleVars, histVars, connVars
<1>a. ASSUME dpc[d] \in {"evidence", "rules", "clear", "enter"}
      PROVE cur[d] \in Conn /\ TupleOf[cur[d]] \in Tuple
  BY <1>a DEF DetectorTypeOK
<1>b. ASSUME NEW L, Continue(d, L), UNCHANGED snap PROVE DetectorTypeOK'
  BY <1>b DEF Continue, DetectorTypeOK
<1>1. CASE TakeSnapshot(d)
  <2>1. Trigger(d) \subseteq {"silent", "stalled"}
    BY DEF Trigger
  <2>2. \A seen \in Unmarked : seen \subseteq Conn
    BY DEF Unmarked, Marked, Live
  <2>3. snap' \in [Detectors -> SUBSET (Conn \X {"silent", "stalled"})]
    BY <1>1, <2>1, <2>2 DEF TakeSnapshot, DetectorTypeOK
  <2>4. RouterTypeOK'
    BY <1>1 DEF TakeSnapshot, RouterTypeOK
  <2>5. DetectorTypeOK'
    BY <1>1, <2>3 DEF TakeSnapshot, DetectorTypeOK
  <2> QED BY <2>4, <2>5
<1>2. ASSUME NEW c \in Conn, StartWatch(d, c) PROVE RouterTypeOK' /\ DetectorTypeOK'
  <2>1. RouterTypeOK'
    BY <1>2 DEF StartWatch, RouterTypeOK
  <2>2. DetectorTypeOK'
    BY <1>2 DEF StartWatch, Pick, Continue, DetectorTypeOK
  <2> QED BY <2>1, <2>2
<1>3. ASSUME NEW c \in Conn, NEW s \in {"silent", "stalled"}, Skip(d, c, s)
      PROVE RouterTypeOK' /\ DetectorTypeOK'
  <2>1. RouterTypeOK'
    BY <1>3 DEF Skip, RouterTypeOK
  <2>2. DetectorTypeOK'
    BY <1>3 DEF Skip, Pick, Continue, DetectorTypeOK
  <2> QED BY <2>1, <2>2
<1>4. ASSUME NEW c \in Conn, NEW s \in {"silent", "stalled"}, Suspect(d, c, s)
      PROVE RouterTypeOK' /\ DetectorTypeOK'
  <2>1. RouterTypeOK'
    BY <1>4 DEF Suspect, RouterTypeOK
  <2>2. DetectorTypeOK'
    BY <1>4 DEF Suspect, Pick, DetectorTypeOK
  <2> QED BY <2>1, <2>2
<1>5. CASE FailedRecheck(d)
  BY <1>5 DEF FailedRecheck, RouterTypeOK, DetectorTypeOK
<1>6. CASE RecordFirst(d) \/ RecordFirstRefused(d)
  <2>1. cur[d] \in Conn /\ TupleOf[cur[d]] \in Tuple
    BY <1>6, <1>a DEF RecordFirst, RecordFirstRefused
  <2>2. DetectorTypeOK'
    BY <1>6, <1>b DEF RecordFirst, RecordFirstRefused
  <2>3. awg1' \in [Tuple -> Conn \cup {NoConn}] /\ recheck' \subseteq Tuple
    BY <1>6, <2>1 DEF RecordFirst, RecordFirstRefused, ClearStale, RouterTypeOK
  <2>4. RouterTypeOK'
    BY <1>6, <2>1, <2>3, DropType DEF RecordFirst, RecordFirstRefused, RouterTypeOK
  <2> QED BY <2>2, <2>4
<1>7. CASE SameFailure(d)
  <2>1. RouterTypeOK'
    BY <1>7, DropType DEF SameFailure, RouterTypeOK
  <2> QED BY <1>7, <1>b, <2>1 DEF SameFailure
<1>8. CASE SecondFailure(d)
  <2>1. cur[d] \in Conn /\ TupleOf[cur[d]] \in Tuple
    BY <1>8, <1>a DEF SecondFailure
  <2>2. FirstFailure(TupleOf[cur[d]]) \in Conn \cup {NoConn}
    BY <2>1 DEF FirstFailure, RouterTypeOK
  <2>3. RouterTypeOK'
    BY <1>8 DEF SecondFailure, RouterTypeOK
  <2> QED BY <1>8, <2>1, <2>2, <2>3 DEF SecondFailure, DetectorTypeOK
<1>9. CASE EnsureRules(d)
  <2>1. RouterTypeOK'
    BY <1>9 DEF EnsureRules, RouterTypeOK
  <2>2. DetectorTypeOK'
    BY <1>9, <1>a DEF EnsureRules, DetectorTypeOK
  <2> QED BY <2>1, <2>2
<1>10. CASE ClearEvidence(d)
  <2>1. cur[d] \in Conn /\ TupleOf[cur[d]] \in Tuple
    BY <1>10, <1>a DEF ClearEvidence
  <2>2. RouterTypeOK'
    BY <1>10, <2>1 DEF ClearEvidence, RouterTypeOK
  <2>3. CASE EvidenceFits(d, TupleOf[cur[d]])
    <3>1. DetectorTypeOK'
      BY <1>10, <2>1, <2>3 DEF ClearEvidence, DetectorTypeOK
    <3> QED BY <2>2, <3>1
  <2>4. CASE ~EvidenceFits(d, TupleOf[cur[d]])
    BY <1>10, <1>b, <2>2, <2>4 DEF ClearEvidence
  <2> QED BY <2>3, <2>4
<1>11. CASE EnterTest(d)
  <2>1. cur[d] \in Conn /\ TupleOf[cur[d]] \in Tuple
    BY <1>11, <1>a DEF EnterTest
  <2>2. basis' \in [Tuple -> SUBSET Conn]
    BY <1>11, <2>1 DEF EnterTest, RouterTypeOK, DetectorTypeOK
  <2>3. RouterTypeOK'
    BY <1>11, <2>1, <2>2, DropType DEF EnterTest, RouterTypeOK
  <2> QED BY <1>11, <1>b, <2>3 DEF EnterTest
<1>12. CASE EnterTestRefused(d)
  <2>1. RouterTypeOK'
    BY <1>12 DEF EnterTestRefused, RouterTypeOK
  <2> QED BY <1>12, <1>b, <2>1 DEF EnterTestRefused
<1>13. CASE RulesRefused(d)
  <2>1. RouterTypeOK'
    BY <1>13 DEF RulesRefused, RouterTypeOK
  <2> QED BY <1>13, <1>b, <2>1 DEF RulesRefused
<1> QED BY <1>1, <1>2, <1>3, <1>4, <1>5, <1>6, <1>7, <1>8, <1>9, <1>10, <1>11,
           <1>12, <1>13 DEF DetectorJob

\* JUDGE keeps the router's types and its own.
LEMMA JudgeKeepsTypes ==
    ASSUME RouterTypeOK, JudgeTypeOK, JudgeNext
    PROVE  RouterTypeOK' /\ JudgeTypeOK'
<1> USE TupleOfType, NoConnIsNone
    DEF routerVars, envVars, listVars, ruleVars, histVars, connVars
<1>t. \A c \in Conn : TupleOf[c] \in Tuple
  OBVIOUS
<1>d. ASSUME JudgeDone PROVE JudgeTypeOK'
  BY <1>d DEF JudgeDone, JudgeTypeOK
<1>r. \A m : Readings(m) \subseteq Counters
  BY DEF Readings, Counters, Marked, RouterTypeOK
<1>1. CASE JudgeStart \/ JudgeTurn \/ JudgeEnd
  <2>1. RouterTypeOK'
    BY <1>1 DEF JudgeStart, JudgeTurn, JudgeEnd, RouterTypeOK
  <2> QED BY <1>1, <1>r, <2>1 DEF JudgeStart, JudgeTurn, JudgeEnd, JudgeTypeOK
<1>2. ASSUME NEW c \in Conn, NEW s \in Stat, JudgePick(c, s)
      PROVE RouterTypeOK' /\ JudgeTypeOK'
  <2>1. RouterTypeOK'
    BY <1>2 DEF JudgePick, RouterTypeOK
  <2> QED BY <1>2, <2>1 DEF JudgePick, JudgeTypeOK, Counters
<1>3. ASSUME NEW c \in Conn, TestFailed(c) \/ ConfirmedFailed(c)
      PROVE RouterTypeOK' /\ JudgeTypeOK'
  <2>1. RouterTypeOK'
    BY <1>3, <1>t DEF TestFailed, ConfirmedFailed, ForgetTuple, ForgetEvidence,
                      RouterTypeOK
  <2> QED BY <1>3, <2>1 DEF TestFailed, ConfirmedFailed, JudgeTypeOK
<1>4. ASSUME NEW c \in Conn, Confirm(c) PROVE RouterTypeOK' /\ JudgeTypeOK'
  <2>1. verdicts' \in [Tuple -> SUBSET Conn]
    BY <1>4, <1>t DEF Confirm, RouterTypeOK
  <2>2. RouterTypeOK'
    BY <1>4, <1>t, <2>1 DEF Confirm, ForgetTuple, ForgetEvidence, RouterTypeOK
  <2> QED BY <1>4, <1>d, <2>2 DEF Confirm
<1>5. ASSUME NEW c \in Conn, SameSuccess(c) \/ FirstSuccessMiddle(c)
      PROVE RouterTypeOK' /\ JudgeTypeOK'
  <2>1. RouterTypeOK'
    BY <1>5, <1>t, DropType DEF SameSuccess, FirstSuccessMiddle, RouterTypeOK
  <2> QED BY <1>5, <1>d, <2>1 DEF SameSuccess, FirstSuccessMiddle
<1>6. ASSUME NEW c \in Conn, SuccessRefused(c) PROVE RouterTypeOK' /\ JudgeTypeOK'
  <2>1. RouterTypeOK'
    BY <1>6 DEF SuccessRefused, RouterTypeOK
  <2> QED BY <1>6, <1>d, <2>1 DEF SuccessRefused
<1>7. ASSUME NEW c \in Conn, FirstSuccessSlow(c) PROVE RouterTypeOK' /\ JudgeTypeOK'
  <2>1. RouterTypeOK'
    BY <1>7, <1>t DEF FirstSuccessSlow, RouterTypeOK
  <2> QED BY <1>7, <2>1 DEF FirstSuccessSlow, JudgeTypeOK
<1>8. ASSUME NEW c \in Conn, OpenRecheck(c) \/ LeaveTest(c) \/ ReturnToDirect(c)
      PROVE RouterTypeOK' /\ JudgeTypeOK'
  <2>1. Opened \subseteq Conn
    BY DEF Opened
  <2>2. RouterTypeOK'
    BY <1>8, <1>t, <2>1, DropType
       DEF OpenRecheck, LeaveTest, ReturnToDirect, RouterTypeOK
  <2> QED BY <1>8, <2>2 DEF OpenRecheck, LeaveTest, ReturnToDirect, JudgeTypeOK
<1>9. ASSUME NEW c \in Conn, ResetToDirect(c) \/ FinishReset(c)
      PROVE RouterTypeOK' /\ JudgeTypeOK'
  <2>1. RouterTypeOK'
    BY <1>9, <1>t, DropType DEF ResetToDirect, FinishReset, ForgetEvidence, RouterTypeOK
  <2> QED BY <1>9, <2>1 DEF ResetToDirect, FinishReset, JudgeTypeOK
<1>10. ASSUME NEW c \in Conn, ConfirmedHealthy(c) PROVE RouterTypeOK' /\ JudgeTypeOK'
  <2>1. RouterTypeOK'
    BY <1>10 DEF ConfirmedHealthy, RouterTypeOK
  <2> QED BY <1>10, <1>d, <2>1 DEF ConfirmedHealthy
<1>11. ASSUME NEW c \in Conn, NEW m \in {"test", "ok"}, CoolDown(m, c)
       PROVE RouterTypeOK' /\ JudgeTypeOK'
  <2>1. RouterTypeOK'
    BY <1>11, <1>t, DropType DEF CoolDown, RouterTypeOK
  <2> QED BY <1>11, <2>1 DEF CoolDown, JudgeTypeOK
<1> QED BY <1>1, <1>2, <1>3, <1>4, <1>5, <1>6, <1>7, <1>8, <1>9, <1>10, <1>11
        DEF JudgeNext

\* HEALTH keeps the router's types and its own.
LEMMA HealthKeepsTypes ==
    ASSUME RouterTypeOK, HealthTypeOK, HealthNext
    PROVE  RouterTypeOK' /\ HealthTypeOK'
<1> USE DEF routerVars, envVars, listVars, ruleVars, histVars, connVars
<1>1. CASE HealthProbe \/ HealthMiss \/ HealthStillDown
  <2>1. RouterTypeOK'
    BY <1>1 DEF HealthProbe, HealthMiss, HealthStillDown, RouterTypeOK
  <2> QED BY <1>1, <2>1
          DEF HealthProbe, HealthMiss, HealthStillDown, HealthTypeOK, RouterTypeOK
<1>2. CASE HealthUp
  <2>1. RouterTypeOK'
    BY <1>2 DEF HealthUp, Enabled, RouterTypeOK
  <2> QED BY <1>2, <2>1 DEF HealthUp, HealthTypeOK
<1>3. CASE HealthDown
  <2>1. RouterTypeOK'
    BY <1>3 DEF HealthDown, RouterTypeOK
  <2> QED BY <1>3, <2>1 DEF HealthDown, HealthTypeOK
<1>4. CASE HealthRecover \/ HealthPurge
  <2>1. RouterTypeOK'
    BY <1>4, DropType DEF HealthRecover, HealthPurge, RouterTypeOK
  <2> QED BY <1>4, <2>1 DEF HealthRecover, HealthPurge, HealthTypeOK
<1>5. CASE HealthForget
  <2>1. RouterTypeOK'
    BY <1>5 DEF HealthForget, RouterTypeOK
  <2> QED BY <1>5, <2>1 DEF HealthForget, HealthTypeOK
<1>6. ASSUME NEW k \in Down, MissExpire(k) PROVE RouterTypeOK' /\ HealthTypeOK'
  <2>1. RouterTypeOK'
    BY <1>6 DEF MissExpire, RouterTypeOK
  <2> QED BY <1>6, <2>1 DEF MissExpire, HealthTypeOK
<1> QED BY <1>1, <1>2, <1>3, <1>4, <1>5, <1>6 DEF HealthNext, HealthJob

\* Counting a removal keeps the type of the counters.
LEMMA CountType ==
    ASSUME NEW f \in [RuleKind -> Nat], NEW k
    PROVE  [f EXCEPT ![k] = @ + 1] \in [RuleKind -> Nat]
<1> DEFINE g == [f EXCEPT ![k] = @ + 1]
<1>1. \A x \in RuleKind : g[x] \in Nat
  <2>1. ASSUME NEW x \in RuleKind PROVE f[x] \in Nat /\ f[x] + 1 \in Nat
    OBVIOUS
  <2> QED BY <2>1
<1> QED BY <1>1

\* The collector keeps the router's types and its own.
LEMMA GCKeepsTypes ==
    ASSUME RouterTypeOK, GCTypeOK, NEW idle, GCNext(idle)
    PROVE  RouterTypeOK' /\ GCTypeOK'
<1> USE DEF routerVars, envVars, listVars, ruleVars, histVars, connVars
<1>l. Len(PauseOrder) = 4
  BY DEF PauseOrder
<1>u. Unused \in [RuleKind -> Nat]
  BY DEF Unused
<1>1. CASE GCGate(idle) \/ GCScanRules \/ GCScanMarks \/ GCRecount \/ GCLookAgain \/ GCEnd
  <2>1. RouterTypeOK'
    BY <1>1 DEF GCGate, GCScanRules, GCScanMarks, GCRecount, GCLookAgain, GCEnd,
                RouterTypeOK
  <2>2. GCTypeOK'
    BY <1>1, <1>u DEF GCGate, GCScanRules, GCScanMarks, GCRecount, GCLookAgain,
                      GCEnd, GCTypeOK, LazyRules
  <2> QED BY <2>1, <2>2
<1>2. ASSUME NEW r \in Rule, GCCount(r) PROVE RouterTypeOK' /\ GCTypeOK'
  <2>1. RouterTypeOK'
    BY <1>2 DEF GCCount, RouterTypeOK
  <2> QED BY <1>2, <2>1 DEF GCCount, GCTypeOK
<1>3. ASSUME NEW item \in Conn \X Mark, GCLook(item) PROVE RouterTypeOK' /\ GCTypeOK'
  <2>1. RouterTypeOK'
    BY <1>3 DEF GCLook, RouterTypeOK
  <2> QED BY <1>3, <2>1 DEF GCLook, GCTypeOK
<1>4. CASE GCRemove
  <2>1. RouterTypeOK'
    BY <1>4 DEF GCRemove, RouterTypeOK
  <2>2. gused' \in [RuleKind -> Nat]
    BY <1>4, CountType DEF GCRemove, GCTypeOK
  <2> QED BY <1>4, <2>1, <2>2 DEF GCRemove, GCTypeOK
<1>5. CASE GCDrop
  <2>1. RouterTypeOK'
    BY <1>5, DropType DEF GCDrop, RouterTypeOK
  <2>2. gused' \in [RuleKind -> Nat]
    BY <1>5, CountType DEF GCDrop, GCTypeOK
  <2> QED BY <1>5, <2>1, <2>2 DEF GCDrop, GCTypeOK
<1>6. CASE GCFail \/ GCCrash
  <2>1. RouterTypeOK'
    BY <1>6 DEF GCFail, GCCrash, RouterTypeOK
  <2>2. gpause' \in 0..4 /\ (gpc' = "pause" => gpause' < 4)
    BY <1>6 DEF GCFail, GCCrash
  <2>3. safe' \in BOOLEAN
    BY <1>6 DEF GCFail, GCCrash
  <2> QED BY <1>6, <1>l, <1>u, <2>1, <2>2, <2>3 DEF GCFail, GCCrash, GCTypeOK
<1>7. CASE GCPause
  <2>1. RouterTypeOK'
    BY <1>7 DEF GCPause, RouterTypeOK
  <2>2. gpause' \in 0..4 /\ (gpc' = "pause" => gpause' < 4)
    BY <1>7, <1>l DEF GCPause, GCTypeOK
  <2>3. safe' \in BOOLEAN
    BY <1>7 DEF GCPause, GCTypeOK
  <2> QED BY <1>7, <1>l, <2>1, <2>2, <2>3 DEF GCPause, GCTypeOK
<1>8. CASE GCDisable
  <2>1. RouterTypeOK'
    BY <1>8 DEF GCDisable, RouterTypeOK
  <2>2. safe' \in BOOLEAN
    BY <1>8 DEF GCDisable
  <2> QED BY <1>8, <1>l, <2>1, <2>2 DEF GCDisable, GCTypeOK
<1> QED BY <1>1, <1>2, <1>3, <1>4, <1>5, <1>6, <1>7, <1>8 DEF GCNext

\* The initial state has its types, whatever the operator put under VPN Direct.
LEMMA InitType == Init => TypeOK
<1> SUFFICES ASSUME Init PROVE TypeOK
  OBVIOUS
<1> USE DEF Init
<1>1. RouterTypeOK
  BY DEF RouterInit, RouterTypeOK, Stat
<1>2. DetectorTypeOK /\ JudgeTypeOK
  BY DEF DetectorInit, DetectorTypeOK, JudgeInit, JudgeTypeOK
<1>3. HealthTypeOK
  BY DEF HealthInit, HealthTypeOK
<1>4. GCTypeOK
  <2>1. Len(PauseOrder) = 4
    BY DEF PauseOrder
  <2>2. Unused \in [RuleKind -> Nat]
    BY DEF Unused
  <2>3. gpause \in 0..4
    BY DEF GCInit
  <2>4. gused \in [RuleKind -> Nat] /\ grules \subseteq Rule
    BY <2>2 DEF GCInit
  <2>5. gmarks \subseteq Conn \X Mark /\ gpc = "idle"
    BY DEF GCInit
  <2>6. gitem = NoItem /\ safe \in BOOLEAN
    BY Zenon DEF GCInit
  <2> QED BY <2>1, <2>3, <2>4, <2>5, <2>6 DEF GCTypeOK
<1> QED BY <1>1, <1>2, <1>3, <1>4 DEF TypeOK

\* Every step of every component keeps every type.
LEMMA NextType == TypeOK /\ [Next]_vars => TypeOK'
<1> SUFFICES ASSUME TypeOK, [Next]_vars PROVE TypeOK'
  OBVIOUS
<1> USE DEF TypeOK
<1>d. ASSUME UNCHANGED detVars PROVE DetectorTypeOK'
  BY <1>d DEF detVars, DetectorTypeOK
<1>j. ASSUME UNCHANGED judgeVars PROVE JudgeTypeOK'
  BY <1>j DEF judgeVars, JudgeTypeOK
<1>h. ASSUME UNCHANGED healthVars PROVE HealthTypeOK'
  BY <1>h DEF healthVars, HealthTypeOK
<1>g. ASSUME UNCHANGED gcVars PROVE GCTypeOK'
  BY <1>g DEF gcVars, GCTypeOK
<1>1. CASE RouterStep
  BY <1>1, <1>d, <1>j, <1>h, <1>g, RouterKeepsTypes DEF RouterStep
<1>2. ASSUME NEW d \in Detectors, DetectorStep(d) PROVE TypeOK'
  BY <1>2, <1>j, <1>h, <1>g, DetectorKeepsTypes DEF DetectorStep
<1>3. CASE JudgeStep
  BY <1>3, <1>d, <1>h, <1>g, JudgeKeepsTypes DEF JudgeStep
<1>4. CASE HealthStep
  BY <1>4, <1>d, <1>j, <1>g, HealthKeepsTypes DEF HealthStep
<1>5. CASE GCStep
  BY <1>5, <1>d, <1>j, <1>h, GCKeepsTypes DEF GCStep
<1>6. CASE UNCHANGED vars
  <2>1. RouterTypeOK'
    BY <1>6 DEF vars, routerVars, envVars, listVars, ruleVars, histVars, connVars,
                RouterTypeOK
  <2> QED BY <1>6, <1>d, <1>j, <1>h, <1>g, <2>1 DEF vars
<1> QED BY <1>1, <1>2, <1>3, <1>4, <1>5, <1>6 DEF Next

\* Every variable keeps its type in every deployment: no script or collector ever
\* works on a connection, tuple or rule that does not exist.
THEOREM TypeCorrect == Spec => []TypeOK
BY InitType, NextType, PTL DEF Spec

-----------------------------------------------------------------------------
(* Evidence.  EvidenceInv is preserved by every step; most steps only let    *)
(* evidence go, which the three frame lemmas cover.                          *)

\* Evidence lists may lose what they name, but never name another connection.
Fades(e) == \A t \in Tuple : e'[t] \in {e[t], NoConn}

\* No tuple loses the two failures its TEST entry rested on.
BasisKept ==
    Profile # "fast" => \A t \in Tuple : TwoOf(t, basis[t]) => TwoOf(t, basis'[t])

\* Losing DIRECT1 entries does not hurt the evidence of failures.
LEMMA FailureFrame ==
    ASSUME TypeOK, FailureEvidence, UNCHANGED detVars, Fades(direct1), BasisKept
    PROVE  FailureEvidence'
<1> USE DEF detVars
<1>1. \A t \in Tuple : direct1'[t] # NoConn => TupleOf[direct1'[t]] = t
  BY DEF FailureEvidence, Fades
<1>2. ASSUME NEW d \in Detectors, dpc'[d] \in {"rules", "clear", "enter"},
             reentry'[d]
      PROVE  TwoOf(TupleOf[cur[d]], basis'[TupleOf[cur[d]]])
  <2>1. TupleOf[cur[d]] \in Tuple
    BY <1>2, TupleOfType DEF TypeOK, DetectorTypeOK
  <2> QED BY <1>2, <2>1 DEF FailureEvidence, BasisKept
<1> QED BY <1>1, <1>2 DEF FailureEvidence

\* Leaving TEST and losing AWG1 does not hurt what is known of tested tuples.
LEMMA TestedFrame ==
    ASSUME TypeOK, TestedOnFailures, UNCHANGED judgeVars, Fades(awg1), BasisKept,
           \A t \in test' \ test : TwoOf(t, basis'[t]), test' \subseteq Tuple
    PROVE  TestedOnFailures'
<1> SUFFICES ASSUME Profile # "fast" PROVE TestedOnFailures'
  BY DEF TestedOnFailures
<1>1. ASSUME NEW t \in Tuple, t \in test' \/ awg1'[t] # NoConn
      PROVE  TwoOf(t, basis'[t])
  BY <1>1 DEF TestedOnFailures, Fades, BasisKept
<1>2. ASSUME jpc = "test", jcur # NoneJudged
      PROVE  TwoOf(TupleOf[jcur[1]], basis'[TupleOf[jcur[1]]])
  <2>1. TupleOf[jcur[1]] \in Tuple
    BY <1>2, TupleOfType DEF TypeOK, JudgeTypeOK, Counters
  <2> QED BY <1>2, <2>1 DEF TestedOnFailures, BasisKept
<1> QED BY <1>1, <1>2 DEF TestedOnFailures, judgeVars

\* Losing AWG1 does not hurt the evidence of successes, nor does closing the
\* window of a tuple without AWG1.
LEMMA SuccessFrame ==
    ASSUME TypeOK, SuccessEvidence, UNCHANGED judgeVars, UNCHANGED verdicts, Fades(awg1),
           \A t \in Tuple : t \in recheck \cup rechecked /\ awg1'[t] # NoConn =>
                             t \in recheck' \cup rechecked'
    PROVE  SuccessEvidence'
<1> USE DEF judgeVars
<1>1. ASSUME NEW t \in Tuple, awg1'[t] # NoConn
      PROVE  /\ TupleOf[awg1'[t]] = t
             /\ awg1'[t] \in verdicts[t]
             /\ Profile = "slow" /\ ~Opening(t) => t \in recheck' \cup rechecked'
  <2>1. awg1'[t] = awg1[t]
    BY <1>1 DEF Fades
  <2> QED BY <1>1, <2>1 DEF SuccessEvidence
<1> QED BY <1>1 DEF SuccessEvidence, Opening

\* The packet path, timeouts, HEALTH and the collector only let evidence go.
LEMMA OthersKeepEvidence ==
    ASSUME TypeOK, EvidenceInv, RouterStep \/ HealthStep \/ GCStep \/ UNCHANGED vars,
           TypeOK'
    PROVE  EvidenceInv'
<1> USE DEF routerVars, envVars, listVars, ruleVars, histVars, connVars
<1>1. UNCHANGED <<detVars, judgeVars, basis, verdicts, rechecked>>
  <2>1. CASE RouterStep
    BY <2>1 DEF RouterStep, RouterNext, Open, Silence, Reply, Stall, Close, Ripen,
                Expire, PolicyChange, TargetChange
  <2>2. CASE HealthStep
    BY <2>2 DEF HealthStep, HealthNext, HealthJob, HealthProbe, HealthUp, HealthRecover,
                HealthMiss, HealthStillDown, HealthDown, HealthPurge, HealthForget,
                MissExpire
  <2>3. CASE GCStep
    BY <2>3 DEF GCStep, GCNext, GCGate, GCScanRules, GCCount, GCRecount, GCRemove,
                GCScanMarks, GCLook, GCLookAgain, GCDrop, GCEnd, GCFail, GCPause,
                GCDisable, GCCrash
  <2>4. CASE UNCHANGED vars
    BY <2>4 DEF vars
  <2> QED BY <2>1, <2>2, <2>3, <2>4
<1>2. /\ test' \subseteq test /\ Fades(direct1) /\ Fades(awg1)
      /\ \A t \in Tuple : t \in recheck /\ awg1'[t] # NoConn => t \in recheck'
  <2> USE DEF Fades, TypeOK, RouterTypeOK
  <2>1. CASE RouterStep
    <3>1. ASSUME NEW t \in Tuple, Expire(t)
          PROVE  /\ test' \subseteq test
                 /\ \A u \in Tuple : direct1'[u] \in {direct1[u], NoConn}
                 /\ \A u \in Tuple : awg1'[u] \in {awg1[u], NoConn}
                 /\ \A u \in Tuple : u \in recheck /\ awg1'[u] # NoConn => u \in recheck'
      BY <3>1 DEF Expire
    <3> QED BY <2>1, <3>1 DEF RouterStep, RouterNext, Open, Silence, Reply, Stall, Close,
                              Ripen, PolicyChange, TargetChange
  <2>2. CASE HealthStep
    BY <2>2 DEF HealthStep, HealthNext, HealthJob, HealthProbe, HealthUp, HealthRecover,
                HealthMiss, HealthStillDown, HealthDown, HealthPurge, HealthForget,
                MissExpire
  <2>3. CASE GCStep
    BY <2>3 DEF GCStep, GCNext, GCGate, GCScanRules, GCCount, GCRecount, GCRemove,
                GCScanMarks, GCLook, GCLookAgain, GCDrop, GCEnd, GCFail, GCPause,
                GCDisable, GCCrash
  <2>4. CASE UNCHANGED vars
    BY <2>4 DEF vars
  <2> QED BY <2>1, <2>2, <2>3, <2>4
<1>3. BasisKept
  BY <1>1 DEF BasisKept
<1>4. test' \subseteq Tuple
  BY DEF TypeOK, RouterTypeOK
<1> QED BY <1>1, <1>2, <1>3, <1>4, FailureFrame, TestedFrame, SuccessFrame DEF EvidenceInv

\* A detector that leaves the tuple in hand for good, and touches no evidence of
\* failures but what it dropped, keeps the evidence of failures.
LEMMA FailureContinue ==
    ASSUME TypeOK, FailureEvidence, NEW d \in Detectors, NEW L, Continue(d, L), BasisKept,
           \A t \in Tuple : direct1'[t] # NoConn => TupleOf[direct1'[t]] = t
    PROVE  FailureEvidence'
<1>1. ASSUME NEW e \in Detectors, dpc'[e] \in {"rules", "clear", "enter"}
      PROVE  /\ e # d /\ dpc'[e] = dpc[e] /\ cur'[e] = cur[e]
             /\ reentry'[e] = reentry[e] /\ witness'[e] = witness[e]
             /\ TupleOf[cur[e]] \in Tuple
  BY <1>1, TupleOfType DEF Continue, TypeOK, DetectorTypeOK
<1>2. ASSUME NEW e \in Detectors, reentry'[e]
      PROVE  Profile = "slow" /\ dpc'[e] \in {"rules", "clear", "enter"}
  <2>1. e # d
    BY <1>2 DEF Continue, TypeOK, DetectorTypeOK
  <2> QED BY <1>2, <2>1 DEF Continue, TypeOK, DetectorTypeOK, FailureEvidence
<1>3. ASSUME NEW e \in Detectors, dpc'[e] \in {"rules", "clear", "enter"}
      PROVE  \/ Profile = "fast" /\ ~reentry'[e]
             \/ reentry'[e] /\ TwoOf(TupleOf[cur'[e]], basis'[TupleOf[cur'[e]]])
             \/ ~reentry'[e] /\ witness'[e] \in Conn \ {cur'[e]}
                             /\ TupleOf[witness'[e]] = TupleOf[cur'[e]]
  BY <1>1, <1>3 DEF FailureEvidence, BasisKept
<1> QED BY <1>2, <1>3 DEF FailureEvidence

\* A detector that moves on with the tuple in hand keeps the evidence of failures
\* if what it now holds is evidence.
LEMMA FailureAdvance ==
    ASSUME TypeOK, FailureEvidence, NEW d \in Detectors, UNCHANGED basis, Fades(direct1),
           \A e \in Detectors \ {d} :
              /\ dpc'[e] = dpc[e] /\ cur'[e] = cur[e]
              /\ reentry'[e] = reentry[e] /\ witness'[e] = witness[e],
           reentry'[d] => Profile = "slow" /\ dpc'[d] \in {"rules", "clear", "enter"},
           dpc'[d] \in {"rules", "clear", "enter"} =>
              \/ Profile = "fast" /\ ~reentry'[d]
              \/ reentry'[d] /\ TwoOf(TupleOf[cur'[d]], basis[TupleOf[cur'[d]]])
              \/ ~reentry'[d] /\ witness'[d] \in Conn \ {cur'[d]}
                              /\ TupleOf[witness'[d]] = TupleOf[cur'[d]]
    PROVE  FailureEvidence'
<1>1. \A t \in Tuple : direct1'[t] # NoConn => TupleOf[direct1'[t]] = t
  BY DEF FailureEvidence, Fades
<1>2. ASSUME NEW e \in Detectors, reentry'[e]
      PROVE  Profile = "slow" /\ dpc'[e] \in {"rules", "clear", "enter"}
  BY <1>2 DEF FailureEvidence
<1>3. ASSUME NEW e \in Detectors, dpc'[e] \in {"rules", "clear", "enter"}
      PROVE  \/ Profile = "fast" /\ ~reentry'[e]
             \/ reentry'[e] /\ TwoOf(TupleOf[cur'[e]], basis'[TupleOf[cur'[e]]])
             \/ ~reentry'[e] /\ witness'[e] \in Conn \ {cur'[e]}
                             /\ TupleOf[witness'[e]] = TupleOf[cur'[e]]
  BY <1>3 DEF FailureEvidence
<1> QED BY <1>1, <1>2, <1>3 DEF FailureEvidence

\* What a detector does with evidence keeps all of it consistent.
LEMMA DetectorKeepsEvidence ==
    ASSUME TypeOK, EvidenceInv, NEW d \in Detectors, DetectorStep(d), TypeOK'
    PROVE  EvidenceInv'
<1> USE TupleOfType, NoConnIsNone
    DEF routerVars, envVars, listVars, ruleVars, histVars, connVars
<1> DEFINE c == cur[d]
           t == TupleOf[cur[d]]
<1>a. DetectorJob(d) /\ UNCHANGED judgeVars
  BY DEF DetectorStep
<1>b. FailureEvidence /\ TestedOnFailures /\ SuccessEvidence
  BY DEF EvidenceInv
<1>c. dpc[d] \in {"evidence", "rules", "clear", "enter"} => c \in Conn /\ t \in Tuple
  BY DEF TypeOK, DetectorTypeOK
<1>d. \A u \in Tuple : direct1[u] # NoConn => TupleOf[direct1[u]] = u
  BY <1>b DEF FailureEvidence
<1>e. test' \subseteq Tuple
  BY DEF TypeOK, RouterTypeOK
<1>f. ASSUME UNCHANGED basis PROVE BasisKept
  BY <1>f DEF BasisKept
<1>g. ASSUME UNCHANGED <<test, awg1, recheck, basis, verdicts, rechecked>>
      PROVE  TestedOnFailures' /\ SuccessEvidence'
  <2>1. Fades(awg1)
    BY <1>g DEF Fades
  <2> QED BY <1>a, <1>b, <1>e, <1>f, <1>g, <2>1, TestedFrame, SuccessFrame
<1>h. ASSUME UNCHANGED direct1 PROVE Fades(direct1)
  BY <1>h DEF Fades
<1>1. CASE TakeSnapshot(d)
  <2>1. FailureEvidence'
    BY <1>1, <1>b, <1>h, FailureAdvance
       DEF TakeSnapshot, TypeOK, DetectorTypeOK, FailureEvidence
  <2> QED BY <1>1, <1>g, <2>1 DEF TakeSnapshot, EvidenceInv
<1>2. ASSUME NEW x \in Conn, StartWatch(d, x) PROVE EvidenceInv'
  <2>1. FailureEvidence'
    BY <1>2, <1>b, <1>d, <1>f, FailureContinue DEF StartWatch
  <2> QED BY <1>2, <1>g, <2>1 DEF StartWatch, EvidenceInv
<1>3. ASSUME NEW x \in Conn, NEW s \in {"silent", "stalled"}, Skip(d, x, s)
      PROVE  EvidenceInv'
  <2>1. FailureEvidence'
    BY <1>3, <1>b, <1>d, <1>f, FailureContinue DEF Skip
  <2> QED BY <1>3, <1>g, <2>1 DEF Skip, EvidenceInv
<1>4. ASSUME NEW x \in Conn, NEW s \in {"silent", "stalled"}, Suspect(d, x, s)
      PROVE  EvidenceInv'
  <2>1. ~reentry[d]
    BY <1>4, <1>b DEF Suspect, Pick, FailureEvidence
  <2>2. FailureEvidence'
    BY <1>4, <1>b, <1>h, <2>1, FailureAdvance
       DEF Suspect, TypeOK, DetectorTypeOK
  <2> QED BY <1>4, <1>g, <2>2 DEF Suspect, EvidenceInv
<1>5. CASE FailedRecheck(d)
  <2>1. TwoOf(t, basis[t])
    BY <1>5, <1>b, <1>c DEF FailedRecheck, RecheckOpen, TestedOnFailures
  <2>2. FailureEvidence'
    BY <1>5, <1>b, <1>h, <2>1, FailureAdvance
       DEF FailedRecheck, RecheckOpen, TypeOK, DetectorTypeOK
  <2> QED BY <1>5, <1>g, <2>2 DEF FailedRecheck, EvidenceInv
<1>6. CASE RecordFirst(d) \/ RecordFirstRefused(d)
  <2>1. t \in Tuple /\ c \in Conn
    BY <1>6, <1>c DEF RecordFirst, RecordFirstRefused
  <2>2. /\ UNCHANGED histVars /\ UNCHANGED test /\ ClearStale(t) /\ Continue(d, snap[d])
        /\ \/ direct1' = [direct1 EXCEPT ![t] = c]
           \/ direct1' = [direct1 EXCEPT ![t] = NoConn]
    BY <1>6 DEF RecordFirst, RecordFirstRefused
  <2>3. \A u \in Tuple : direct1'[u] # NoConn => TupleOf[direct1'[u]] = u
    BY <1>d, <2>1, <2>2 DEF TypeOK, RouterTypeOK
  <2>4. Fades(awg1) /\ \A u \in Tuple : u \in recheck /\ awg1'[u] # NoConn => u \in recheck'
    BY <2>1, <2>2 DEF ClearStale, Fades, TypeOK, RouterTypeOK
  <2>5. FailureEvidence'
    BY <1>b, <1>f, <2>2, <2>3, FailureContinue
  <2>6. TestedOnFailures' /\ SuccessEvidence'
    BY <1>a, <1>b, <1>e, <1>f, <2>2, <2>4, TestedFrame, SuccessFrame
  <2> QED BY <2>5, <2>6 DEF EvidenceInv
<1>7. CASE SameFailure(d) \/ RulesRefused(d) \/ EnterTestRefused(d)
  <2>1. FailureEvidence'
    BY <1>7, <1>b, <1>d, <1>f, FailureContinue
       DEF SameFailure, RulesRefused, EnterTestRefused
  <2> QED BY <1>7, <1>g, <2>1 DEF SameFailure, RulesRefused, EnterTestRefused, EvidenceInv
<1>8. CASE SecondFailure(d)
  <2>1. t \in Tuple /\ c \in Conn
    BY <1>8, <1>c DEF SecondFailure
  <2>2. /\ FirstFailure(t) \in Conn \ {c}
        /\ TupleOf[FirstFailure(t)] = t
    BY <1>8, <1>d, <2>1
       DEF SecondFailure, Independent, FirstFailure, TypeOK, RouterTypeOK
  <2>3. ~reentry[d]
    BY <1>8, <1>b DEF SecondFailure, FailureEvidence
  <2>4. FailureEvidence'
    BY <1>8, <1>b, <1>h, <2>2, <2>3, FailureAdvance
       DEF SecondFailure, TypeOK, DetectorTypeOK
  <2> QED BY <1>8, <1>g, <2>4 DEF SecondFailure, EvidenceInv
<1>9. CASE EnsureRules(d)
  <2>1. FailureEvidence'
    BY <1>9, <1>b, <1>h, FailureAdvance
       DEF EnsureRules, TypeOK, DetectorTypeOK, FailureEvidence
  <2> QED BY <1>9, <1>g, <2>1 DEF EnsureRules, EvidenceInv
<1>10. CASE ClearEvidence(d)
  <2>1. t \in Tuple /\ UNCHANGED <<test, awg1, basis, verdicts>>
    BY <1>10, <1>c DEF ClearEvidence
  <2>2. Fades(direct1) /\ Fades(awg1)
    BY <1>10, <2>1 DEF ClearEvidence, Fades, TypeOK, RouterTypeOK
  <2>3. SuccessEvidence'
    <3>1. ASSUME NEW u \in Tuple, u \in recheck \cup rechecked, awg1'[u] # NoConn,
                 Profile = "slow"
          PROVE  u \in recheck' \cup rechecked'
      BY <1>10, <2>1, <3>1 DEF ClearEvidence, EvidenceFits
    <3>2. CASE Profile = "slow"
      BY <1>a, <1>b, <2>1, <2>2, <3>1, <3>2, SuccessFrame
    <3>3. CASE Profile # "slow"
      <4>1. \A u \in Tuple : awg1'[u] = awg1[u]
        BY <2>1
      <4> QED BY <1>a, <1>b, <2>1, <3>3, <4>1 DEF SuccessEvidence, Opening, judgeVars
    <3> QED BY <3>2, <3>3
  <2>4. TestedOnFailures'
    BY <1>a, <1>b, <1>e, <1>f, <2>1, <2>2, TestedFrame
  <2>5. FailureEvidence'
    <3>1. CASE EvidenceFits(d, t)
      BY <1>10, <1>b, <2>1, <2>2, <3>1, FailureAdvance
         DEF ClearEvidence, TypeOK, DetectorTypeOK, FailureEvidence
    <3>2. CASE ~EvidenceFits(d, t)
      <4>1. \A u \in Tuple : direct1'[u] # NoConn => TupleOf[direct1'[u]] = u
        BY <1>d, <2>2 DEF Fades
      <4> QED BY <1>10, <1>b, <1>f, <2>1, <3>2, <4>1, FailureContinue DEF ClearEvidence
    <3> QED BY <3>1, <3>2
  <2> QED BY <2>3, <2>4, <2>5 DEF EvidenceInv
<1>11. CASE EnterTest(d)
  <2>1. t \in Tuple /\ c \in Conn /\ TupleOf[c] = t
    BY <1>11, <1>c DEF EnterTest
  <2>2. /\ UNCHANGED <<awg1, recheck, direct1, verdicts, rechecked>>
        /\ Continue(d, snap[d])
        /\ test' = test \cup {t}
        /\ basis' = [basis EXCEPT ![t] = IF reentry[d] THEN @ \cup {c}
                                        ELSE {c, witness[d]} \ {NoConn}]
    BY <1>11 DEF EnterTest
  <2>3. Profile # "fast" => TwoOf(t, basis'[t])
    <3>1. CASE reentry[d] /\ Profile # "fast"
      BY <1>11, <1>b, <2>1, <2>2, <3>1
         DEF EnterTest, FailureEvidence, TwoOf, TypeOK, RouterTypeOK
    <3>2. ASSUME ~reentry[d], Profile # "fast" PROVE TwoOf(t, basis'[t])
      <4>1. witness[d] \in Conn \ {c} /\ TupleOf[witness[d]] = t
        BY <1>11, <1>b, <3>2 DEF EnterTest, FailureEvidence
      <4>2. basis'[t] = {c, witness[d]}
        BY <2>1, <2>2, <3>2, <4>1 DEF TypeOK, RouterTypeOK
      <4> QED BY <2>1, <4>1, <4>2 DEF TwoOf
    <3> QED BY <3>1, <3>2
  <2>4. Fades(awg1)
    BY <2>2 DEF Fades
  <2>5. SuccessEvidence'
    BY <1>a, <1>b, <2>2, <2>4, SuccessFrame
  <2>6. CASE Profile # "fast"
    <3>1. BasisKept
      BY <2>2, <2>3, <2>6 DEF BasisKept, TypeOK, RouterTypeOK
    <3>2. TestedOnFailures'
      BY <1>a, <1>b, <1>e, <2>2, <2>3, <2>4, <2>6, <3>1, TestedFrame
    <3>3. FailureEvidence'
      BY <1>b, <1>d, <2>2, <3>1, FailureContinue
    <3> QED BY <2>5, <3>2, <3>3 DEF EvidenceInv
  <2>7. CASE Profile = "fast"
    <3>1. TestedOnFailures'
      BY <2>7 DEF TestedOnFailures
    <3>2. BasisKept
      BY <2>7 DEF BasisKept
    <3>3. FailureEvidence'
      BY <1>b, <1>d, <2>2, <3>2, FailureContinue
    <3> QED BY <2>5, <3>1, <3>3 DEF EvidenceInv
  <2> QED BY <2>6, <2>7
<1> QED BY <1>a, <1>1, <1>2, <1>3, <1>4, <1>5, <1>6, <1>7, <1>8, <1>9, <1>10, <1>11
        DEF DetectorJob

\* JUDGE acts on a connection it picked while its tuple was in TEST, so what it
\* counts as success is evidence about a tuple that entered TEST properly.
LEMMA JudgeKeepsEvidence ==
    ASSUME TypeOK, EvidenceInv, JudgeStep, TypeOK'
    PROVE  EvidenceInv'
<1> USE TupleOfType, NoConnIsNone
    DEF routerVars, envVars, listVars, ruleVars, histVars, connVars
<1>a. JudgeNext /\ UNCHANGED detVars
  BY DEF JudgeStep
<1>b. FailureEvidence /\ TestedOnFailures /\ SuccessEvidence
  BY DEF EvidenceInv
<1>e. test' \subseteq Tuple
  BY DEF TypeOK, RouterTypeOK
<1>f. ASSUME UNCHANGED basis PROVE BasisKept
  BY <1>f DEF BasisKept
<1>g. ASSUME UNCHANGED basis, Fades(direct1) PROVE FailureEvidence'
  BY <1>a, <1>b, <1>f, <1>g, FailureFrame
<1>h. ASSUME UNCHANGED direct1 PROVE Fades(direct1)
  BY <1>h DEF Fades
<1>t. \A c \in Conn : TupleOf[c] \in Tuple
  OBVIOUS
<1>n. NoneJudged[1] = NoConn
  BY DEF NoneJudged
<1>1. CASE JudgeStart \/ JudgeTurn \/ JudgeEnd
  <2>1. UNCHANGED <<test, awg1, recheck, direct1, basis, verdicts, rechecked, jcur>>
    BY <1>1 DEF JudgeStart, JudgeTurn, JudgeEnd
  <2>2. FailureEvidence'
    BY <1>g, <1>h, <2>1
  <2>3. jpc # "window" /\ jpc' \in {"test", "ok", "idle"}
        /\ (jpc' = "test" => jcur = NoneJudged)
        /\ (jpc' = "idle" => jsnap' = {} /\ jcur = NoneJudged)
    BY <1>1, <1>b DEF JudgeStart, JudgeTurn, JudgeEnd, SuccessEvidence
  <2>4. TestedOnFailures'
    BY <1>b, <2>1, <2>3 DEF TestedOnFailures, TwoOf
  <2>5. SuccessEvidence'
    BY <1>b, <2>1, <2>3 DEF SuccessEvidence, Opening
  <2> QED BY <2>2, <2>4, <2>5 DEF EvidenceInv
<1>2. ASSUME NEW c \in Conn, NEW s \in Stat, JudgePick(c, s) PROVE EvidenceInv'
  <2>1. UNCHANGED <<test, awg1, recheck, direct1, basis, verdicts, rechecked, jpc>>
    BY <1>2 DEF JudgePick
  <2>2. FailureEvidence'
    BY <1>g, <1>h, <2>1
  <2>3. /\ jpc \in {"test", "ok"}
        /\ \/ jcur' = NoneJudged
           \/ jcur'[1] = c /\ (jpc = "test" => TupleOf[c] \in test)
    BY <1>2, <1>b DEF JudgePick, SuccessEvidence, TypeOK, JudgeTypeOK
  <2>4. TestedOnFailures'
    BY <1>b, <1>t, <2>1, <2>3 DEF TestedOnFailures, TwoOf
  <2>5. SuccessEvidence'
    BY <1>b, <2>1, <2>3 DEF SuccessEvidence, Opening
  <2> QED BY <2>2, <2>4, <2>5 DEF EvidenceInv
<1>3. ASSUME NEW c \in Conn, TestFailed(c) \/ ConfirmedFailed(c) PROVE EvidenceInv'
  <2>1. /\ ForgetTuple(TupleOf[c]) /\ UNCHANGED <<basis, verdicts, rechecked, jcur>>
        /\ jpc \in {"test", "ok"} /\ jpc' \in {"coolTest", "coolOk"} /\ jcur[1] = c
    BY <1>3 DEF TestFailed, ConfirmedFailed, Judging
  <2>2. Fades(direct1) /\ Fades(awg1) /\ test' \subseteq test
    BY <1>t, <2>1 DEF ForgetTuple, ForgetEvidence, Fades, TypeOK, RouterTypeOK
  <2>3. FailureEvidence'
    BY <1>g, <2>1, <2>2
  <2>4. TestedOnFailures'
    BY <1>b, <2>1, <2>2 DEF TestedOnFailures, TwoOf, Fades
  <2>5. jcur' # NoneJudged
    BY <1>n, <2>1
  <2>6. \A t \in Tuple : awg1'[t] # NoConn =>
           awg1'[t] = awg1[t] /\ (t \in recheck => t \in recheck')
    BY <1>t, <2>1, <2>2 DEF ForgetTuple, ForgetEvidence, Fades, TypeOK, RouterTypeOK
  <2>7. SuccessEvidence'
    BY <1>b, <2>1, <2>5, <2>6 DEF SuccessEvidence, Opening
  <2> QED BY <2>3, <2>4, <2>7 DEF EvidenceInv
<1>4. ASSUME NEW c \in Conn, Confirm(c) PROVE EvidenceInv'
  <2>1. /\ ForgetTuple(TupleOf[c]) /\ UNCHANGED <<basis, rechecked, jpc>>
        /\ jpc = "test" /\ jcur' = NoneJudged
        /\ verdicts' = [verdicts EXCEPT ![TupleOf[c]] =
                                     IF Profile = "fast" THEN {c} ELSE @ \cup {c}]
    BY <1>4 DEF Confirm, Judging, JudgeDone
  <2>2. Fades(direct1) /\ Fades(awg1) /\ test' \subseteq test
    BY <1>t, <2>1 DEF ForgetTuple, ForgetEvidence, Fades, TypeOK, RouterTypeOK
  <2>3. FailureEvidence'
    BY <1>g, <2>1, <2>2
  <2>4. TestedOnFailures'
    BY <1>b, <2>1, <2>2 DEF TestedOnFailures, TwoOf, Fades
  <2>5. ASSUME NEW t \in Tuple, awg1'[t] # NoConn
        PROVE  /\ awg1'[t] = awg1[t] /\ t # TupleOf[c] /\ verdicts'[t] = verdicts[t]
               /\ t \in recheck => t \in recheck'
    BY <1>t, <2>1, <2>2, <2>5 DEF ForgetTuple, ForgetEvidence, Fades, TypeOK, RouterTypeOK
  <2>6. SuccessEvidence'
    BY <1>b, <2>1, <2>5 DEF SuccessEvidence, Opening
  <2> QED BY <2>3, <2>4, <2>6 DEF EvidenceInv
<1>5. ASSUME NEW c \in Conn,
             SameSuccess(c) \/ SuccessRefused(c) \/ ConfirmedHealthy(c)
      PROVE  EvidenceInv'
  <2>1. /\ UNCHANGED <<test, awg1, recheck, direct1, basis, verdicts, rechecked, jpc>>
        /\ jpc \in {"test", "ok"} /\ jcur' = NoneJudged
    BY <1>5 DEF SameSuccess, SuccessRefused, ConfirmedHealthy, Judging, JudgeDone
  <2>2. FailureEvidence'
    BY <1>g, <1>h, <2>1
  <2>3. TestedOnFailures'
    BY <1>b, <2>1 DEF TestedOnFailures, TwoOf
  <2>4. SuccessEvidence'
    BY <1>b, <2>1 DEF SuccessEvidence, Opening
  <2> QED BY <2>2, <2>3, <2>4 DEF EvidenceInv
<1>6. ASSUME NEW c \in Conn, FirstSuccessMiddle(c) \/ FirstSuccessSlow(c) PROVE EvidenceInv'
  <2>1. /\ UNCHANGED <<test, direct1, basis>>
        /\ jpc = "test" /\ jcur # NoneJudged /\ jcur[1] = c
        /\ awg1[TupleOf[c]] = NoConn
        /\ awg1' = [awg1 EXCEPT ![TupleOf[c]] = c]
        /\ verdicts' = [verdicts EXCEPT ![TupleOf[c]] = {c}]
    BY <1>6, <1>n DEF FirstSuccessMiddle, FirstSuccessSlow, Judging
  <2>2. FailureEvidence'
    BY <1>g, <1>h, <2>1
  <2>3. \A t \in Tuple : t # TupleOf[c] => awg1'[t] = awg1[t] /\ verdicts'[t] = verdicts[t]
    BY <2>1 DEF TypeOK, RouterTypeOK
  <2>4. awg1'[TupleOf[c]] = c /\ c \in verdicts'[TupleOf[c]]
    BY <1>t, <2>1 DEF TypeOK, RouterTypeOK
  <2>5. TestedOnFailures'
    <3>1. Profile # "fast" => TwoOf(TupleOf[c], basis[TupleOf[c]])
      BY <1>b, <2>1 DEF TestedOnFailures
    <3>2. jpc' = "test" => jcur' = NoneJudged
      BY <1>6 DEF FirstSuccessMiddle, FirstSuccessSlow, JudgeDone
    <3> QED BY <1>b, <2>1, <2>3, <3>1, <3>2 DEF TestedOnFailures, TwoOf
  <2>6. CASE FirstSuccessMiddle(c)
    <3>1. jcur' = NoneJudged /\ jpc' = jpc /\ Profile # "slow"
      BY <2>6 DEF FirstSuccessMiddle, JudgeDone, NeedsRecheck
    <3>2. \A t \in Tuple : awg1'[t] # NoConn =>
             TupleOf[awg1'[t]] = t /\ awg1'[t] \in verdicts'[t]
      BY <1>b, <2>3, <2>4 DEF SuccessEvidence
    <3>3. SuccessEvidence'
      BY <2>1, <3>1, <3>2 DEF SuccessEvidence
    <3> QED BY <2>2, <2>5, <3>3 DEF EvidenceInv
  <2>7. CASE FirstSuccessSlow(c)
    <3>1. /\ jcur' = jcur /\ jpc' = "window" /\ Profile = "slow"
          /\ recheck' = recheck \ {TupleOf[c]}
          /\ rechecked' = rechecked \ {TupleOf[c]}
      BY <2>7 DEF FirstSuccessSlow, NeedsRecheck
    <3>2. ASSUME NEW t \in Tuple, awg1'[t] # NoConn, t # TupleOf[c]
          PROVE  /\ TupleOf[awg1'[t]] = t /\ awg1'[t] \in verdicts'[t]
                 /\ t \in recheck' \cup rechecked'
      BY <1>b, <2>1, <2>3, <3>1, <3>2 DEF SuccessEvidence, Opening
    <3>3. SuccessEvidence'
      BY <2>1, <2>4, <3>1, <3>2 DEF SuccessEvidence, Opening
    <3> QED BY <2>2, <2>5, <3>3 DEF EvidenceInv
  <2> QED BY <1>6, <2>6, <2>7
<1>7. ASSUME NEW c \in Conn, OpenRecheck(c) PROVE EvidenceInv'
  <2>1. /\ UNCHANGED <<awg1, basis, verdicts, direct1, test, jcur>>
        /\ jpc = "window" /\ jcur[1] = c /\ jpc' = "opened"
        /\ recheck' = recheck \cup {TupleOf[c]}
        /\ rechecked' = rechecked \ {TupleOf[c]}
    BY <1>7 DEF OpenRecheck, Judging
  <2>2. FailureEvidence'
    BY <1>g, <1>h, <2>1
  <2>3. TestedOnFailures'
    BY <1>b, <2>1 DEF TestedOnFailures, TwoOf
  <2>4. Profile = "slow" /\ jcur # NoneJudged
    BY <1>b, <2>1 DEF SuccessEvidence
  <2>5. ASSUME NEW t \in Tuple, awg1'[t] # NoConn
        PROVE  /\ TupleOf[awg1'[t]] = t /\ awg1'[t] \in verdicts'[t]
               /\ t \in recheck' \cup rechecked'
    BY <1>b, <2>1, <2>4, <2>5 DEF SuccessEvidence, Opening
  <2>6. SuccessEvidence'
    BY <2>1, <2>4, <2>5 DEF SuccessEvidence
  <2> QED BY <2>2, <2>3, <2>6 DEF EvidenceInv
<1>8. ASSUME NEW c \in Conn,
             LeaveTest(c) \/ ReturnToDirect(c) \/ ResetToDirect(c) \/ FinishReset(c)
      PROVE  EvidenceInv'
  <2>1. /\ UNCHANGED <<basis, verdicts, rechecked>>
        /\ test' \subseteq test
        /\ jpc \in {"test", "window", "opened", "left", "reset"} /\ jcur[1] = c
        /\ \/ jpc' = "test" /\ jcur' = NoneJudged
           \/ jpc' \in {"left", "reset"} /\ jcur' = jcur
    BY <1>8 DEF LeaveTest, ReturnToDirect, ResetToDirect, FinishReset, Judging
  <2>2. /\ Fades(direct1) /\ Fades(awg1)
        /\ \A t \in Tuple : t \in recheck /\ awg1'[t] # NoConn => t \in recheck'
    BY <1>8, <1>t DEF LeaveTest, ReturnToDirect, ResetToDirect, FinishReset,
                      ForgetEvidence, Fades, TypeOK, RouterTypeOK
  <2>3. Opening(TupleOf[c]) => awg1'[TupleOf[c]] = NoConn
    BY <1>8, <1>t DEF LeaveTest, ReturnToDirect, ResetToDirect, FinishReset, Judging,
                      ForgetEvidence, Opening, TypeOK, RouterTypeOK
  <2>4. Profile = "slow" /\ jcur # NoneJudged
    BY <1>8, <1>b, <1>n
       DEF LeaveTest, ReturnToDirect, ResetToDirect, FinishReset, NeedsRecheck, Judging,
           SuccessEvidence
  <2>5. FailureEvidence'
    BY <1>g, <2>1, <2>2
  <2>6. TestedOnFailures'
    BY <1>b, <2>1, <2>2 DEF TestedOnFailures, TwoOf, Fades
  <2>7. ASSUME NEW t \in Tuple, awg1'[t] # NoConn
        PROVE  /\ TupleOf[awg1'[t]] = t /\ awg1'[t] \in verdicts'[t]
               /\ t \in recheck' \cup rechecked'
    <3>1. awg1'[t] = awg1[t] /\ ~Opening(t)
      BY <2>1, <2>2, <2>3, <2>7 DEF Fades, Opening
    <3> QED BY <1>b, <2>1, <2>2, <2>4, <2>7, <3>1 DEF SuccessEvidence
  <2>8. SuccessEvidence'
    BY <2>1, <2>4, <2>7 DEF SuccessEvidence
  <2> QED BY <2>5, <2>6, <2>8 DEF EvidenceInv
<1>9. ASSUME NEW c \in Conn, NEW m \in {"test", "ok"}, CoolDown(m, c) PROVE EvidenceInv'
  <2>1. /\ UNCHANGED <<test, awg1, recheck, direct1, basis, verdicts, rechecked>>
        /\ jpc \in {"coolTest", "coolOk"} /\ jpc' \in {"test", "ok"} /\ jcur' = NoneJudged
    BY <1>9 DEF CoolDown, Judging
  <2>2. FailureEvidence'
    BY <1>g, <1>h, <2>1
  <2>3. TestedOnFailures'
    BY <1>b, <2>1 DEF TestedOnFailures, TwoOf
  <2>4. SuccessEvidence'
    BY <1>b, <2>1 DEF SuccessEvidence, Opening
  <2> QED BY <2>2, <2>3, <2>4 DEF EvidenceInv
<1> QED BY <1>a, <1>1, <1>2, <1>3, <1>4, <1>5, <1>6, <1>7, <1>8, <1>9 DEF JudgeNext

\* The evidence is consistent in every reachable state of every deployment: no
\* interleaving of the detectors, JUDGE, HEALTH, the collector and the timeouts
\* leaves DIRECT1, AWG1 or RECHECK naming what the profiles must not count.
THEOREM EvidenceConsistent == Spec => []EvidenceInv
<1>1. Init => EvidenceInv
  BY DEF Init, RouterInit, DetectorInit, JudgeInit, EvidenceInv, FailureEvidence,
         TestedOnFailures, SuccessEvidence
<1>2. TypeOK /\ TypeOK' /\ EvidenceInv /\ [Next]_vars => EvidenceInv'
  BY OthersKeepEvidence, DetectorKeepsEvidence, JudgeKeepsEvidence DEF Next
<1> QED BY <1>1, <1>2, TypeCorrect, PTL DEF Spec

-----------------------------------------------------------------------------
(* What the profiles promise follows: a tuple enters TEST in one action only *)
(* and OK in one action only, and the invariant says what those rest on.     *)

\* Only a detector's last step puts a tuple into TEST.
LEMMA EntersTest ==
    ASSUME [Next]_vars, NEW t \in test' \ test
    PROVE  \E d \in Detectors : EnterTest(d) /\ t = TupleOf[cur[d]]
<1> USE DEF routerVars, envVars, listVars, ruleVars, histVars, connVars
<1>1. CASE RouterStep
  BY <1>1 DEF RouterStep, RouterNext, Open, Silence, Reply, Stall, Close, Ripen,
              Expire, PolicyChange, TargetChange
<1>2. ASSUME NEW d \in Detectors, DetectorStep(d)
      PROVE  EnterTest(d) /\ t = TupleOf[cur[d]]
  BY <1>2 DEF DetectorStep, DetectorJob, TakeSnapshot, StartWatch, Skip, Suspect,
              FailedRecheck, RecordFirst, RecordFirstRefused, SameFailure,
              SecondFailure, EnsureRules, RulesRefused, ClearEvidence,
              EnterTest, EnterTestRefused
<1>3. CASE JudgeStep
  BY <1>3 DEF JudgeStep, JudgeNext, JudgeStart, JudgeTurn, JudgeEnd, JudgePick,
              TestFailed, Confirm, SameSuccess, FirstSuccessMiddle, SuccessRefused,
              FirstSuccessSlow, OpenRecheck, LeaveTest, ReturnToDirect, ResetToDirect,
              FinishReset, ConfirmedFailed, ConfirmedHealthy, CoolDown, ForgetTuple
<1>4. CASE HealthStep
  BY <1>4 DEF HealthStep, HealthNext, HealthJob, HealthProbe, HealthUp, HealthRecover,
              HealthMiss, HealthStillDown, HealthDown, HealthPurge, HealthForget,
              MissExpire
<1>5. CASE GCStep
  BY <1>5 DEF GCStep, GCNext, GCGate, GCScanRules, GCCount, GCRecount, GCRemove,
              GCScanMarks, GCLook, GCLookAgain, GCDrop, GCEnd, GCFail, GCPause,
              GCDisable, GCCrash
<1>6. CASE UNCHANGED vars
  BY <1>6 DEF vars
<1> QED BY <1>1, <1>2, <1>3, <1>4, <1>5, <1>6 DEF Next

\* Only JUDGE's confirmation puts a tuple into OK.
LEMMA EntersOk ==
    ASSUME [Next]_vars, NEW t \in ok' \ ok
    PROVE  \E c \in Conn : Confirm(c) /\ t = TupleOf[c]
<1> USE DEF routerVars, envVars, listVars, ruleVars, histVars, connVars
<1>1. CASE RouterStep
  BY <1>1 DEF RouterStep, RouterNext, Open, Silence, Reply, Stall, Close, Ripen,
              Expire, PolicyChange, TargetChange
<1>2. ASSUME NEW d \in Detectors, DetectorStep(d) PROVE FALSE
  BY <1>2 DEF DetectorStep, DetectorJob, TakeSnapshot, StartWatch, Skip, Suspect,
              FailedRecheck, RecordFirst, RecordFirstRefused, SameFailure,
              SecondFailure, EnsureRules, RulesRefused, ClearEvidence,
              EnterTest, EnterTestRefused
<1>3. CASE JudgeStep
  BY <1>3 DEF JudgeStep, JudgeNext, JudgeStart, JudgeTurn, JudgeEnd, JudgePick,
              TestFailed, Confirm, SameSuccess, FirstSuccessMiddle, SuccessRefused,
              FirstSuccessSlow, OpenRecheck, LeaveTest, ReturnToDirect, ResetToDirect,
              FinishReset, ConfirmedFailed, ConfirmedHealthy, CoolDown
<1>4. CASE HealthStep
  BY <1>4 DEF HealthStep, HealthNext, HealthJob, HealthProbe, HealthUp, HealthRecover,
              HealthMiss, HealthStillDown, HealthDown, HealthPurge, HealthForget,
              MissExpire
<1>5. CASE GCStep
  BY <1>5 DEF GCStep, GCNext, GCGate, GCScanRules, GCCount, GCRecount, GCRemove,
              GCScanMarks, GCLook, GCLookAgain, GCDrop, GCEnd, GCFail, GCPause,
              GCDisable, GCCrash
<1>6. CASE UNCHANGED vars
  BY <1>6 DEF vars
<1> QED BY <1>1, <1>2, <1>3, <1>4, <1>5, <1>6 DEF Next

\* What a detector enters a tuple into TEST with are failures of two connections.
LEMMA EntersOnTwo ==
    ASSUME TypeOK, TypeOK', EvidenceInv, NEW d \in Detectors, EnterTest(d)
    PROVE  /\ TupleOf[cur[d]] \in Tuple
           /\ Profile # "fast" => TwoOf(TupleOf[cur[d]], basis'[TupleOf[cur[d]]])
<1> DEFINE t == TupleOf[cur[d]]
<1>1. cur[d] \in Conn /\ t \in Tuple
  BY TupleOfType DEF EnterTest, TypeOK, DetectorTypeOK
<1>2. ASSUME Profile # "fast" PROVE TwoOf(t, basis'[t])
  <2>1. CASE reentry[d]
    <3>1. TwoOf(t, basis[t])
      BY <1>2, <2>1 DEF EnterTest, EvidenceInv, FailureEvidence
    <3>2. basis'[t] = basis[t] \cup {cur[d]}
      BY <1>1, <2>1 DEF EnterTest, TypeOK, RouterTypeOK
    <3> QED BY <3>1, <3>2 DEF TwoOf
  <2>2. CASE ~reentry[d]
    <3>1. witness[d] \in Conn \ {cur[d]} /\ TupleOf[witness[d]] = t
      BY <1>2, <2>2 DEF EnterTest, EvidenceInv, FailureEvidence
    <3>2. basis'[t] = {cur[d], witness[d]}
      BY <1>1, <2>2, <3>1, NoConnIsNone DEF EnterTest, TypeOK, RouterTypeOK
    <3> QED BY <1>1, <3>1, <3>2 DEF TwoOf
  <2> QED BY <2>1, <2>2
<1> QED BY <1>1, <1>2

\* What JUDGE confirms a tuple with are successes of two connections and, in SLOW,
\* a closed re-check; both only of a tuple that entered TEST on two failures.
LEMMA ConfirmsOnTwo ==
    ASSUME TypeOK, EvidenceInv, NEW c \in Conn, Confirm(c), Profile # "fast"
    PROVE  LET t == TupleOf[c] IN
           /\ TwoOf(t, verdicts'[t]) /\ TwoOf(t, basis[t])
           /\ Profile = "slow" => t \in rechecked
<1> DEFINE t == TupleOf[c]
<1>1. /\ t \in Tuple /\ awg1[t] \notin {NoConn, c} /\ awg1[t] \in Conn
      /\ Profile = "slow" => t \notin recheck
      /\ jpc = "test" /\ jcur[1] = c /\ jcur # NoneJudged
  BY TupleOfType, NoConnIsNone
     DEF Confirm, Confirmable, NeedsRecheck, Judging, NoneJudged, TypeOK, RouterTypeOK
<1>2. /\ TupleOf[awg1[t]] = t /\ awg1[t] \in verdicts[t]
      /\ Profile = "slow" => t \in recheck \cup rechecked
  BY <1>1 DEF EvidenceInv, SuccessEvidence, Opening
<1>3. verdicts'[t] = verdicts[t] \cup {c}
  BY <1>1 DEF Confirm, TypeOK, RouterTypeOK
<1>4. TwoOf(t, basis[t])
  BY <1>1 DEF EvidenceInv, TestedOnFailures
<1> QED BY <1>1, <1>2, <1>3, <1>4 DEF TwoOf

\* In MIDDLE and SLOW no tuple ever enters TEST on less than the failures of two
\* different connections to it: whatever the detectors and JUDGE interleave.
THEOREM EnoughFailures == Spec => TestNeedsTwoFailures
<1>1. TypeOK /\ TypeOK' /\ EvidenceInv /\ [Next]_vars =>
        [\A t \in test' \ test : Profile # "fast" => TwoOf(t, basis'[t])]_vars
  BY EntersTest, EntersOnTwo
<1> QED BY <1>1, TypeCorrect, EvidenceConsistent, PTL DEF Spec, TestNeedsTwoFailures

\* In MIDDLE and SLOW no tuple is ever confirmed on less than the successes of two
\* different connections to it.
THEOREM EnoughTests == Spec => OkNeedsTwoTests
<1>1. TypeOK /\ EvidenceInv /\ [Next]_vars =>
        [\A t \in ok' \ ok : Profile # "fast" => TwoOf(t, verdicts'[t])]_vars
  BY EntersOk, ConfirmsOnTwo
<1> QED BY <1>1, TypeCorrect, EvidenceConsistent, PTL DEF Spec, OkNeedsTwoTests

\* In SLOW no tuple is ever confirmed while the DIRECT re-check that its first
\* success opened was not ended by a failure.
THEOREM RecheckFirst == Spec => SlowOkNeedsRecheck
<1>1. TypeOK /\ EvidenceInv /\ [Next]_vars =>
        [\A t \in ok' \ ok : Profile = "slow" => t \in rechecked]_vars
  BY EntersOk, ConfirmsOnTwo
<1> QED BY <1>1, TypeCorrect, EvidenceConsistent, PTL DEF Spec, SlowOkNeedsRecheck

-----------------------------------------------------------------------------
(* DataPlane implements Decision.                                            *)

\* What a step leaves to be forgotten is all it may change of a decision.
Decided == <<basis, verdicts, rechecked>>
Forgets == test' \subseteq test /\ ok' \subseteq ok /\ UNCHANGED Decided

\* Traffic, timeouts, HEALTH and the collector only ever forget.
LEMMA OthersForget ==
    ASSUME RouterStep \/ HealthStep \/ GCStep \/ UNCHANGED vars
    PROVE  Forgets
<1> USE DEF Forgets, Decided, routerVars, envVars, listVars, ruleVars, histVars, connVars
<1>1. CASE RouterStep
  BY <1>1 DEF RouterStep, RouterNext, Open, Silence, Reply, Stall, Close, Ripen,
              Expire, PolicyChange, TargetChange
<1>2. CASE HealthStep
  BY <1>2 DEF HealthStep, HealthNext, HealthJob, HealthProbe, HealthUp, HealthRecover,
              HealthMiss, HealthStillDown, HealthDown, HealthPurge, HealthForget,
              MissExpire
<1>3. CASE GCStep
  BY <1>3 DEF GCStep, GCNext, GCGate, GCScanRules, GCCount, GCRecount, GCRemove,
              GCScanMarks, GCLook, GCLookAgain, GCDrop, GCEnd, GCFail, GCPause,
              GCDisable, GCCrash
<1>4. CASE UNCHANGED vars
  BY <1>4 DEF vars
<1> QED BY <1>1, <1>2, <1>3, <1>4

\* A detector decides in two steps: it closes a re-check or puts a tuple under test.
LEMMA DetectorDecides ==
    ASSUME TypeOK, TypeOK', EvidenceInv, NEW d \in Detectors, DetectorJob(d)
    PROVE  D!Next
<1> USE DEF routerVars, envVars, listVars, ruleVars, histVars, connVars
<1> DEFINE t == TupleOf[cur[d]]
<1>1. CASE EnterTest(d)
  <2>1. t \in Tuple /\ (Profile # "fast" => TwoOf(t, basis'[t]))
    BY <1>1, EntersOnTwo
  <2>2. /\ test' = test \cup {t} /\ UNCHANGED <<ok, verdicts, rechecked>>
        /\ basis' = [basis EXCEPT ![t] = basis'[t]]
    <3>1. basis \in [Tuple -> SUBSET Conn]
      BY DEF TypeOK, RouterTypeOK
    <3>2. /\ test' = test \cup {t} /\ UNCHANGED <<ok, verdicts, rechecked>>
          /\ basis' = [basis EXCEPT ![t] = IF reentry[d] THEN @ \cup {cur[d]}
                                          ELSE {cur[d], witness[d]} \ {NoConn}]
      BY <1>1 DEF EnterTest
    <3> QED BY <2>1, <3>1, <3>2
  <2>3. basis'[t] \in SUBSET Conn
    BY <2>1 DEF TypeOK, RouterTypeOK
  <2>4. D!Suspect(t)
    BY <2>1, <2>2, <2>3 DEF D!Suspect, D!Enough, D!Two, TwoOf
  <2> QED BY <2>1, <2>4 DEF D!Next
<1>2. CASE ClearEvidence(d) /\ rechecked' # rechecked
  <2>1. /\ dpc[d] = "clear" /\ reentry[d] /\ rechecked' = rechecked \cup {t}
        /\ UNCHANGED <<test, ok, basis, verdicts>>
    BY <1>2 DEF ClearEvidence
  <2>2. t \in Tuple
    BY <2>1, TupleOfType DEF TypeOK, DetectorTypeOK
  <2>3. Profile = "slow" /\ TwoOf(t, basis[t])
    BY <2>1 DEF EvidenceInv, FailureEvidence
  <2>4. D!Recheck(t)
    BY <2>1, <2>3 DEF D!Recheck, D!Failing, D!Enough, D!Two, TwoOf
  <2> QED BY <2>2, <2>4 DEF D!Next
<1>3. CASE ~EnterTest(d) /\ ~(ClearEvidence(d) /\ rechecked' # rechecked)
  <2>1. Forgets
    BY <1>3 DEF Forgets, Decided, DetectorJob, TakeSnapshot, StartWatch, Skip,
                Suspect, FailedRecheck, RecordFirst, RecordFirstRefused,
                SameFailure, SecondFailure, EnsureRules, RulesRefused,
                ClearEvidence, EnterTestRefused
  <2> QED BY <2>1 DEF Forgets, Decided, D!Next, D!Forget
<1> QED BY <1>1, <1>2, <1>3

\* JUDGE decides in three: a first success of either profile, and a confirmation.
LEMMA JudgeDecides ==
    ASSUME TypeOK, EvidenceInv, JudgeNext
    PROVE  D!Next
<1> USE DEF routerVars, envVars, listVars, ruleVars, histVars, connVars
<1>1. ASSUME NEW c \in Conn, Confirm(c) PROVE D!Next
  <2> DEFINE t == TupleOf[c]
  <2>1. t \in Tuple
    BY TupleOfType
  <2>2. /\ ok' = ok \cup {t} /\ test' = test \ {t} /\ UNCHANGED <<basis, rechecked>>
        /\ verdicts' = [verdicts EXCEPT ![t] =
                           IF Profile = "fast" THEN {c} ELSE @ \cup {c}]
    BY <1>1 DEF Confirm, ForgetTuple
  <2>3. Profile # "fast" => /\ TwoOf(t, verdicts'[t]) /\ TwoOf(t, basis[t])
                            /\ Profile = "slow" => t \in rechecked
    BY <1>1, ConfirmsOnTwo
  <2>4. D!Confirm(t, c)
    BY <2>1, <2>2, <2>3, ProfileValue DEF D!Confirm, D!Failing, D!Enough, D!Two, TwoOf
  <2> QED BY <2>1, <2>4 DEF D!Next
<1>2. ASSUME NEW c \in Conn, FirstSuccessMiddle(c) \/ FirstSuccessSlow(c) PROVE D!Next
  <2> DEFINE t == TupleOf[c]
  <2>1. t \in Tuple
    BY TupleOfType
  <2>2. jpc = "test" /\ jcur[1] = c /\ jcur # NoneJudged /\ Profile # "fast"
    BY <1>2, NoConnIsNone
       DEF FirstSuccessMiddle, FirstSuccessSlow, Judging, NoneJudged, NeedsRecheck
  <2>3. TwoOf(t, basis[t])
    BY <2>2 DEF EvidenceInv, TestedOnFailures
  <2>4. verdicts' = [verdicts EXCEPT ![t] = {c}] /\ UNCHANGED <<test, ok, basis>>
    BY <1>2 DEF FirstSuccessMiddle, FirstSuccessSlow
  <2>5. rechecked' = IF Profile = "slow" THEN rechecked \ {t} ELSE rechecked
    BY <1>2 DEF FirstSuccessMiddle, FirstSuccessSlow, NeedsRecheck
  <2>6. D!Promising(t, c)
    BY <2>2, <2>3, <2>4, <2>5 DEF D!Promising, D!Failing, D!Enough, D!Two, TwoOf
  <2> QED BY <2>1, <2>6 DEF D!Next
<1>3. CASE \A c \in Conn : /\ ~Confirm(c)
                         /\ ~FirstSuccessMiddle(c) /\ ~FirstSuccessSlow(c)
  <2>1. test' \subseteq test /\ ok' \subseteq ok /\ rechecked' \subseteq rechecked
        /\ UNCHANGED <<basis, verdicts>>
    BY <1>3 DEF JudgeNext, JudgeStart, JudgeTurn, JudgeEnd, JudgePick, TestFailed,
                SameSuccess, SuccessRefused, OpenRecheck, LeaveTest, ReturnToDirect,
                ResetToDirect, FinishReset, ConfirmedFailed, ConfirmedHealthy, CoolDown,
                ForgetTuple
  <2> QED BY <2>1 DEF D!Next, D!Forget
<1> QED BY <1>1, <1>2, <1>3

\* Decision is implemented by the data plane: detectors, JUDGE, HEALTH, collector and
\* timeouts, in any interleaving and under every failure, take only its steps.
THEOREM DecisionImplemented == Spec => ImplementsDecision
<1>1. Init => D!Init
  BY DEF Init, RouterInit, D!Init
<1>2. TypeOK /\ TypeOK' /\ EvidenceInv /\ [Next]_vars => [D!Next]_(D!vars)
  <2> SUFFICES ASSUME TypeOK, TypeOK', EvidenceInv, [Next]_vars PROVE D!Next
    OBVIOUS
  <2>1. CASE RouterStep \/ HealthStep \/ GCStep \/ UNCHANGED vars
    BY <2>1, OthersForget DEF Forgets, Decided, D!Next, D!Forget
  <2>2. ASSUME NEW d \in Detectors, DetectorStep(d) PROVE D!Next
    BY <2>2, DetectorDecides DEF DetectorStep
  <2>3. CASE JudgeStep
    BY <2>3, JudgeDecides DEF JudgeStep
  <2> QED BY <2>1, <2>2, <2>3 DEF Next
<1> QED BY <1>1, <1>2, TypeCorrect, EvidenceConsistent, PTL
        DEF Spec, ImplementsDecision, D!Spec

-----------------------------------------------------------------------------
(* The work of one collection.                                              *)

\* What is in hand was taken while the budget of its kind allowed one more.
WithinBudget ==
    /\ GCBounded
    /\ gpc \in {"recount", "remove"} =>
          gitem \in Rule /\ gused[gitem[2]] < LazyBudget
    /\ gpc \in {"look", "drop"} =>
          gitem \in Conn \X Mark /\ Affordable(gitem[2])

\* Counters start at zero in both halves of a pass.
LEMMA UnusedFits == \A k \in RuleKind : Unused[k] <= LazyBudget /\ Unused[k] <= MarkBudget
BY BudgetType DEF Unused

\* A mark counts as one of the two kinds.
LEMMA KindType == \A m \in Mark : KindOfMark(m) \in RuleKind
BY DEF KindOfMark, Mark, RuleKind

\* Each action of the collector stays within the budgets.
LEMMA GCKeepsBudget ==
    ASSUME TypeOK, WithinBudget, NEW idle, GCNext(idle)
    PROVE  WithinBudget'
<1>t. gused \in [RuleKind -> Nat]
  BY DEF TypeOK, GCTypeOK
<1>1. CASE GCGate(idle) \/ GCEnd \/ GCFail \/ GCPause \/ GCDisable \/ GCCrash
  BY <1>1 DEF GCGate, GCEnd, GCFail, GCPause, GCDisable, GCCrash,
              WithinBudget, GCBounded
<1>2. CASE GCScanRules \/ GCScanMarks
  BY <1>2, UnusedFits DEF GCScanRules, GCScanMarks, WithinBudget, GCBounded
<1>3. ASSUME NEW r \in Rule, GCCount(r) PROVE WithinBudget'
  BY <1>3 DEF GCCount, WithinBudget, GCBounded
<1>4. CASE GCRecount
  BY <1>4 DEF GCRecount, WithinBudget, GCBounded
<1>5. CASE GCRemove
  <2>1. gitem[2] \in RuleKind /\ gused[gitem[2]] < LazyBudget
    BY <1>5 DEF GCRemove, WithinBudget, Rule
  <2>2. gused' = [gused EXCEPT ![gitem[2]] = @ + 1] /\ gpc' = "rules"
    BY <1>5 DEF GCRemove
  <2>3. \A k \in RuleKind : gused[k] <= LazyBudget
    BY <1>5 DEF GCRemove, WithinBudget, GCBounded
  <2>4. \A k \in RuleKind : gused'[k] <= LazyBudget
    BY <1>t, <2>1, <2>2, <2>3, BudgetType
  <2> QED BY <2>2, <2>4 DEF WithinBudget, GCBounded
<1>6. ASSUME NEW item \in Conn \X Mark, GCLook(item) PROVE WithinBudget'
  BY <1>6 DEF GCLook, WithinBudget, GCBounded, Affordable
<1>7. CASE GCLookAgain
  BY <1>7 DEF GCLookAgain, WithinBudget, GCBounded, Affordable
<1>8. CASE GCDrop
  <2> DEFINE k == KindOfMark(gitem[2])
  <2>1. k \in RuleKind /\ gused[k] < MarkBudget
    BY <1>8, KindType DEF GCDrop, WithinBudget, Affordable
  <2>2. gused' = [gused EXCEPT ![k] = @ + 1] /\ gpc' = "marks"
    BY <1>8 DEF GCDrop
  <2>3. \A j \in RuleKind : gused[j] <= MarkBudget
    BY <1>8 DEF GCDrop, WithinBudget, GCBounded
  <2>4. \A j \in RuleKind : gused'[j] <= MarkBudget
    BY <1>t, <2>1, <2>2, <2>3, BudgetType
  <2> QED BY <2>2, <2>4 DEF WithinBudget, GCBounded
<1> QED BY <1>1, <1>2, <1>3, <1>4, <1>5, <1>6, <1>7, <1>8 DEF GCNext

\* One pass of the collector removes at most the budget of each kind, however
\* the scripts, traffic and failures interleave with it.
THEOREM BoundedPass == Spec => []GCBounded
<1>1. Init => WithinBudget
  BY DEF Init, GCInit, WithinBudget, GCBounded
<1>2. TypeOK /\ WithinBudget /\ [Next]_vars => WithinBudget'
  <2> SUFFICES ASSUME TypeOK, WithinBudget, [Next]_vars PROVE WithinBudget'
    OBVIOUS
  <2>1. CASE UNCHANGED gcVars
    BY <2>1 DEF gcVars, WithinBudget, GCBounded, Affordable
  <2>2. CASE GCStep
    BY <2>2, GCKeepsBudget DEF GCStep
  <2> QED BY <2>1, <2>2 DEF Next, vars, RouterStep, DetectorStep, JudgeStep, HealthStep
<1>3. WithinBudget => GCBounded
  BY DEF WithinBudget
<1> QED BY <1>1, <1>2, <1>3, TypeCorrect, PTL DEF Spec

=============================================================================
