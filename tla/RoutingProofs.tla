---------------------------- MODULE RoutingProofs ----------------------------
(***************************************************************************)
(* Theorems about DataPlane: what a decision means for the packet path.    *)
(* Several of its promises are kept only as long as two components do not  *)
(* meet at one moment; that moment is then a hypothesis of the theorem,    *)
(* stated as what no step does, and the theorem says that nothing else     *)
(* breaks the promise.                                                     *)
(***************************************************************************)
EXTENDS DataPlaneProofs

-----------------------------------------------------------------------------
(* The rules of a tuple.                                                    *)

\* A detector has made the rules for the tuple and has not entered it yet.
Entering(d, t) == dpc[d] \in {"clear", "enter"} /\ TupleOf[cur[d]] = t

\* JUDGE has a connection of the tuple in hand and may confirm it.
Judged(t) == jpc = "test" /\ jcur # NoneJudged /\ TupleOf[jcur[1]] = t

\* Who relies on the rule of a kind, or will do without looking at it again.
Needs(t, k) ==
    \/ t \in test
    \/ \E d \in Detectors : Entering(d, t)
    \/ k = "OK" /\ (t \in ok \/ Judged(t))

\* The inductive invariant behind TestHasRule and OkHasRule.
RulesInv(k) ==
    \A t \in Tuple : Needs(t, k) => lazy[<<PortOf(t), k>>] # "absent"

\* A rule of the kind that was there is there.
RulesStay(k) == \A r \in Rule : r[2] = k /\ lazy[r] # "absent" => lazy'[r] # "absent"

\* Nobody comes to rely on a rule that is not there.
NoNewNeed(k) ==
    \A t \in Tuple : Needs(t, k)' => Needs(t, k) \/ lazy'[<<PortOf(t), k>>] # "absent"

\* Then the invariant is kept.
LEMMA RulesFrame ==
    ASSUME NEW k \in RuleKind, RulesInv(k), RulesStay(k), NoNewNeed(k)
    PROVE  RulesInv(k)'
<1> SUFFICES ASSUME NEW t \in Tuple, Needs(t, k)'
             PROVE  lazy'[<<PortOf(t), k>>] # "absent"
  BY DEF RulesInv
<1>1. <<PortOf(t), k>> \in Rule
  BY DEF Tuple, PortOf, Rule
<1> QED BY <1>1 DEF RulesInv, RulesStay, NoNewNeed

\* Traffic, timeouts, HEALTH and what the collector does short of a removal.
LEMMA OthersKeepRules ==
    ASSUME TypeOK, NEW k \in RuleKind, RulesInv(k),
           RouterStep \/ HealthStep \/ (GCStep /\ ~GCRemove) \/ UNCHANGED vars
    PROVE  RulesInv(k)'
<1> USE DEF routerVars, envVars, listVars, ruleVars, histVars, connVars
<1>1. test' \subseteq test /\ ok' \subseteq ok
  BY OthersForget DEF Forgets
<1>2. UNCHANGED <<detVars, judgeVars>>
  BY DEF RouterStep, HealthStep, GCStep, vars
<1>3. NoNewNeed(k)
  BY <1>1, <1>2 DEF NoNewNeed, Needs, Entering, Judged, detVars, judgeVars
<1>4. RulesStay(k)
  <2>1. CASE RouterStep
    BY <2>1 DEF RouterStep, RouterNext, Open, Silence, Reply, Stall, Close, Ripen,
                Expire, PolicyChange, TargetChange, RulesStay
  <2>2. CASE HealthStep
    BY <2>2 DEF HealthStep, HealthNext, HealthJob, HealthProbe, HealthUp, Enabled,
                HealthRecover, HealthMiss, HealthStillDown, HealthDown, HealthPurge,
                HealthForget, MissExpire, RulesStay
  <2>3. CASE GCStep /\ ~GCRemove
    BY <2>3 DEF GCStep, GCNext, GCGate, GCScanRules, GCCount, GCRecount,
                GCScanMarks, GCLook, GCLookAgain, GCDrop, GCEnd, GCFail, GCPause,
                GCDisable, GCCrash, RulesStay
  <2>4. CASE UNCHANGED vars
    BY <2>4 DEF vars, RulesStay
  <2> QED BY <2>1, <2>2, <2>3, <2>4
<1> QED BY <1>3, <1>4, RulesFrame

\* A detector makes both rules before it goes on, and never removes one.
LEMMA DetectorKeepsRules ==
    ASSUME TypeOK, NEW k \in RuleKind, RulesInv(k), NEW d \in Detectors,
           DetectorStep(d)
    PROVE  RulesInv(k)'
<1> USE DEF routerVars, envVars, listVars, ruleVars, histVars, connVars
<1> DEFINE mine == TupleOf[cur[d]]
<1>1. DetectorJob(d) /\ UNCHANGED judgeVars
  BY DEF DetectorStep
<1>2. RulesStay(k)
  BY <1>1 DEF DetectorJob, TakeSnapshot, StartWatch, Skip, Suspect, FailedRecheck,
              RecordFirst, RecordFirstRefused, SameFailure, SecondFailure,
              EnsureRules, RulesRefused, ClearEvidence, EnterTest, EnterTestRefused,
              RulesStay, TypeOK, RouterTypeOK
<1>3. \A e \in Detectors, t \in Tuple : e # d /\ Entering(e, t)' => Entering(e, t)
  BY <1>1 DEF DetectorJob, TakeSnapshot, StartWatch, Skip, Pick, Suspect, FailedRecheck,
              RecordFirst, RecordFirstRefused, SameFailure, SecondFailure,
              EnsureRules, RulesRefused, ClearEvidence, EnterTest, EnterTestRefused,
              Continue, Entering, TypeOK, DetectorTypeOK
<1>4. CASE EnsureRules(d)
  <2>1. UNCHANGED <<test, ok, cur>>
    BY <1>4 DEF EnsureRules
  <2>2. mine \in Tuple
    BY <1>4, TupleOfType DEF EnsureRules, TypeOK, DetectorTypeOK
  <2>3. lazy'[<<PortOf(mine), k>>] # "absent"
    <3>1. <<PortOf(mine), k>> \in Rule /\ <<PortOf(mine), k>> \in RulePair(PortOf(mine))
      BY <2>2 DEF Tuple, PortOf, Rule, RuleKind, RulePair
    <3> QED BY <1>4, <3>1 DEF EnsureRules
  <2>4. NoNewNeed(k)
    BY <1>1, <1>3, <2>1, <2>3 DEF NoNewNeed, Needs, Entering, Judged, judgeVars
  <2> QED BY <1>2, <2>4, RulesFrame
<1>5. CASE EnterTest(d)
  <2>1. Entering(d, mine) /\ test' = test \cup {mine} /\ UNCHANGED ok
    BY <1>5 DEF EnterTest, Entering
  <2>2. \A t \in Tuple : ~Entering(d, t)'
    BY <1>5 DEF EnterTest, Continue, Entering, TypeOK, DetectorTypeOK
  <2>3. NoNewNeed(k)
    BY <1>1, <1>3, <2>1, <2>2 DEF NoNewNeed, Needs, Judged, judgeVars
  <2> QED BY <1>2, <2>3, RulesFrame
<1>6. CASE ~EnsureRules(d) /\ ~EnterTest(d)
  <2>1. UNCHANGED <<test, ok>>
    BY <1>1, <1>6
       DEF DetectorJob, TakeSnapshot, StartWatch, Skip, Suspect, FailedRecheck,
           RecordFirst, RecordFirstRefused, SameFailure, SecondFailure,
           RulesRefused, ClearEvidence, EnterTestRefused
  <2>2. \A t \in Tuple : Entering(d, t)' => Entering(d, t)
    BY <1>1, <1>6
       DEF DetectorJob, TakeSnapshot, StartWatch, Skip, Pick, Suspect, FailedRecheck,
           RecordFirst, RecordFirstRefused, SameFailure, SecondFailure,
           RulesRefused, ClearEvidence, EnterTestRefused, Continue, Entering,
           TypeOK, DetectorTypeOK
  <2>3. NoNewNeed(k)
    BY <1>1, <1>3, <2>1, <2>2 DEF NoNewNeed, Needs, Judged, judgeVars
  <2> QED BY <1>2, <2>3, RulesFrame
<1> QED BY <1>4, <1>5, <1>6

\* JUDGE's reset finds its tuple off TEST and leaves the rule of the port alone.
ResetEnds == \A c \in Conn : FinishReset(c) => TupleOf[c] \notin test

\* JUDGE confirms what it picked while it was under test.
LEMMA JudgeKeepsRules ==
    ASSUME TypeOK, EvidenceInv, NEW k \in RuleKind, RulesInv(k), JudgeStep,
           k = "TEST" => ResetEnds
    PROVE  RulesInv(k)'
<1> USE DEF routerVars, envVars, listVars, ruleVars, histVars, connVars
<1>1. JudgeNext /\ UNCHANGED detVars
  BY DEF JudgeStep
<1>2. RulesStay(k)
  <2>1. ASSUME NEW c \in Conn, FinishReset(c) PROVE RulesStay(k)
    <3>1. CASE lazy' = lazy
      BY <3>1 DEF RulesStay
    <3>2. CASE k = "OK"
      BY <2>1, <3>2 DEF FinishReset, RulesStay, TypeOK, RouterTypeOK
    <3> QED BY <2>1, <3>1, <3>2 DEF FinishReset, ResetEnds, RuleKind
  <2>2. CASE \A c \in Conn : ~FinishReset(c)
    BY <1>1, <2>2 DEF JudgeNext, JudgeStart, JudgeTurn, JudgeEnd, JudgePick, TestFailed,
                      Confirm, SameSuccess, FirstSuccessMiddle, SuccessRefused,
                      FirstSuccessSlow, OpenRecheck, LeaveTest, ReturnToDirect,
                      ResetToDirect, ConfirmedFailed, ConfirmedHealthy, CoolDown,
                      RulesStay
  <2> QED BY <2>1, <2>2
<1>3. test' \subseteq test
  BY <1>1 DEF JudgeNext, JudgeStart, JudgeTurn, JudgeEnd, JudgePick, TestFailed, Confirm,
              SameSuccess, FirstSuccessMiddle, SuccessRefused, FirstSuccessSlow,
              OpenRecheck, LeaveTest, ReturnToDirect, ResetToDirect, FinishReset,
              ConfirmedFailed, ConfirmedHealthy, CoolDown, ForgetTuple
<1>4. \A d \in Detectors, t \in Tuple : Entering(d, t)' => Entering(d, t)
  BY <1>1 DEF Entering, detVars
<1>5. ASSUME NEW t \in Tuple, Judged(t)' PROVE Judged(t) \/ t \in test
  <2>1. CASE JudgeStart
    BY <1>5, <2>1 DEF JudgeStart, Judged, EvidenceInv, SuccessEvidence
  <2>2. ASSUME NEW c \in Conn, NEW s \in Stat, JudgePick(c, s)
        PROVE  t \in test
    BY <1>5, <2>2, NoConnIsNone DEF JudgePick, Judged, NoneJudged
  <2>3. CASE ~JudgeStart /\ \A c \in Conn, s \in Stat : ~JudgePick(c, s)
    BY <1>1, <1>5, <2>3
       DEF JudgeNext, JudgeTurn, JudgeEnd, TestFailed, Confirm, SameSuccess,
           FirstSuccessMiddle, SuccessRefused, FirstSuccessSlow, OpenRecheck, LeaveTest,
           ReturnToDirect, ResetToDirect, FinishReset, ConfirmedFailed, ConfirmedHealthy,
           CoolDown, JudgeDone, Judged, NoneJudged
  <2> QED BY <2>1, <2>2, <2>3
<1>6. ASSUME NEW t \in Tuple, t \in ok' PROVE t \in ok \/ Judged(t)
  <2>1. ASSUME NEW c \in Conn, Confirm(c) PROVE ok' = ok \cup {TupleOf[c]} /\ Judged(TupleOf[c])
    <3>1. jpc = "test" /\ jcur[1] = c /\ c # NoConn
      BY <2>1 DEF Confirm, Judging
    <3> QED BY <2>1, <3>1 DEF Confirm, Judged, NoneJudged
  <2>2. CASE \A c \in Conn : ~Confirm(c)
    BY <1>1, <1>6, <2>2
       DEF JudgeNext, JudgeStart, JudgeTurn, JudgeEnd, JudgePick, TestFailed, SameSuccess,
           FirstSuccessMiddle, SuccessRefused, FirstSuccessSlow, OpenRecheck, LeaveTest,
           ReturnToDirect, ResetToDirect, FinishReset, ConfirmedFailed, ConfirmedHealthy,
           CoolDown
  <2> QED BY <1>6, <2>1, <2>2
<1>7. NoNewNeed(k)
  BY <1>3, <1>4, <1>5, <1>6 DEF NoNewNeed, Needs
<1> QED BY <1>2, <1>7, RulesFrame

\* The collector takes no rule of the kind that somebody relies on.
Sparing(k) ==
    \A t \in Tuple : Needs(t, k) => ~(GCRemove /\ gitem = <<PortOf(t), k>>)
Spared(k) == [][Sparing(k)]_vars

\* The removal of a rule nobody relies on.
LEMMA SparingKeepsRules ==
    ASSUME TypeOK, NEW k \in RuleKind, RulesInv(k), GCStep, GCRemove,
           \A t \in Tuple : Needs(t, k) => gitem # <<PortOf(t), k>>
    PROVE  RulesInv(k)'
<1>1. UNCHANGED <<test, ok, detVars, judgeVars>>
  BY DEF GCRemove, GCStep, listVars
<1>2. \A t \in Tuple : Needs(t, k)' => Needs(t, k)
  BY <1>1 DEF Needs, Entering, Judged, detVars, judgeVars
<1>3. \A t \in Tuple : <<PortOf(t), k>> \in Rule
  BY DEF Tuple, PortOf, Rule
<1>4. \A r \in Rule : r # gitem => lazy'[r] = lazy[r]
  BY DEF GCRemove, TypeOK, RouterTypeOK
<1> QED BY <1>2, <1>3, <1>4 DEF RulesInv

\* At the beginning nobody needs one.
LEMMA RulesInit == \A k \in RuleKind : Init => RulesInv(k)
BY DEF Init, RouterInit, DetectorInit, JudgeInit, RulesInv, Needs, Entering, Judged

\* As long as the collector spares the rules in need, and JUDGE those of the kind
\* TEST, what is needed stays.
LEMMA RulesKept ==
    ASSUME TypeOK, EvidenceInv, NEW k \in RuleKind, RulesInv(k), [Next]_vars,
           [Sparing(k)]_vars, k = "TEST" => [ResetEnds]_vars
    PROVE  RulesInv(k)'
<1>1. CASE RouterStep \/ HealthStep \/ (GCStep /\ ~GCRemove) \/ UNCHANGED vars
  BY <1>1, OthersKeepRules
<1>2. CASE GCStep /\ GCRemove
  <2>1. gpc = "remove" /\ gpc' = "rules"
    BY <1>2 DEF GCRemove
  <2>2. vars' # vars
    BY <2>1 DEF vars, gcVars
  <2> QED BY <1>2, <2>2, SparingKeepsRules DEF Sparing
<1>3. ASSUME NEW d \in Detectors, DetectorStep(d) PROVE RulesInv(k)'
  BY <1>3, DetectorKeepsRules
<1>4. CASE JudgeStep
  <2>1. ASSUME NEW c \in Conn, FinishReset(c) PROVE vars' # vars
    <3>1. jpc = "reset" /\ jpc' = "test"
      BY <2>1 DEF FinishReset, Judging
    <3> QED BY <3>1 DEF vars, judgeVars
  <2>2. k = "TEST" => ResetEnds
    BY <2>1 DEF ResetEnds
  <2> QED BY <1>4, <2>2, JudgeKeepsRules
<1> QED BY <1>1, <1>2, <1>3, <1>4 DEF Next

\* JUDGE never gives up on a tuple in TEST and takes the TEST rule of its port.
ResetsEnd == [][ResetEnds]_vars

\* A tuple under test has its rule, whatever the detectors, JUDGE, HEALTH and refused
\* adds do to the pair, unless the collector removes a TEST rule in need, or JUDGE
\* the one of a tuple that its reset in SLOW finds in TEST still, or again.
THEOREM TestRouted == Spec /\ Spared("TEST") /\ ResetsEnd => []TestHasRule
<1>1. Init => RulesInv("TEST")
  BY RulesInit DEF RuleKind
<1>2. TypeOK /\ EvidenceInv /\ RulesInv("TEST") /\ [Next]_vars /\ [Sparing("TEST")]_vars
        /\ [ResetEnds]_vars => RulesInv("TEST")'
  BY RulesKept DEF RuleKind
<1>3. TypeOK /\ RulesInv("TEST") => TestHasRule
  BY DEF RulesInv, Needs, TestHasRule, TypeOK, RouterTypeOK
<1> QED BY <1>1, <1>2, <1>3, TypeCorrect, EvidenceConsistent, PTL
        DEF Spec, Spared, ResetsEnd

\* So has a confirmed tuple, unless the collector removes an OK rule in need, which
\* for a tuple under test it counts as unused.
THEOREM OkRouted == Spec /\ Spared("OK") => []OkHasRule
<1>1. Init => RulesInv("OK")
  BY RulesInit DEF RuleKind
<1>2. TypeOK /\ EvidenceInv /\ RulesInv("OK") /\ [Next]_vars /\ [Sparing("OK")]_vars
        => RulesInv("OK")'
  BY RulesKept DEF RuleKind
<1>3. TypeOK /\ RulesInv("OK") => OkHasRule
  BY DEF RulesInv, Needs, OkHasRule, TypeOK, RouterTypeOK
<1> QED BY <1>1, <1>2, <1>3, TypeCorrect, EvidenceConsistent, PTL DEF Spec, Spared

-----------------------------------------------------------------------------
(* Without a collector.                                                     *)

\* In a deployment without the collector there is never a pass.
LEMMA NoPass == ASSUME "gc" \notin Active PROVE Spec => [](gpc = "idle")
<1>1. Init => gpc = "idle"
  BY DEF Init, GCInit
<1>2. gpc = "idle" /\ [Next]_vars => (gpc = "idle")'
  <2> SUFFICES ASSUME gpc = "idle", [Next]_vars PROVE gpc' = "idle"
    OBVIOUS
  <2>1. CASE UNCHANGED gcVars
    BY <2>1 DEF gcVars
  <2>2. CASE GCStep
    BY <2>2 DEF GCStep, GCNext, GCGate, GCScanRules, GCCount, GCRecount, GCRemove,
                GCScanMarks, GCLook, GCLookAgain, GCDrop, GCEnd, GCFail, GCPause,
                GCDisable, GCCrash
  <2> QED BY <2>1, <2>2 DEF Next, vars, RouterStep, DetectorStep, JudgeStep, HealthStep
<1> QED BY <1>1, <1>2, PTL DEF Spec

\* Then every confirmed tuple has its rule in every profile, and every tuple under
\* test in FAST and MIDDLE; in SLOW JUDGE may still take the latter.
THEOREM RulesWithoutCollector ==
    ASSUME "gc" \notin Active
    PROVE  Spec => []OkHasRule /\ [](Profile # "slow" => TestHasRule)
<1>1. gpc = "idle" => [Sparing("TEST")]_vars /\ [Sparing("OK")]_vars
  BY DEF Sparing, GCRemove
<1>2. Spec => []OkHasRule
  BY <1>1, NoPass, OkRouted, PTL DEF Spared
<1>3. Spec => [](Profile # "slow" => TestHasRule)
  <2>1. CASE Profile = "slow"
    <3>1. Profile # "slow" => TestHasRule
      BY <2>1
    <3> QED BY <3>1, PTL
  <2>2. CASE Profile # "slow"
    <3>1. EvidenceInv => [ResetEnds]_vars
      BY <2>2 DEF EvidenceInv, SuccessEvidence, ResetEnds, FinishReset, Judging
    <3> QED BY <1>1, <3>1, NoPass, TestRouted, EvidenceConsistent, PTL
            DEF Spared, ResetsEnd
  <2> QED BY <2>1, <2>2
<1> QED BY <1>2, <1>3

-----------------------------------------------------------------------------
(* The way of a new connection.                                             *)

\* The lazy rules are disabled and enabled with the fixed ones.
Together == fixedOn => \A r \in Rule : lazy[r] # "off"

\* The collector's fail-safe disables no lazy rule without the fixed ones.
HalfDisable == GCDisable /\ fixedOn' /\ lazy' # lazy
NoHalfDisable == [][~HalfDisable]_vars

\* HEALTH switches both, and detectors create none disabled.
LEMMA SwitchedTogether == Spec /\ NoHalfDisable => []Together
<1> USE DEF routerVars, envVars, listVars, ruleVars, histVars, connVars
<1>1. Init => Together
  BY DEF Init, RouterInit, Together
<1>2. TypeOK /\ Together /\ [Next]_vars /\ [~HalfDisable]_vars => Together'
  <2> SUFFICES ASSUME TypeOK, Together, [Next]_vars, [~HalfDisable]_vars PROVE Together'
    OBVIOUS
  <2>1. CASE UNCHANGED <<fixedOn, lazy>>
    BY <2>1 DEF Together
  <2>2. CASE RouterStep
    BY <2>1, <2>2 DEF RouterStep, RouterNext, Open, Silence, Reply, Stall, Close, Ripen,
                      Expire, PolicyChange, TargetChange
  <2>3. ASSUME NEW d \in Detectors, DetectorStep(d) PROVE Together'
    BY <2>3 DEF DetectorStep, DetectorJob, TakeSnapshot, StartWatch, Skip, Suspect,
                FailedRecheck, RecordFirst, RecordFirstRefused, SameFailure,
                SecondFailure, EnsureRules, RulesRefused, ClearEvidence, EnterTest,
                EnterTestRefused, Together
  <2>4. CASE JudgeStep
    BY <2>4
       DEF Together, TypeOK, RouterTypeOK, JudgeStep, JudgeNext, JudgeStart, JudgeTurn,
           JudgeEnd, JudgePick, TestFailed, Confirm, SameSuccess, FirstSuccessMiddle,
           SuccessRefused, FirstSuccessSlow, OpenRecheck, LeaveTest, ReturnToDirect,
           ResetToDirect, FinishReset, ConfirmedFailed, ConfirmedHealthy, CoolDown
  <2>5. CASE HealthStep
    BY <2>5 DEF HealthStep, HealthNext, HealthJob, HealthProbe, HealthUp, Enabled,
                HealthRecover, HealthMiss, HealthStillDown, HealthDown, HealthPurge,
                HealthForget, MissExpire, Together
  <2>6. CASE GCStep
    <3>1. CASE GCDisable
      <4>1. gpc = "disable" /\ gpc' = "idle"
        BY <3>1 DEF GCDisable
      <4>2. vars' # vars
        BY <4>1 DEF vars, gcVars
      <4> QED BY <2>1, <3>1, <4>2 DEF HalfDisable, GCDisable, Together
    <3>2. CASE ~GCDisable
      BY <2>6, <3>2 DEF GCStep, GCNext, GCGate, GCScanRules, GCCount, GCRecount, GCRemove,
                  GCScanMarks, GCLook, GCLookAgain, GCDrop, GCEnd, GCFail, GCPause,
                  GCCrash, Together, TypeOK, RouterTypeOK
    <3> QED BY <3>1, <3>2
  <2>7. CASE UNCHANGED vars
    BY <2>1, <2>7 DEF vars
  <2> QED BY <2>2, <2>3, <2>4, <2>5, <2>6, <2>7 DEF Next
<1> QED BY <1>1, <1>2, TypeCorrect, PTL DEF Spec, NoHalfDisable

\* Nobody but traffic opens a connection.
LEMMA OnlyTrafficOpens ==
    ASSUME TypeOK, [Next]_vars, NEW c \in Opened' \ Opened
    PROVE  Open(c)
<1> USE DEF routerVars, envVars, listVars, ruleVars, histVars, connVars, Opened
<1>1. ASSUME NEW C, Drop(C) PROVE FALSE
  BY <1>1 DEF Drop, Live
<1>2. ct' # ct
  OBVIOUS
<1>3. CASE RouterStep
  BY <1>1, <1>2, <1>3 DEF RouterStep, RouterNext, Open, Silence, Reply, Stall, Close,
                          Ripen, Expire, PolicyChange, TargetChange, TypeOK, RouterTypeOK
<1>4. ASSUME NEW d \in Detectors, DetectorStep(d) PROVE FALSE
  BY <1>1, <1>2, <1>4
     DEF DetectorStep, DetectorJob, TakeSnapshot, StartWatch, Skip, Suspect,
         FailedRecheck, RecordFirst, RecordFirstRefused, SameFailure, SecondFailure,
         EnsureRules, RulesRefused, ClearEvidence, EnterTest, EnterTestRefused
<1>5. CASE JudgeStep
  BY <1>1, <1>2, <1>5
     DEF JudgeStep, JudgeNext, JudgeStart, JudgeTurn, JudgeEnd, JudgePick, TestFailed,
         Confirm, SameSuccess, FirstSuccessMiddle, SuccessRefused, FirstSuccessSlow,
         OpenRecheck, LeaveTest, ReturnToDirect, ResetToDirect, FinishReset,
         ConfirmedFailed, ConfirmedHealthy, CoolDown
<1>6. CASE HealthStep
  BY <1>1, <1>2, <1>6
     DEF HealthStep, HealthNext, HealthJob, HealthProbe, HealthUp, HealthRecover,
         HealthMiss, HealthStillDown, HealthDown, HealthPurge, HealthForget, MissExpire
<1>7. CASE GCStep
  BY <1>1, <1>2, <1>7
     DEF GCStep, GCNext, GCGate, GCScanRules, GCCount, GCRecount, GCRemove,
         GCScanMarks, GCLook, GCLookAgain, GCDrop, GCEnd, GCFail, GCPause,
         GCDisable, GCCrash
<1>8. CASE UNCHANGED vars
  BY <1>2, <1>8 DEF vars
<1> QED BY <1>3, <1>4, <1>5, <1>6, <1>7, <1>8 DEF Next

\* The enabled rule of a decided tuple marks its new connections.
LEMMA DecidedIsMarked ==
    ASSUME TypeOK, TestHasRule, OkHasRule, Together, NEW c \in Conn, Open(c), fixedOn,
           TupleOf[c] \in test \cup ok
    PROVE  ThroughTarget(c)'
<1> DEFINE t == TupleOf[c]
<1>1. t \in Tuple
  BY TupleOfType
<1>2. <<PortOf(t), "TEST">> \in Rule /\ <<PortOf(t), "OK">> \in Rule
  BY <1>1 DEF Tuple, PortOf, Rule, RuleKind
<1>3. \/ t \in test /\ lazy[<<PortOf(t), "TEST">>] = "on"
      \/ t \in ok /\ lazy[<<PortOf(t), "OK">>] = "on"
  BY <1>2 DEF TestHasRule, OkHasRule, Together, TypeOK, RouterTypeOK
<1>4. Offers(t) # {} /\ "none" \notin Offers(t)
  BY <1>3 DEF Offers
<1>5. Bypassed(t) \/ ct'[c] # "none"
  BY <1>4 DEF Open, MarksOf, TypeOK, RouterTypeOK
<1> QED BY <1>5 DEF Open, ThroughTarget, Bypassed, envVars, ruleVars

\* What a decision is for: whenever adaptive routing is in the packet path, a new
\* connection to a tuple under test or confirmed goes through the target, whatever
\* outage, race or refusal came before, unless the collector or, in SLOW, JUDGE took
\* a rule in need, or a fail-safe disabled the lazy rules only.
THEOREM DecidedTravels ==
    Spec /\ Spared("TEST") /\ Spared("OK") /\ ResetsEnd /\ NoHalfDisable
       => DecidedThroughTarget
<1>1. TypeOK /\ TestHasRule /\ OkHasRule /\ Together /\ [Next]_vars =>
        [\A c \in Opened' \ Opened : TupleOf[c] \in test \cup ok /\ fixedOn =>
            ThroughTarget(c)']_vars
  BY OnlyTrafficOpens, DecidedIsMarked DEF Opened
<1> QED BY <1>1, TypeCorrect, TestRouted, OkRouted, SwitchedTogether, PTL
        DEF Spec, DecidedThroughTarget

-----------------------------------------------------------------------------
(* The fail-safe.                                                           *)

\* The probe a HEALTH job acts on found the target.
GoodProbe == hpc = "probed" /\ probe = "up"

\* No HEALTH job is about to act on a good probe when the collector disables the
\* rules.
NoOldProbe == [][GCDisable => ~GoodProbe]_vars

\* The inductive invariant behind FailSafeStaysOpen: what the fail-safe has done so
\* far, and afterwards that nobody is left to undo it.
SafeInv ==
    safe =>
       /\ gpc \in {"idle", "pause", "disable"}
       /\ \A i \in 1..gpause : PauseOrder[i] \notin sched
       /\ gpc = "disable" => gpause = Len(PauseOrder)
       /\ gpc = "idle" => ~fixedOn /\ "health" \notin sched /\ ~GoodProbe

\* Only HEALTH and the collector switch the fixed rules, and nobody enables a
\* scheduler.
LEMMA OthersSwitchNothing ==
    ASSUME RouterStep \/ JudgeStep \/ \E d \in Detectors : DetectorStep(d)
    PROVE  UNCHANGED <<fixedOn, sched, gcVars, healthVars>>
<1> USE DEF routerVars, envVars, listVars, ruleVars, histVars, connVars
<1>1. CASE RouterStep
  BY <1>1 DEF RouterStep, RouterNext, Open, Silence, Reply, Stall, Close, Ripen,
              Expire, PolicyChange, TargetChange
<1>2. CASE JudgeStep
  BY <1>2 DEF JudgeStep, JudgeNext, JudgeStart, JudgeTurn, JudgeEnd, JudgePick,
              TestFailed, Confirm, SameSuccess, FirstSuccessMiddle, SuccessRefused,
              FirstSuccessSlow, OpenRecheck, LeaveTest, ReturnToDirect, ResetToDirect,
              FinishReset, ConfirmedFailed, ConfirmedHealthy, CoolDown
<1>3. ASSUME NEW d \in Detectors, DetectorStep(d)
      PROVE  UNCHANGED <<fixedOn, sched, gcVars, healthVars>>
  BY <1>3 DEF DetectorStep, DetectorJob, TakeSnapshot, StartWatch, Skip, Suspect,
              FailedRecheck, RecordFirst, RecordFirstRefused, SameFailure,
              SecondFailure, EnsureRules, RulesRefused, ClearEvidence, EnterTest,
              EnterTestRefused
<1> QED BY <1>1, <1>2, <1>3

\* A paused HEALTH starts no job, and one without a good probe enables nothing.
LEMMA HealthKeepsSafe ==
    ASSUME TypeOK, SafeInv, HealthStep
    PROVE  SafeInv'
<1> USE DEF routerVars, envVars, listVars, ruleVars, histVars, connVars
<1>1. UNCHANGED <<sched, gpc, gpause, safe>>
  BY DEF HealthStep, gcVars, HealthNext, HealthJob, HealthProbe, HealthUp,
         HealthRecover, HealthMiss, HealthStillDown, HealthDown, HealthPurge,
         HealthForget, MissExpire
<1>2. ASSUME ~fixedOn, "health" \notin sched, ~GoodProbe
      PROVE  ~fixedOn' /\ ~GoodProbe'
  BY <1>2 DEF HealthStep, HealthNext, HealthJob, HealthProbe, HealthUp, HealthRecover,
              HealthMiss, HealthStillDown, HealthDown, HealthPurge, HealthForget,
              MissExpire, GoodProbe
<1> QED BY <1>1, <1>2 DEF SafeInv

\* The fail-safe reports success only of what it has done and looked at.
LEMMA CollectorKeepsSafe ==
    ASSUME TypeOK, SafeInv, GCStep, GCDisable => ~GoodProbe
    PROVE  SafeInv'
<1> USE DEF routerVars, envVars, listVars, ruleVars, histVars, connVars
<1>l. Len(PauseOrder) = 4 /\ PauseOrder[1] = "health"
  BY DEF PauseOrder
<1>h. UNCHANGED <<hpc, probe>>
  BY DEF GCStep, healthVars
<1>t. gpause \in 0..4 /\ (gpc = "pause" => gpause < 4)
  BY <1>l DEF TypeOK, GCTypeOK
<1>1. CASE GCFail
  BY <1>1 DEF GCFail, SafeInv
<1>2. CASE GCCrash
  BY <1>2 DEF GCCrash, SafeInv
<1>3. CASE GCPause
  <2> SUFFICES ASSUME safe' PROVE SafeInv'
    BY DEF SafeInv
  <2>1. /\ safe /\ gpc = "pause" /\ gpause' = gpause + 1
        /\ sched' = sched \ {PauseOrder[gpause + 1]}
        /\ gpc' = IF gpause' = Len(PauseOrder) THEN "disable" ELSE "pause"
    BY <1>3 DEF GCPause
  <2>2. \A i \in 1..gpause : PauseOrder[i] \notin sched
    BY <2>1 DEF SafeInv
  <2>3. \A i \in 1..gpause' : PauseOrder[i] \notin sched'
    BY <1>t, <2>1, <2>2
  <2> QED BY <2>1, <2>3 DEF SafeInv
<1>4. CASE GCDisable
  <2> SUFFICES ASSUME safe' PROVE SafeInv'
    BY DEF SafeInv
  <2>1. safe /\ ~fixedOn' /\ gpc = "disable" /\ gpc' = "idle" /\ gpause' = 0
    BY <1>4 DEF GCDisable, VerifiedOff
  <2>2. "health" \notin sched
    BY <1>l, <2>1 DEF SafeInv
  <2>3. sched' = sched /\ ~GoodProbe'
    BY <1>4, <1>h DEF GCDisable, GoodProbe
  <2> QED BY <2>1, <2>2, <2>3 DEF SafeInv
<1>5. CASE GCNext(NoJobs) /\ ~GCFail /\ ~GCCrash /\ ~GCPause /\ ~GCDisable
  <2>1. gpc \notin {"pause", "disable"} /\ (gpc = "idle" => fixedOn) /\ safe' = safe
    BY <1>5 DEF GCNext, GCGate, GCScanRules, GCCount, GCRecount, GCRemove, GCScanMarks,
                GCLook, GCLookAgain, GCDrop, GCEnd
  <2>2. ~safe
    BY <2>1 DEF SafeInv
  <2> QED BY <2>1, <2>2 DEF SafeInv
<1> QED BY <1>1, <1>2, <1>3, <1>4, <1>5 DEF GCStep

\* After a fail-safe that reported success adaptive routing stays out of the packet
\* path, whatever fails, crashes or runs on, unless a HEALTH job that had found the
\* target before has not acted on it yet.
THEOREM FailSafeHolds == Spec /\ NoOldProbe => []FailSafeStaysOpen
<1>1. Init => SafeInv
  BY DEF Init, GCInit, SafeInv
<1>2. TypeOK /\ SafeInv /\ [Next]_vars /\ [GCDisable => ~GoodProbe]_vars => SafeInv'
  <2> SUFFICES ASSUME TypeOK, SafeInv, [Next]_vars, [GCDisable => ~GoodProbe]_vars
               PROVE  SafeInv'
    OBVIOUS
  <2>1. CASE UNCHANGED <<fixedOn, sched, gcVars, healthVars>>
    BY <2>1 DEF SafeInv, GoodProbe, gcVars, healthVars
  <2>2. CASE HealthStep
    BY <2>2, HealthKeepsSafe
  <2>3. CASE GCStep
    <3>1. GCDisable => vars' # vars
      <4>1. GCDisable => gpc = "disable" /\ gpc' = "idle"
        BY DEF GCDisable
      <4> QED BY <4>1 DEF vars, gcVars
    <3> QED BY <2>3, <3>1, CollectorKeepsSafe
  <2>4. CASE UNCHANGED vars
    BY <2>1, <2>4 DEF vars, routerVars, envVars, ruleVars
  <2> QED BY <2>1, <2>2, <2>3, <2>4, OthersSwitchNothing DEF Next
<1>3. SafeInv => FailSafeStaysOpen
  BY DEF SafeInv, FailSafeStaysOpen
<1> QED BY <1>1, <1>2, <1>3, TypeCorrect, PTL DEF Spec, NoOldProbe

\* In a deployment without HEALTH nothing is excepted.
THEOREM FailSafeAlone == ASSUME "health" \notin Active PROVE Spec => []FailSafeStaysOpen
<1>1. Init => hpc = "idle"
  BY DEF Init, HealthInit
<1>2. hpc = "idle" /\ [Next]_vars => (hpc = "idle")'
  <2> SUFFICES ASSUME hpc = "idle", [Next]_vars PROVE hpc' = "idle"
    OBVIOUS
  <2>1. CASE UNCHANGED healthVars
    BY <2>1 DEF healthVars
  <2>2. CASE HealthStep
    BY <2>2 DEF HealthStep, HealthNext, HealthJob, HealthProbe, HealthUp, HealthRecover,
                HealthMiss, HealthStillDown, HealthDown, HealthPurge, HealthForget,
                MissExpire, healthVars
  <2> QED BY <2>1, <2>2 DEF Next, vars, RouterStep, DetectorStep, JudgeStep, GCStep
<1>3. hpc = "idle" => [GCDisable => ~GoodProbe]_vars
  BY DEF GoodProbe
<1> QED BY <1>1, <1>2, <1>3, FailSafeHolds, PTL DEF Spec, NoOldProbe

-----------------------------------------------------------------------------
(* What a success says.                                                     *)

\* The collector never comes to the end of a fail-safe.
NoFailSafe == [][~GCDisable]_vars

\* Counters of a connection under a mark that are no DIRECT ones.
Tried == {"idle", "silent", "served"}

\* HEALTH has taken the rules out and is about to remove the marked connections.
Purging == ~fixedOn /\ hpc = "purge"

\* A marked connection is answered by the target, is about to be removed, or was
\* marked in an outage.
MarkedTried ==
    /\ \A c \in Conn : ct[c] = "unused" => stat[c] = "idle"
    /\ \A c \in Conn : ct[c] \in Mark =>
          c \in stray \/ (fixedOn /\ stat[c] \in Tried) \/ Purging

\* What JUDGE reads by the test mark.
Reading(f) == f[2] \in Tried \/ f[1] \in stray

\* It does until it turns to the ok mark.
ReadTried ==
    jpc \notin {"idle", "ok", "coolOk"} =>
       Reading(jcur) /\ \A f \in jsnap : Reading(f)

\* The inductive invariant behind SuccessThroughTarget.
CountersInv == MarkedTried /\ ReadTried

\* What is dropped has no mark and no counters.
LEMMA DropKeepsTried ==
    ASSUME TypeOK, MarkedTried, NEW C, Drop(C), UNCHANGED <<fixedOn, hpc, stray>>
    PROVE  MarkedTried'
<1> SUFFICES ASSUME NEW c \in Conn
             PROVE  /\ ct'[c] = "unused" => stat'[c] = "idle"
                    /\ ct'[c] \in Mark =>
                          c \in stray' \/ (fixedOn' /\ stat'[c] \in Tried) \/ Purging'
  BY DEF MarkedTried
<1>1. /\ ct'[c] \in {ct[c], "gone"}
      /\ stat'[c] \in {stat[c], "idle"}
  BY DEF Drop
<1> QED BY <1>1 DEF MarkedTried, Tried, Mark, Purging

\* A detector, JUDGE and the collector give a connection no mark and no counters.
LEMMA ScriptsKeepTried ==
    ASSUME TypeOK, MarkedTried, ~GCDisable,
           JudgeStep \/ GCStep \/ \E d \in Detectors : DetectorStep(d)
    PROVE  MarkedTried'
<1> USE DEF routerVars, envVars, listVars, ruleVars, histVars, connVars
<1>0. ASSUME UNCHANGED <<ct, stat, fixedOn, hpc, stray>> PROVE MarkedTried'
  BY <1>0 DEF MarkedTried, Purging
<1>1. CASE JudgeStep
  <2>1. UNCHANGED <<fixedOn, hpc, stray>>
    BY <1>1 DEF JudgeStep, healthVars, JudgeNext, JudgeStart, JudgeTurn, JudgeEnd,
                JudgePick, TestFailed, Confirm, SameSuccess, FirstSuccessMiddle,
                SuccessRefused, FirstSuccessSlow, OpenRecheck, LeaveTest, ReturnToDirect,
                ResetToDirect, FinishReset, ConfirmedFailed, ConfirmedHealthy, CoolDown
  <2> QED BY <1>0, <1>1, <2>1, DropKeepsTried DEF JudgeStep, JudgeNext, JudgeStart,
                                                  JudgeTurn, JudgeEnd, JudgePick,
                                                  TestFailed, Confirm, SameSuccess,
                                                  FirstSuccessMiddle, SuccessRefused,
                                                  FirstSuccessSlow, OpenRecheck,
                                                  LeaveTest, ReturnToDirect,
                                                  ResetToDirect, FinishReset,
                                                  ConfirmedFailed, ConfirmedHealthy,
                                                  CoolDown
<1>2. CASE GCStep
  BY <1>0, <1>2, DropKeepsTried
     DEF GCStep, GCNext, GCGate, GCScanRules, GCCount, GCRecount, GCRemove,
         GCScanMarks, GCLook, GCLookAgain, GCDrop, GCEnd, GCFail, GCPause,
         GCCrash, healthVars
<1>3. ASSUME NEW d \in Detectors, DetectorStep(d) PROVE MarkedTried'
  <2>1. UNCHANGED <<fixedOn, hpc, stray>>
    BY <1>3 DEF DetectorStep, healthVars, DetectorJob, TakeSnapshot, StartWatch, Skip,
                Suspect, FailedRecheck, RecordFirst, RecordFirstRefused, SameFailure,
                SecondFailure, EnsureRules, RulesRefused, ClearEvidence, EnterTest,
                EnterTestRefused
  <2> QED BY <1>0, <1>3, <2>1, DropKeepsTried
          DEF DetectorStep, DetectorJob, TakeSnapshot, StartWatch, Skip, Suspect,
              FailedRecheck, RecordFirst, RecordFirstRefused, SameFailure, SecondFailure,
              EnsureRules, RulesRefused, ClearEvidence, EnterTest, EnterTestRefused
<1> QED BY <1>1, <1>2, <1>3

\* HEALTH removes what is marked after it took the rules out, and before it brings
\* them back.
LEMMA HealthKeepsTried ==
    ASSUME TypeOK, MarkedTried, HealthStep
    PROVE  MarkedTried'
<1> USE DEF routerVars, envVars, listVars, ruleVars, histVars, connVars
<1>1. CASE HealthUp \/ HealthDown
  BY <1>1 DEF HealthUp, HealthDown, MarkedTried, Purging
<1>2. CASE HealthPurge
  <2>1. \A c \in Conn : ct'[c] \notin Mark /\ (ct'[c] = "unused" => ct[c] = "unused")
    BY <1>2 DEF HealthPurge, Purged, Drop, Live, Marked, Mark, TypeOK, RouterTypeOK
  <2>2. \A c \in Conn : stat'[c] \in {stat[c], "idle"}
    BY <1>2 DEF HealthPurge, Drop
  <2> QED BY <2>1, <2>2 DEF MarkedTried
<1>3. CASE HealthRecover
  <2>1. \A c \in Conn : ct'[c] \in {ct[c], "gone"} /\ stat'[c] \in {stat[c], "idle"}
    BY <1>3 DEF HealthRecover, Drop
  <2>2. ~Purging /\ UNCHANGED <<fixedOn, stray>>
    BY <1>3 DEF HealthRecover, Purging
  <2> QED BY <2>1, <2>2 DEF MarkedTried, Tried, Mark
<1>4. CASE HealthProbe \/ HealthMiss \/ HealthStillDown \/ HealthForget
           \/ \E k \in Down : MissExpire(k)
  <2>1. UNCHANGED <<ct, stat, fixedOn, stray>> /\ (hpc = "purge" => hpc' = "purge")
    BY <1>4 DEF HealthProbe, HealthMiss, HealthStillDown, HealthForget, MissExpire
  <2> QED BY <2>1 DEF MarkedTried, Purging
<1> QED BY <1>1, <1>2, <1>3, <1>4 DEF HealthStep, HealthNext, HealthJob

\* Traffic is answered through the target as long as the route rules are in.
LEMMA TrafficKeepsTried ==
    ASSUME TypeOK, MarkedTried, RouterStep
    PROVE  MarkedTried'
<1> USE DEF routerVars, envVars, listVars, ruleVars, histVars, connVars
<1>h. UNCHANGED <<fixedOn, hpc>>
  BY DEF RouterStep, RouterNext, Open, Silence, Reply, Stall, Close, Ripen, Expire,
         PolicyChange, TargetChange, healthVars
<1>1. ASSUME NEW c \in Conn, Open(c) PROVE MarkedTried'
  <2>1. stat' = stat /\ stat[c] = "idle" /\ \A x \in Conn \ {c} : ct'[x] = ct[x]
    BY <1>1 DEF Open, MarkedTried
  <2>2. ct'[c] # "unused"
    BY <1>1 DEF Open, MarksOf, Offers, TypeOK, RouterTypeOK
  <2>3. stray \subseteq stray' /\ (ct'[c] \in Mark => fixedOn \/ c \in stray')
    BY <1>1 DEF Open, Mark, TypeOK, RouterTypeOK
  <2> QED BY <1>h, <2>1, <2>2, <2>3 DEF MarkedTried, Tried, Purging
<1>2. ASSUME NEW c \in Conn, Silence(c) PROVE MarkedTried'
  BY <1>h, <1>2 DEF Silence, MarkedTried, Tried, Purging, Live, Mark, TypeOK, RouterTypeOK
<1>3. ASSUME NEW c \in Conn, Reply(c) PROVE MarkedTried'
  <2>1. /\ c \in Live /\ UNCHANGED <<ct, stray>>
        /\ \A x \in Conn \ {c} : stat'[x] = stat[x]
        /\ stat'[c] = IF ThroughTarget(c) THEN "served" ELSE "replied"
    BY <1>3 DEF Reply, TypeOK, RouterTypeOK
  <2>2. ct[c] \in Mark /\ fixedOn => stat'[c] \in Tried
    BY <2>1 DEF ThroughTarget, Tried, Mark
  <2> QED BY <1>h, <2>1, <2>2 DEF MarkedTried, Purging, Live
<1>4. ASSUME NEW c \in Conn, Stall(c) PROVE MarkedTried'
  BY <1>h, <1>4 DEF Stall, Marked, MarkedTried, Purging, Mark, TypeOK, RouterTypeOK
<1>5. ASSUME NEW c \in Conn, Close(c) PROVE MarkedTried'
  BY <1>h, <1>5, DropKeepsTried DEF Close
<1>6. ASSUME UNCHANGED <<ct, stat, stray>> PROVE MarkedTried'
  BY <1>h, <1>6 DEF MarkedTried, Purging
<1> QED BY <1>1, <1>2, <1>3, <1>4, <1>5, <1>6
        DEF RouterStep, RouterNext, Ripen, Expire, PolicyChange, TargetChange

\* JUDGE takes its readings by the mark, and forgets them at the end.
LEMMA JudgeKeepsReadings ==
    ASSUME TypeOK, EvidenceInv, CountersInv, JudgeStep
    PROVE  ReadTried'
<1> USE DEF routerVars, envVars, listVars, ruleVars, histVars, connVars
<1>n. Reading(NoneJudged)
  BY DEF Reading, NoneJudged, Tried
<1>s. UNCHANGED stray
  BY DEF JudgeStep, JudgeNext, JudgeStart, JudgeTurn, JudgeEnd, JudgePick, TestFailed,
         Confirm, SameSuccess, FirstSuccessMiddle, SuccessRefused, FirstSuccessSlow,
         OpenRecheck, LeaveTest, ReturnToDirect, ResetToDirect, FinishReset,
         ConfirmedFailed, ConfirmedHealthy, CoolDown
<1>r. \A f : Reading(f)' <=> Reading(f)
  BY <1>s DEF Reading
<1>1. CASE JudgeStart
  <2>1. \A f \in Readings("test") : Reading(f)
    BY <1>1 DEF JudgeStart, Readings, Marked, CountersInv, MarkedTried, Mark, Reading,
                Purging
  <2>2. jcur' = NoneJudged
    BY <1>1 DEF JudgeStart, EvidenceInv, SuccessEvidence
  <2> QED BY <1>1, <1>n, <1>r, <2>1, <2>2 DEF JudgeStart, ReadTried
<1>2. ASSUME NEW c \in Conn, NEW s \in Stat, JudgePick(c, s) PROVE ReadTried'
  <2>1. <<c, s>> \in jsnap /\ jsnap' \subseteq jsnap /\ jpc' = jpc
        /\ jcur' \in {<<c, s>>, NoneJudged} /\ jcur = NoneJudged
    BY <1>2 DEF JudgePick
  <2> QED BY <1>n, <1>r, <2>1 DEF CountersInv, ReadTried
<1>3. CASE JudgeTurn \/ JudgeEnd
  BY <1>3 DEF JudgeTurn, JudgeEnd, ReadTried
<1>4. CASE /\ ~JudgeStart /\ ~JudgeTurn /\ ~JudgeEnd
           /\ \A c \in Conn, s \in Stat : ~JudgePick(c, s)
  <2>1. /\ jsnap' = jsnap /\ jcur' \in {jcur, NoneJudged}
        /\ jpc \in {"ok", "coolOk"} => jpc' \in {"ok", "coolOk"}
        /\ jpc = "idle" => jpc' = "idle"
    BY <1>4 DEF JudgeStep, JudgeNext, TestFailed, Confirm, SameSuccess,
                FirstSuccessMiddle, SuccessRefused, FirstSuccessSlow, OpenRecheck,
                LeaveTest, ReturnToDirect, ResetToDirect, FinishReset, ConfirmedFailed,
                ConfirmedHealthy, CoolDown, JudgeDone, Judging
  <2> QED BY <1>n, <1>r, <2>1 DEF CountersInv, ReadTried
<1> QED BY <1>1, <1>2, <1>3, <1>4

\* Only traffic marks a connection.
LEMMA StrayStays == ASSUME [Next]_vars PROVE stray \subseteq stray'
<1> USE DEF routerVars, envVars, listVars, ruleVars, histVars, connVars
<1>1. CASE RouterStep
  BY <1>1 DEF RouterStep, RouterNext, Open, Silence, Reply, Stall, Close, Ripen,
              Expire, PolicyChange, TargetChange
<1>2. CASE JudgeStep
  BY <1>2 DEF JudgeStep, JudgeNext, JudgeStart, JudgeTurn, JudgeEnd, JudgePick,
              TestFailed, Confirm, SameSuccess, FirstSuccessMiddle, SuccessRefused,
              FirstSuccessSlow, OpenRecheck, LeaveTest, ReturnToDirect, ResetToDirect,
              FinishReset, ConfirmedFailed, ConfirmedHealthy, CoolDown
<1>3. CASE HealthStep
  BY <1>3 DEF HealthStep, HealthNext, HealthJob, HealthProbe, HealthUp, HealthRecover,
              HealthMiss, HealthStillDown, HealthDown, HealthPurge, HealthForget,
              MissExpire
<1>4. CASE GCStep
  BY <1>4 DEF GCStep, GCNext, GCGate, GCScanRules, GCCount, GCRecount, GCRemove,
              GCScanMarks, GCLook, GCLookAgain, GCDrop, GCEnd, GCFail, GCPause,
              GCDisable, GCCrash
<1>5. ASSUME NEW d \in Detectors, DetectorStep(d) PROVE stray \subseteq stray'
  BY <1>5 DEF DetectorStep, DetectorJob, TakeSnapshot, StartWatch, Skip, Suspect,
              FailedRecheck, RecordFirst, RecordFirstRefused, SameFailure,
              SecondFailure, EnsureRules, RulesRefused, ClearEvidence, EnterTest,
              EnterTestRefused
<1>6. CASE UNCHANGED vars
  BY <1>6 DEF vars
<1> QED BY <1>1, <1>2, <1>3, <1>4, <1>5, <1>6 DEF Next

\* A success is counted of the connection JUDGE has in hand, and only of a good one.
LEMMA CountsGood ==
    ASSUME [Next]_vars, CountersInv, NEW t \in Tuple, verdicts'[t] # verdicts[t]
    PROVE  jpc = "test" /\ Good(jcur[2])
<1> USE DEF routerVars, envVars, listVars, ruleVars, histVars, connVars
<1>1. JudgeStep
  <2>1. CASE RouterStep
    BY <2>1 DEF RouterStep, RouterNext, Open, Silence, Reply, Stall, Close, Ripen,
                Expire, PolicyChange, TargetChange
  <2>2. CASE HealthStep
    BY <2>2 DEF HealthStep, HealthNext, HealthJob, HealthProbe, HealthUp, HealthRecover,
                HealthMiss, HealthStillDown, HealthDown, HealthPurge, HealthForget,
                MissExpire
  <2>3. CASE GCStep
    BY <2>3 DEF GCStep, GCNext, GCGate, GCScanRules, GCCount, GCRecount, GCRemove,
                GCScanMarks, GCLook, GCLookAgain, GCDrop, GCEnd, GCFail, GCPause,
                GCDisable, GCCrash
  <2>4. CASE \E d \in Detectors : DetectorStep(d)
    BY <2>4 DEF DetectorStep, DetectorJob, TakeSnapshot, StartWatch, Skip, Suspect,
                FailedRecheck, RecordFirst, RecordFirstRefused, SameFailure,
                SecondFailure, EnsureRules, RulesRefused, ClearEvidence, EnterTest,
                EnterTestRefused
  <2>5. CASE UNCHANGED vars
    BY <2>5 DEF vars
  <2> QED BY <2>1, <2>2, <2>3, <2>4, <2>5 DEF Next
<1>2. \E c \in Conn : Confirm(c) \/ FirstSuccessMiddle(c) \/ FirstSuccessSlow(c)
  BY <1>1 DEF JudgeStep, JudgeNext, JudgeStart, JudgeTurn, JudgeEnd, JudgePick,
              TestFailed, SameSuccess, SuccessRefused, OpenRecheck, LeaveTest,
              ReturnToDirect, ResetToDirect, FinishReset, ConfirmedFailed,
              ConfirmedHealthy, CoolDown
<1> QED BY <1>2 DEF Confirm, FirstSuccessMiddle, FirstSuccessSlow, Judging

\* What JUDGE counts as a success of a test came through the target, although it
\* judges by a snapshot and the target may have gone and come back since: HEALTH
\* removes every marked connection between.  It may be DIRECT only of a connection
\* that was marked in the outage, or where the collector's fail-safe, which removes
\* none, took the rules out.
THEOREM SuccessCounted == Spec /\ NoFailSafe => SuccessThroughTarget
<1>1. Init => CountersInv
  BY DEF Init, RouterInit, JudgeInit, CountersInv, MarkedTried, ReadTried, Mark
<1>2. TypeOK /\ EvidenceInv /\ CountersInv /\ [Next]_vars /\ [~GCDisable]_vars
        => CountersInv'
  <2> SUFFICES ASSUME TypeOK, EvidenceInv, CountersInv, [Next]_vars, [~GCDisable]_vars
               PROVE  CountersInv'
    OBVIOUS
  <2> USE DEF CountersInv
  <2>1. CASE UNCHANGED vars
    BY <2>1 DEF vars, routerVars, connVars, ruleVars, histVars, judgeVars, healthVars,
                MarkedTried, ReadTried, Reading, Purging
  <2>2. CASE vars' # vars
    <3>1. MarkedTried'
      BY <2>2, ScriptsKeepTried, HealthKeepsTried, TrafficKeepsTried DEF Next
    <3>2. CASE UNCHANGED judgeVars
      <4>1. stray \subseteq stray'
        BY StrayStays
      <4> QED BY <3>1, <3>2, <4>1 DEF ReadTried, Reading, judgeVars
    <3> QED BY <2>2, <3>1, <3>2, JudgeKeepsReadings
            DEF Next, RouterStep, DetectorStep, HealthStep, GCStep
  <2> QED BY <2>1, <2>2
<1>3. CountersInv /\ [Next]_vars
        => [\A t \in Tuple : verdicts'[t] # verdicts[t] =>
               jcur[2] = "served" \/ jcur[1] \in stray]_vars
  BY CountsGood DEF CountersInv, ReadTried, Reading, Tried, Good
<1> QED BY <1>1, <1>2, <1>3, TypeCorrect, EvidenceConsistent, PTL
        DEF Spec, NoFailSafe, SuccessThroughTarget

-----------------------------------------------------------------------------
(* What stays: the safety halves of FailsOpen and Recovers.                 *)

\* Adaptive routing is out of the packet path and nobody is about to bring it back.
OutOfPath == ~fixedOn /\ ~GoodProbe

\* While the target is down adaptive routing that went out stays out, whichever
\* script, collection or crash comes next: only a new good probe brings it back.
THEOREM OutStaysOut == Spec /\ [](target \in Down) => [](OutOfPath => []OutOfPath)
<1> USE DEF routerVars, envVars, listVars, ruleVars, histVars, connVars
<1>1. OutOfPath /\ target \in Down /\ [Next]_vars => OutOfPath'
  <2> SUFFICES ASSUME OutOfPath, target \in Down, [Next]_vars PROVE OutOfPath'
    OBVIOUS
  <2>1. CASE UNCHANGED <<fixedOn, sched, gcVars, healthVars>> \/ UNCHANGED vars
    BY <2>1 DEF OutOfPath, GoodProbe, healthVars, vars
  <2>2. CASE HealthStep
    BY <2>2 DEF HealthStep, HealthNext, HealthJob, HealthProbe, HealthUp, HealthRecover,
                HealthMiss, HealthStillDown, HealthDown, HealthPurge, HealthForget,
                MissExpire, OutOfPath, GoodProbe, Down
  <2>3. CASE GCStep
    <3>1. UNCHANGED healthVars
      BY <2>3 DEF GCStep
    <3>2. CASE GCDisable
      <4>1. ~fixedOn'
        BY <3>2, Zenon DEF GCDisable, OutOfPath
      <4> QED BY <3>1, <4>1 DEF OutOfPath, GoodProbe, healthVars
    <3> QED
      BY <2>3, <3>1, <3>2
      DEF GCStep, GCNext, GCGate, GCScanRules, GCCount, GCRecount, GCRemove, GCScanMarks,
          GCLook, GCLookAgain, GCDrop, GCEnd, GCFail, GCPause, GCCrash, healthVars,
          OutOfPath, GoodProbe
  <2> QED BY <2>1, <2>2, <2>3, OthersSwitchNothing DEF Next
<1> QED BY <1>1, PTL DEF Spec

\* Adaptive routing is in the packet path and nobody is about to take it out.
InPath == fixedOn /\ ~(hpc = "probed" /\ probe \in Down)

\* While the target is up, adaptive routing that came back stays, with every rule,
\* unless the collector's fail-safe takes it out: misses of an earlier outage do not
\* add up to a new one.
THEOREM InStaysIn ==
    Spec /\ [](target = "up") /\ NoFailSafe => [](InPath => [](InPath /\ Together))
<1> USE DEF routerVars, envVars, listVars, ruleVars, histVars, connVars
<1>1. InPath /\ target = "up" /\ [Next]_vars /\ [~GCDisable]_vars => InPath'
  <2> SUFFICES ASSUME InPath, target = "up", [Next]_vars, [~GCDisable]_vars
               PROVE  InPath'
    OBVIOUS
  <2>1. CASE UNCHANGED <<fixedOn, sched, gcVars, healthVars>> \/ UNCHANGED vars
    BY <2>1 DEF InPath, healthVars, vars
  <2>2. CASE HealthStep
    BY <2>2 DEF HealthStep, HealthNext, HealthJob, HealthProbe, HealthUp, HealthRecover,
                HealthMiss, HealthStillDown, HealthDown, HealthPurge, HealthForget,
                MissExpire, InPath, Down
  <2>3. CASE GCStep
    <3>1. GCDisable => vars' # vars
      <4>1. GCDisable => gpc = "disable" /\ gpc' = "idle"
        BY DEF GCDisable
      <4> QED BY <4>1 DEF vars, gcVars
    <3> QED BY <2>3, <3>1
            DEF GCStep, GCNext, GCGate, GCScanRules, GCCount, GCRecount, GCRemove,
                GCScanMarks, GCLook, GCLookAgain, GCDrop, GCEnd, GCFail, GCPause,
                GCCrash, healthVars, InPath
  <2> QED BY <2>1, <2>2, <2>3, OthersSwitchNothing DEF Next
<1>2. [~GCDisable]_vars => [~HalfDisable]_vars
  BY DEF HalfDisable
<1> QED BY <1>1, <1>2, SwitchedTogether, PTL DEF Spec, NoFailSafe, NoHalfDisable

-----------------------------------------------------------------------------
(* What follows from the refinement alone.                                  *)

\* Whatever is under test or confirmed rests on enough failures of the DIRECT path,
\* in MIDDLE and SLOW on two.
Founded == \A t \in Tuple : t \in test \cup ok => D!Failing(t)

\* In MIDDLE and SLOW a tuple that is routed through the target rests on two failed
\* connections to it (DIRECT ones where marks are shown), however long ago its
\* decision was and whatever was decided, forgotten and decided again of it since.
\* It is enough to look at Decision.
THEOREM RoutedOnFailures == Spec => []Founded
<1>1. D!Init => Founded
  BY DEF D!Init, Founded
<1>2. TypeOK /\ Founded /\ [D!Next]_(D!vars) => Founded'
  <2> SUFFICES ASSUME TypeOK, Founded, [D!Next]_(D!vars) PROVE Founded'
    OBVIOUS
  <2> USE DEF Founded, D!Failing
  <2>1. ASSUME NEW t \in Tuple, D!Suspect(t) PROVE Founded'
    BY <2>1 DEF D!Suspect, TypeOK, RouterTypeOK
  <2>2. ASSUME NEW t \in Tuple, D!Recheck(t) PROVE Founded'
    BY <2>2 DEF D!Recheck
  <2>3. ASSUME NEW t \in Tuple, NEW c \in Conn, D!Promising(t, c) PROVE Founded'
    BY <2>3 DEF D!Promising
  <2>4. ASSUME NEW t \in Tuple, NEW c \in Conn, D!Confirm(t, c) PROVE Founded'
    BY <2>4 DEF D!Confirm
  <2>5. CASE D!Forget \/ UNCHANGED D!vars
    BY <2>5 DEF D!Forget, D!vars
  <2> QED BY <2>1, <2>2, <2>3, <2>4, <2>5 DEF D!Next
<1> QED BY <1>1, <1>2, TypeCorrect, DecisionImplemented, PTL DEF ImplementsDecision, D!Spec

=============================================================================
