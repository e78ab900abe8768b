----------------------------- MODULE RuntimeGC -----------------------------
(***************************************************************************)
(* The controller's garbage collector: every five minutes one bounded pass *)
(* over the router through the API.  It collects lazy rules whose list is  *)
(* empty and connections whose mark no list entry backs any more.          *)
(*                                                                         *)
(* It works beside the scripts.  That none of them runs is checked once,   *)
(* at the gate; afterwards each API call is a step of its own.  When a     *)
(* call fails the pass ends in the fail-safe: the schedulers are disabled  *)
(* one by one, then the AUTO-AWG rules.                                    *)
(***************************************************************************)
EXTENDS RouterState, Sequences

CONSTANTS
    LazyBudget,     \* rules one pass may remove of each kind
    MarkBudget      \* connections one pass may remove of each mark

ASSUME BudgetType == LazyBudget \in Nat /\ MarkBudget \in Nat

VARIABLES
    gpc,        \* the step of the pass
    grules,     \* lazy rules collected and not processed yet
    gmarks,     \* marked connections collected and not processed yet
    gitem,      \* the rule or connection in hand
    gused,      \* removals made of each kind in this part of the pass
    gpause,     \* fail-safe: the schedulers handled so far
    safe        \* history: the last fail-safe reported success

gcVars == <<gpc, grules, gmarks, gitem, gused, gpause, safe>>

PauseOrder == <<"health", "fast", "detect", "judge">>
NoItem == <<>>
Mark   == {"test", "ok"}

\* Defect: a mark is looked up in the list of the other one.
KindOfOtherMark(m) == IF m = "test" THEN "OK" ELSE "TEST"

KindOfMark(m) == IF m = "test" THEN "TEST" ELSE "OK"

GCTypeOK ==
    /\ gpc \in {"idle", "scan", "rules", "recount", "remove", "marks", "look",
                "drop", "pause", "disable"}
    /\ grules \subseteq Rule
    /\ gmarks \subseteq Conn \X Mark
    /\ gitem \in Rule \cup (Conn \X Mark) \cup {NoItem}
    /\ gused \in [RuleKind -> Nat]
    /\ gpause \in 0..Len(PauseOrder)
    /\ gpc = "pause" => gpause < Len(PauseOrder)
    /\ safe \in BOOLEAN

Unused == [k \in RuleKind |-> 0]

GCInit ==
    /\ gpc = "idle"
    /\ grules = {} /\ gmarks = {} /\ gpause = 0
    /\ gitem = NoItem
    /\ gused = Unused
    /\ safe = FALSE

\* The address list that backs a rule, for every destination of its port.
Backing(kind) == IF kind = "TEST" THEN test ELSE ok
ListEmpty(r)  == {t \in Backing(r[2]) : PortOf(t) = r[1]} = {}

-----------------------------------------------------------------------------
\* The gate: every scheduler enabled, no job running, the fixed rules enabled.
\* idle tells whether the four scripts are.
GCGate(idle) ==
    /\ "gc" \in Active /\ gpc = "idle"
    /\ sched = Scripts /\ idle /\ fixedOn
    /\ gpc' = "scan"
    /\ UNCHANGED <<routerVars, histVars, grules, gmarks, gitem, gused, gpause, safe>>

\* Defect: the OK rules are not collected.
LazyTestRules == {r \in Rule : r[2] = "TEST" /\ lazy[r] # "absent"}

LazyRules == {r \in Rule : lazy[r] # "absent"}

GCScanRules ==
    /\ gpc = "scan"
    /\ grules' = LazyRules
    /\ gused' = Unused
    /\ gpc' = "rules"
    /\ UNCHANGED <<routerVars, histVars, gmarks, gitem, gpause, safe>>

\* The list of the rule is counted: empty, or the rule is kept.
GCCount(r) ==
    /\ gpc = "rules" /\ r \in grules /\ gused[r[2]] < LazyBudget
    /\ grules' = grules \ {r}
    /\ IF ListEmpty(r) THEN gpc' = "recount" /\ gitem' = r
       ELSE UNCHANGED <<gpc, gitem>>
    /\ UNCHANGED <<routerVars, histVars, gmarks, gused, gpause, safe>>

\* It is counted once more immediately before the removal.
GCRecount ==
    /\ gpc = "recount"
    /\ IF ListEmpty(gitem) THEN gpc' = "remove" /\ UNCHANGED gitem
       ELSE gpc' = "rules" /\ gitem' = NoItem
    /\ UNCHANGED <<routerVars, histVars, grules, gmarks, gused, gpause, safe>>

GCRemove ==
    /\ gpc = "remove"
    /\ lazy' = [lazy EXCEPT ![gitem] = "absent"]
    /\ gused' = [gused EXCEPT ![gitem[2]] = @ + 1]
    /\ gpc' = "rules" /\ gitem' = NoItem
    /\ UNCHANGED <<connVars, envVars, listVars, fixedOn, histVars, grules, gmarks,
                   gpause, safe>>

\* What is left over the budget waits for the next pass.
GCScanMarks ==
    /\ gpc = "rules"
    /\ \A r \in grules : gused[r[2]] >= LazyBudget
    /\ grules' = {}
    /\ gmarks' = {item \in Conn \X Mark : ct[item[1]] = item[2]}
    /\ gused' = Unused
    /\ gpc' = "marks"
    /\ UNCHANGED <<routerVars, histVars, gitem, gpause, safe>>

Backed(item) == TupleOf[item[1]] \in Backing(KindOfMark(item[2]))

Affordable(m) == gused[KindOfMark(m)] < MarkBudget

GCLook(item) ==
    /\ gpc = "marks" /\ item \in gmarks
    /\ Affordable(item[2])
    /\ gmarks' = gmarks \ {item}
    /\ IF Backed(item) THEN UNCHANGED <<gpc, gitem>>
       ELSE gpc' = "look" /\ gitem' = item
    /\ UNCHANGED <<routerVars, histVars, grules, gused, gpause, safe>>

GCLookAgain ==
    /\ gpc = "look"
    /\ IF Backed(gitem) THEN gpc' = "marks" /\ gitem' = NoItem
       ELSE gpc' = "drop" /\ UNCHANGED gitem
    /\ UNCHANGED <<routerVars, histVars, grules, gmarks, gused, gpause, safe>>

\* Removal is by the id of the scan; a connection that is gone counts as well.
GCDrop ==
    /\ gpc = "drop"
    /\ Drop({gitem[1]})
    /\ gused' = [gused EXCEPT ![KindOfMark(gitem[2])] = @ + 1]
    /\ gpc' = "marks" /\ gitem' = NoItem
    /\ UNCHANGED <<envVars, listVars, ruleVars, histVars, grules, gmarks, gpause, safe>>

GCEnd ==
    /\ gpc = "marks"
    /\ \A item \in gmarks : ~Affordable(item[2])
    /\ gmarks' = {}
    /\ gused' = Unused
    /\ gpc' = "idle"
    /\ UNCHANGED <<routerVars, histVars, grules, gitem, gpause, safe>>

-----------------------------------------------------------------------------
\* A query or a removal could not be verified, at the gate once the scripts are
\* known to be ours or later.
GCFail ==
    /\ Faults /\ "gc" \in Active
    /\ gpc \notin {"pause", "disable"}
    /\ gpc' = "pause" /\ gpause' = 0
    /\ safe' = TRUE
    /\ grules' = {} /\ gmarks' = {} /\ gitem' = NoItem /\ gused' = Unused
    /\ UNCHANGED <<routerVars, histVars>>

GCPause ==
    /\ gpc = "pause"
    /\ gpause' = gpause + 1
    /\ \/ sched' = sched \ {PauseOrder[gpause + 1]} /\ UNCHANGED safe
       \/ sched' = sched /\ safe' = FALSE
    /\ gpc' = IF gpause' = Len(PauseOrder) THEN "disable" ELSE "pause"
    /\ UNCHANGED <<connVars, vpnDirect, target, listVars, ruleVars, histVars, grules,
                   gmarks, gitem, gused>>

\* The controller dies: the pass, or the fail-safe, stays where it is, and the
\* restarted controller knows nothing of it.
GCCrash ==
    /\ Faults /\ gpc # "idle"
    /\ gpc' = "idle" /\ gpause' = 0
    /\ safe' = FALSE
    /\ grules' = {} /\ gmarks' = {} /\ gitem' = NoItem /\ gused' = Unused
    /\ UNCHANGED <<routerVars, histVars>>

\* Defect: the rules are not looked at again.
Unverified(on, rules) == TRUE

VerifiedOff(on, rules) == ~on /\ \A r \in Rule : rules[r] # "on"

\* The rules are disabled one by one, whatever becomes of the others, and looked
\* at again to report whether all are.
GCDisable ==
    /\ gpc = "disable"
    /\ fixedOn' \in {fixedOn, FALSE}
    /\ \E off \in SUBSET {r \in Rule : lazy[r] = "on"} :
          lazy' = [r \in Rule |-> IF r \in off THEN "off" ELSE lazy[r]]
    /\ safe' = (safe /\ VerifiedOff(fixedOn', lazy'))
    /\ gpc' = "idle" /\ gpause' = 0
    /\ UNCHANGED <<connVars, envVars, listVars, histVars, grules, gmarks, gitem, gused>>

GCNext(idle) ==
    \/ GCGate(idle) \/ GCScanRules
    \/ \E r \in Rule : GCCount(r)
    \/ GCRecount \/ GCRemove \/ GCScanMarks
    \/ \E item \in Conn \X Mark : GCLook(item)
    \/ GCLookAgain \/ GCDrop \/ GCEnd
    \/ GCFail \/ GCPause \/ GCDisable \/ GCCrash

=============================================================================
