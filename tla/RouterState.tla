----------------------------- MODULE RouterState -----------------------------
(***************************************************************************)
(* The RouterOS state every part of the adaptive data plane shares: the    *)
(* connection-tracking table, the address lists, the AUTO-AWG mangle rules *)
(* and the packet path through them.  RouterOS itself is not in this       *)
(* repository; it is modelled from how the scripts and the controller use  *)
(* it.  The components that act on this state are Detector, Judge, Health  *)
(* and RuntimeGC; DataPlane composes them.                                 *)
(*                                                                         *)
(* Packet counters are abstracted to the verdict the thresholds of the     *)
(* scripts reach about them (stat), timeouts to "may expire".              *)
(***************************************************************************)
EXTENDS Naturals, FiniteSets

CONSTANTS
    Port,       \* protocol and destination port: the suffix of a list name
    Dst,        \* destination IPv4 addresses
    Conn,       \* connection-tracking ids, each used for one connection
    TupleOf,    \* the adaptive identity each connection addresses
    NoConn,     \* no entry in a list whose comments name a connection
    Profile,    \* the accuracy_profile the scripts were rendered with
    Faults,     \* may RouterOS refuse an add, or a removal whose outcome the
                \* script looks at?
    MarksShown, \* does a print of connections show their connection-mark?
    GenericUdp, \* the ports that are UDP but not UDP/443
    Active      \* the actors that run in this deployment

Tuple    == Port \X Dst
Stat     == {"idle", "silent", "replied", "served", "stalled"}
RuleKind == {"TEST", "OK"}
Rule     == Port \X RuleKind
Detectors == {"fast", "detect"}
Scripts  == Detectors \cup {"judge", "health"}
Actors   == Scripts \cup {"gc", "policy", "outage"}

ASSUME TupleOfType == TupleOf \in [Conn -> Tuple]
ASSUME NoConnIsNone == NoConn \notin Conn
ASSUME ProfileValue == Profile \in {"fast", "middle", "slow"}
ASSUME DeploymentType ==
    /\ Faults \in BOOLEAN /\ MarksShown \in BOOLEAN
    /\ GenericUdp \subseteq Port /\ Active \subseteq Actors

VARIABLES
    ct,         \* conntrack entry: its connection-mark, or unused or gone
    stat,       \* what its counters say
    vpnDirect,  \* address-list vpn_direct
    watch, test, ok, cool,  \* auto_awg_<state>_<proto>_<port>
    direct1, awg1, recheck, \* evidence lists; a comment names a connection
    target,     \* the routing target: up, silent, or its interface has no address
    sched,      \* the enabled schedulers
    fixedOn,    \* are the eight fixed AUTO-AWG rules enabled?
    lazy,       \* the lazy AUTO-AWG: P <proto> <port> rules
    basis,      \* history: the failures the last TEST entry rests on
    verdicts,   \* history: the successful tests counted for the tuple
    rechecked,  \* history: the re-check window was closed by a failure
    before,     \* history: connections opened before the re-check window
    stray       \* history: connections marked while the route rules were out

connVars == <<ct, stat>>
listVars == <<watch, test, ok, cool, direct1, awg1, recheck>>
ruleVars == <<fixedOn, lazy>>
envVars  == <<vpnDirect, target, sched>>
routerVars == <<connVars, envVars, listVars, ruleVars>>
histVars == <<basis, verdicts, rechecked, before, stray>>

PortOf(t) == t[1]
DstOf(t)  == t[2]

Opened      == {c \in Conn : ct[c] # "unused"}
Marked(m)   == {c \in Conn : ct[c] = m}
Live        == {c \in Conn : ct[c] \in {"none", "test", "ok"}}
Bypassed(t) == DstOf(t) \in vpnDirect

\* What a print takes for unmarked: a router that does not show the marks returns
\* an empty one for every connection.
Unmarked == IF MarksShown THEN {Marked("none")} ELSE {Marked("none"), Live}

RouterTypeOK ==
    /\ ct \in [Conn -> {"unused", "none", "test", "ok", "gone"}]
    /\ stat \in [Conn -> Stat]
    /\ vpnDirect \subseteq Dst
    /\ target \in {"up", "silent", "gone"}
    /\ sched \subseteq Scripts
    /\ watch \in [Tuple -> {"none", "fresh", "ripe"}]
    /\ test \subseteq Tuple /\ ok \subseteq Tuple
    /\ cool \subseteq Tuple /\ recheck \subseteq Tuple
    /\ direct1 \in [Tuple -> Conn \cup {NoConn}]
    /\ awg1 \in [Tuple -> Conn \cup {NoConn}]
    /\ fixedOn \in BOOLEAN
    /\ lazy \in [Rule -> {"absent", "on", "off"}]
    /\ basis \in [Tuple -> SUBSET Conn]
    /\ verdicts \in [Tuple -> SUBSET Conn]
    /\ rechecked \subseteq Tuple
    /\ before \in [Tuple -> SUBSET Conn]
    /\ stray \subseteq Conn

\* A fresh installation: the fixed rules enabled and no adaptive state, because
\* install_run clears every residue before it enables anything.
RouterInit ==
    /\ ct = [c \in Conn |-> "unused"]
    /\ stat = [c \in Conn |-> "idle"]
    /\ vpnDirect \in SUBSET Dst
    /\ target = "up" /\ sched = Scripts
    /\ watch = [t \in Tuple |-> "none"]
    /\ test = {} /\ ok = {} /\ cool = {} /\ recheck = {}
    /\ direct1 = [t \in Tuple |-> NoConn]
    /\ awg1 = [t \in Tuple |-> NoConn]
    /\ fixedOn = TRUE
    /\ lazy = [r \in Rule |-> "absent"]
    /\ basis = [t \in Tuple |-> {}]
    /\ verdicts = [t \in Tuple |-> {}]
    /\ rechecked = {}
    /\ before = [t \in Tuple |-> {}]
    /\ stray = {}

-----------------------------------------------------------------------------
(* The packet path.  VPN Direct precedes every AUTO-AWG rule; the lazy rules *)
(* mark new connections that carry no mark; the fixed route rules send       *)
(* marked connections to the target.                                         *)

\* The marks the enabled rules have for a tuple.  A rule that was collected and
\* created again follows the other one, so either may come first.
Offers(t) == {m \in {"test", "ok"} :
                 \/ m = "test" /\ t \in test /\ lazy[<<PortOf(t), "TEST">>] = "on"
                 \/ m = "ok" /\ t \in ok /\ lazy[<<PortOf(t), "OK">>] = "on"}
MarksOf(t) == IF Bypassed(t) \/ Offers(t) = {} THEN {"none"} ELSE Offers(t)

\* VPN Direct, or the route rules of the mark.
ThroughTarget(c) == Bypassed(TupleOf[c]) \/ (ct[c] # "none" /\ fixedOn)

Open(c) ==
    /\ ct[c] = "unused"
    /\ \E m \in MarksOf(TupleOf[c]) :
          /\ ct' = [ct EXCEPT ![c] = m]
          /\ stray' = IF m # "none" /\ ~fixedOn THEN stray \cup {c} ELSE stray
    /\ UNCHANGED <<stat, envVars, listVars, ruleVars, basis, verdicts, rechecked,
                   before>>

\* Enough packets went out without a reply for the failure thresholds.
Silence(c) ==
    /\ c \in Live /\ stat[c] = "idle"
    /\ stat' = [stat EXCEPT ![c] = "silent"]
    /\ UNCHANGED <<ct, envVars, listVars, ruleVars, histVars>>

\* Enough replies for the success thresholds.  The counters are the same whether
\* they came through the target or not; the model remembers which.
Reply(c) ==
    /\ c \in Live /\ stat[c] \in {"idle", "silent"}
    /\ ThroughTarget(c) => target = "up"
    /\ stat' = [stat EXCEPT ![c] = IF ThroughTarget(c) THEN "served" ELSE "replied"]
    /\ UNCHANGED <<ct, envVars, listVars, ruleVars, histVars>>

\* Replies were seen but the reply rate fell to zero while the client sends.
\* Only DETECT reads the rates, and only of unmarked connections; that it may
\* take a marked one for unmarked is left out here.
Stall(c) ==
    /\ c \in Marked("none") /\ stat[c] = "replied"
    /\ stat' = [stat EXCEPT ![c] = "stalled"]
    /\ UNCHANGED <<ct, envVars, listVars, ruleVars, histVars>>

\* An entry goes with its mark and its counters.
Drop(C) ==
    /\ ct' = [c \in Conn |-> IF c \in C /\ c \in Live THEN "gone" ELSE ct[c]]
    /\ stat' = [c \in Conn |-> IF c \in C THEN "idle" ELSE stat[c]]

Close(c) ==
    /\ c \in Live
    /\ Drop({c})
    /\ UNCHANGED <<envVars, listVars, ruleVars, histVars>>

-----------------------------------------------------------------------------
(* Timeouts.  WATCH (8s) ripens below 4s; RECHECK is added after AWG1 with   *)
(* the same timeout, so it never expires first.                              *)

Ripen(t) ==
    /\ watch[t] = "fresh"
    /\ watch' = [watch EXCEPT ![t] = "ripe"]
    /\ UNCHANGED <<connVars, envVars, test, ok, cool, direct1, awg1, recheck,
                   ruleVars, histVars>>

Expire(t) ==
    /\ \/ /\ watch[t] = "ripe"
          /\ watch' = [watch EXCEPT ![t] = "none"]
          /\ UNCHANGED <<test, ok, cool, direct1, awg1, recheck>>
       \/ /\ t \in test
          /\ test' = test \ {t}
          /\ UNCHANGED <<watch, ok, cool, direct1, awg1, recheck>>
       \/ /\ t \in ok
          /\ ok' = ok \ {t}
          /\ UNCHANGED <<watch, test, cool, direct1, awg1, recheck>>
       \/ /\ t \in cool
          /\ cool' = cool \ {t}
          /\ UNCHANGED <<watch, test, ok, direct1, awg1, recheck>>
       \/ /\ direct1[t] # NoConn
          /\ direct1' = [direct1 EXCEPT ![t] = NoConn]
          /\ UNCHANGED <<watch, test, ok, cool, awg1, recheck>>
       \/ /\ awg1[t] # NoConn
          /\ awg1' = [awg1 EXCEPT ![t] = NoConn]
          /\ UNCHANGED <<watch, test, ok, cool, direct1, recheck>>
       \/ /\ t \in recheck /\ awg1[t] = NoConn
          /\ recheck' = recheck \ {t}
          /\ UNCHANGED <<watch, test, ok, cool, direct1, awg1>>
    /\ UNCHANGED <<connVars, envVars, ruleVars, histVars>>

\* direct_sync adds and removes entries of vpn_direct one API call at a time.
PolicyChange(d) ==
    /\ "policy" \in Active
    /\ vpnDirect' = IF d \in vpnDirect THEN vpnDirect \ {d} ELSE vpnDirect \cup {d}
    /\ UNCHANGED <<connVars, target, sched, listVars, ruleVars, histVars>>

TargetChange(s) ==
    /\ "outage" \in Active /\ s # target
    /\ target' = s
    /\ UNCHANGED <<connVars, vpnDirect, sched, listVars, ruleVars, histVars>>

RouterNext ==
    \/ \E c \in Conn : Open(c) \/ Silence(c) \/ Reply(c) \/ Stall(c) \/ Close(c)
    \/ \E t \in Tuple : Ripen(t) \/ Expire(t)
    \/ \E d \in Dst : PolicyChange(d)
    \/ \E s \in {"up", "silent", "gone"} : TargetChange(s)

=============================================================================
