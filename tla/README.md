# Susanin: TLA+ models and proofs

Susanin routes failing LAN connections through a VPN target (an AmneziaWG or
WireGuard interface, or a gateway) on a MikroTik router. Four RouterOS scripts,
rendered from `templates/`, decide per *tuple* (protocol, port, destination)
whether traffic stays DIRECT, is tested through the target, or is confirmed. A
C controller installs, migrates and cleans up after those scripts through the
RouterOS API.

There is no lock around the router's state. Scripts, the controller, timeouts
and traffic interleave at every command, and each of them may fail or be cut
off. That is what these modules are about.

## The system

| Component | Code | State | Operations | Hard part |
|---|---|---|---|---|
| Packet path | rules of `install.c:56-78`, lazy rules of the detectors | conntrack marks, address lists, mangle rules | mark a connection, route by mark, expire | shared by everybody, no transactions |
| FAST | `fast.rsc.tmpl` | DIRECT1, TEST and WATCH lists, lazy rules | snapshot, evidence, rules, enter TEST | runs beside DETECT with the same code on the same lists |
| DETECT | `soft.rsc.tmpl` | the same | the same, plus late stalls | same, and the 8s WATCH timer |
| JUDGE | `judge.rsc.tmpl` | OK, COOLDOWN, AWG1, RECHECK lists | confirm, first success, re-check, cool down | judges by a snapshot, lists read later |
| HEALTH | `health.rsc.tmpl` | `auto_awg_health_fail`, enabled state of the rules | probe, fail-open, recover | seconds between the probe and its use |
| Runtime GC | `gc.c`, `state_cleanup.c` | none of its own | collect rules and marks, fail-safe | check-then-act through the API, bounded work |
| Migration | `stage.c`, `promote.c`, `state_cleanup.c` | stage and backup scripts, schedulers | stage, clean, promote, rollback | every call may fail, running jobs, traffic during cleanup |
| VPN Direct | `direct.c` | `/data/vpn_direct.conf`, `vpn_direct` list | add, remove, sync | two processes, no lock |
| Cleanup | `state_cleanup.c` | none of its own | look, remove, look again, per kind | traffic goes on, prints lag behind |
| Target and configuration | `target.c`, `config.c` | `/data/susanin.conf`, the dedicated table | find or make a table, save | processes without a lock share one temporary file |
| Install | `install.c` | everything on the router | count, create, clean, commit, rollback | partial failure beside enabled schedulers |
| Setup | `setup.c`, dispatch of `main.c` | the runtime lock, the bootstrap helper | IPv6, prompts, target, installation | a prompt of any length between load and save |
| API client | `routeros_api.c` | socket, sentence buffer | command, trap drain | framing after errors |
| The rest | `renderer.c`, `validate.c`, `apply.c`, `status.c`, `diag.c`, ... | none | render, compare, print | sequential |

How they interact: detectors put a tuple into TEST and drop its failed
connection; the client reconnects, the lazy rule marks the new connection, the
fixed route rules send it to the target; JUDGE reads its counters and moves the
tuple to OK or COOLDOWN; HEALTH takes all rules out of the path when the target
is silent; the collector removes what no list backs any more; VPN Direct comes
before all of it. A migration pauses the schedulers, waits for the jobs,
replaces the four sources, clears what the old version left, and resumes. Setup
comes before all of them: it loads the configuration, takes the lock, asks for
a target, makes sure that a routing table leads through it, saves both, creates
every object disabled, clears what an older release left, and enables the
safety rules, the routing rules, NAT and the schedulers in that order.

What makes each part correct:

- detectors: TEST only on the evidence the profile asks for, and only with a rule;
- JUDGE: OK only on successes through the target, of as many connections, and
  after the re-check the profile asks for;
- HEALTH: a target that stays down ends in DIRECT, one that stays up in
  adaptive routing with every rule;
- GC: bounded work, everything stale goes in the end, uncertainty fails open;
- migration: nothing runs while sources and state change, nothing runs on
  state of another version, an unverified result stays paused and open;
- target: what is saved leads somewhere, and a selection is never lost;
- installation: no routing without the safety rules, no script on old state,
  nothing left of a failure, and a way to try again.

## Modules

| Module | Models | Lines of the state |
|---|---|---|
| `RouterState` | conntrack, lists, rules and the packet path; timeouts; the policy and the target as environment | RouterOS (external), `install.c`, `direct.c` |
| `Detector` | FAST and DETECT, two instances `d \in Detectors` of one job | `fast.rsc.tmpl`, `soft.rsc.tmpl` |
| `Judge` | JUDGE | `judge.rsc.tmpl` |
| `Health` | HEALTH | `health.rsc.tmpl` |
| `RuntimeGC` | one collector pass, its fail-safe and its death | `gc.c`, `state_cleanup.c:812-947` |
| `DataPlane` | the five composed by interleaving; fairness; the properties | the schedulers of `install.c:56-61` |
| `Decision` | what the data plane promises of one tuple: the abstract specification | none of its own; `D` in `DataPlane` maps to it |
| `MCDataPlane` | instances for TLC | |
| `DataPlaneProofs` | theorems about `DataPlane`: evidence, decisions, budgets | |
| `RoutingProofs` | theorems about `DataPlane`: rules, routing, fail-safe, successes | |
| `Migration` | stage, stage-clean, promote, rollback beside a live router | `stage.c`, `promote.c`, `state_cleanup.c` |
| `Handover` | what a migration promises the scripts that run: the abstract specification | none of its own; `H` in `Migration` maps to it |
| `MCMigration` | instances for TLC | |
| `MigrationProofs` | theorems about `Migration` | |
| `HandoverProofs` | theorem about `Handover` | |
| `VpnDirect` | the policy file, its temporary file and the objects on the router, by unlocked processes | `direct.c`, dispatch of `main.c` |
| `MCVpnDirect` | instance for TLC | |
| `VpnDirectProofs` | theorems about `VpnDirect` | |
| `Failures` | what may go wrong | results of the API, file and process calls |
| `Target` | the configuration file and the target, by unlocked processes | `target.c`, `config.c` |
| `Cleanup` | removal of the adaptive state, call by call | `state_cleanup.c:174-798` |
| `Install` | the transaction of a fresh installation, its rollback, the router beside it | `install.c`, `renderer.c:230-279` |
| `Setup` | the commands around them: `setup`, `install`, `target set`, `config set`; the lock; the properties | `setup.c`, dispatch of `main.c` |
| `MCSetup` | instance for TLC | |
| `SetupProofs` | theorems about `Setup` | |

How state corresponds:

- `ct[c]` is the connection-mark of a connection (`none`, `test`, `ok`), or that
  it was not opened yet or is gone; `stat[c]` is what the thresholds of the
  scripts say of its counters. `served` and `replied` look the same to the
  scripts (enough replies); the model remembers whether they came through the
  target.
- `watch`, `test`, `ok`, `cool`, `direct1`, `awg1`, `recheck` are the lists
  `auto_awg_<state>_<proto>_<port>`; a comment that names a connection is that
  connection. An entry may expire at any time (`Expire`), except that RECHECK
  does not expire before AWG1, which is added earlier with the same timeout.
- `lazy[<<port, kind>>]` is the lazy rule of a port; `fixedOn` stands for the
  eight fixed rules, of which every script reads one (the sentinel
  `L1 mark test`) and which HEALTH enables or disables together.
- `basis`, `verdicts`, `rechecked`, `before`, `stray`, `witness`, `safe` are
  history: they record what happened and no guard reads them.
- `dpc`, `jpc`, `hpc`, `gpc` say where a job is. A step is a run of commands
  no other component can tell apart; wherever the code reads something and
  acts on it later, there is a step in between. A job's locals end with the
  flow (`Continue`, `JudgeDone`), as in the script's `foreach`.
- `Faults` admits refused adds of the scripts, refused removals where the script
  looks again, and failed calls or the death of the collector. A refused add ends
  the flow through the script's `onerror`.
- `MarksShown` says whether a print of connections shows their mark. Where it does
  not (`judge.rsc.tmpl:10-15`: RouterOS 7.23.3), FAST, DETECT and HEALTH see an empty
  mark and take every connection for an unmarked one (`Unmarked`); JUDGE asks by
  mark and is not misled. FALSE admits both answers of each print.
- JUDGE's reset in SLOW looks the tuple up again after it was taken off TEST, and
  removes the TEST rule of the port if it is there (`ResetToDirect`, `FinishReset`).
- The fail-safe disables the rules one by one, and any part of them may stay on.
  Where some of the eight fixed rules are disabled and others not, `fixedOn` may be
  either.
- In `Migration`, a source is the version that rendered it and adaptive state
  is the set of versions whose jobs wrote it (`residue`), by kind: lazy rules,
  lists, marked connections. `op`, `pc`, `at` give the command and its loop
  position, `result` what it has printed. `Configure` happens between commands:
  each command renders once, when it starts, so a change during it is seen by
  the next one only. Commands that refuse to start change nothing and are left
  out.
- In `VpnDirect`, `file` and `tmp` are the sets of entries in the policy file and
  in `vpn_direct.conf.tmp`; `out` says which of the two a process's stream was
  opened on and follows it through renames. `router` holds the address-list
  entries, static names and bypass rules; `ids` are the objects a sync has found
  and is removing, at most `IdsMax` of a query, and `kept` is history: what a sync
  without company found and left there, because a removal was refused (its result
  is ignored) or the query had no room. The content of a file is written when its stream is closed
  (a policy that fits the stream's buffer); a line that occurs twice is one entry
  (the code's sync reports failure on it).
- In `Target`, `file` and `tmp` are susanin.conf and its temporary file, `mem` is
  the configuration a process has loaded and changes, `out` what its stream is
  on, as in `VpnDirect`. A default route is its table, its interface and whether
  the gateway is the interface itself, since only such a route lets the dedicated
  table count as leading there. `goal` is what a command is to set; a setup gets
  it at its prompt.
- In `Cleanup`, `left` holds the kinds of which anything is on the router, `kind`,
  `look` and `tries` the loop. A fault `"stale"` is a print that shows what was
  just removed.
- In `Install`, an object is its kind and its name; `there` and `enabled` are the
  router's, `phase`, `at` and `todo` the place in `install_run`, `created` its
  local `created_nat`. Objects of one kind are worked through in any order: each
  is an independent object, and the code's order inside a kind is not relied on.
  "blocked" is an end before anything was created, "failed" one after a rollback.
  The jobs that a failed installation has started go on when their scripts are
  gone (RouterOS keeps the text of a job), also into a later attempt, which does not
  look for them; only HEALTH has nothing to do any more once the rules are gone.
- In `Setup`, `cmd` is the command of a process and `pc` its place, with the places
  of `Target` among them. A process is one invocation; it ends for good.
- History in `Setup`: `crossed` says that two processes were between their load
  and the end of their save at once, `trouble` that a removal of the rollback was
  refused or a NAT rule was added without a reply, `relearnt` that a job of an
  earlier attempt has added state since the cleanup passed the first kind. No guard
  reads them.

## What the runs show

All runs use model values and finish within four minutes; the largest are
`Interrupted` with 3.5 million and `Setup` with 2.0 million distinct states.

| Run | Question | Result |
|---|---|---|
| `MiddleDetectors` | FAST, DETECT and JUDGE on one tuple in MIDDLE with refused adds, a changing VPN Direct policy and unreadable marks: two failures before TEST, a rule in place; they implement `Decision` | holds |
| `SlowRecheck` | the whole way from the first failure to OK in SLOW with refused adds and removals, resets and expiry; it implements `Decision` | holds |
| `Outage` | target silent, without address, up again, at any time, with unreadable marks | both liveness properties hold, confirmed tuples have their rule, new connections to decided tuples go through the target whenever routing is enabled, and no success of before an outage is counted for replies without the target |
| `Collect` | the collector beside FAST and JUDGE, budgets of one | everything stale is reclaimed |
| `FailSafe` | the collector fails or dies anywhere beside FAST | a reported fail-safe holds |
| `Interrupted` | migration with failed calls and restores and crashes | jobs quiet, state clean on resume, unverified stays open, no version meets the state of another; it implements `Handover` |
| `Policy` | two VPN Direct commands without a lock, failing calls and disk, crashes | a command alone saves all or nothing, its sync repairs everything it is not refused and has room for |
| `Setup` | two of `setup`, `install`, `target set`, `config set` beside each other and the router, with failing calls and disk, prints that lag, crashes and jobs of earlier attempts | targets lead somewhere, selections survive, safety first, nothing left of a failure |
| `CollectedRule` | does a confirmed tuple always have its rule beside the collector? | violated |
| `OldFailure` | is the SLOW re-check closed by a new failure? | violated |
| `Reenabled` | does the fail-safe hold beside HEALTH? | violated |
| `MixedRollback` | do all four scripts come from one version after a failed backup? | violated |

Bounds, and why they are enough. One tuple: the scripts never relate two tuples,
except through the rule of a shared port and through the collector's count of
its list. Connections are the bound that matters: two failures and one
test need three (`MiddleDetectors`), two failures, a success, a failure
in the re-check and a second success need five (`SlowRecheck`, `OldFailure`); two
suffice for a FAST tuple that is tested and confirmed (`Outage`, `Collect`,
`FailSafe`). Each id is used
once, so a run ends in a quiet router: that is why deadlock is not checked for
`DataPlane`. It is checked for `Migration` and `VpnDirect`, which can always
start another command or job. `Migration` has two scripts: HEALTH, which switches the rules,
and FAST for all scripts that write state; two versions are enough to mix.
`VpnDirect` has two processes, an address and a domain with room for one of
them, two bypass rules, and queries with room for one id (`IdsMax`): the least with
which syncs collide, temporary files mix and both limits are met. `Setup` has two commands, chosen from `ThePlans`: every
change of a target beside every other change, a change of the target before,
beside and after an installation, and a setup beside another attempt at the
installation, which takes over when the first has failed, died or released the
lock. Its three interfaces are the three cases of the code: one that gets a
table of its own, one with somebody else's masquerade, one that is disabled; the
initial routes give no table, one, or an ambiguous one. There is one rule of
each kind, since no step relates two, HEALTH and one script that writes state,
and two attempts at a kind of the cleanup. Its commands end for good, so it may
stop. `Routings` are those in which the dedicated table, if it has routes, leads
one way (`DedicatedOnce`): it is named after Susanin and used by nothing else.
Symmetry is used for the connections of one tuple, for
versions and for processes, in runs without liveness only.

Fairness (`FairSpec`): the scheduler starts HEALTH every 3s and a started job or
pass goes on (`HealthFair`, `JobsEnd`, `CollectorFair`); nothing is assumed of
traffic, timeouts, the target or of when FAST and JUDGE are started. The gate of
the collector is tried every five minutes, hence strong fairness. Jobs that
overlap for ever would keep that gate shut, which TLC confirms, so the two
reclaiming properties assume that at times no job runs (`Pauses`).

The remembered first miss of HEALTH lives 8s, jobs start every 3s and ping for
at most 2s: the next job still finds it, later ones may not (`HealthMiss` turns
`fresh` into `old`, and only `old` expires).

## Behaviour a reader should know

The violated runs are entries under "findings" in `PROJECT.json`. The model
admits more that the documents would not let one expect; no run is spent on it:

- Where prints do not show connection-marks (`judge.rsc.tmpl:10-15`) a connection
  that already goes through the target and fails there counts as a DIRECT failure
  (`fast.rsc.tmpl:63`), and the recovery of HEALTH removes connections of confirmed
  tuples that are through the target. The decisions still rest on two connections.
- A reset of JUDGE in SLOW that finds its tuple in TEST still, or again, removes the
  TEST rule of the whole port (`judge.rsc.tmpl:240-246`, `264-270`). Tuples of that
  port stay in TEST without a rule: they go DIRECT, and no detector looks at them
  before the entry ends. `TestHasRule` is false in SLOW (TLC violates it on the
  instance of `SlowRecheck`) and is checked in MIDDLE.
- The mark of a connection survives the SLOW re-check, so the second success may
  come from a connection that is older than the re-check
  (`judge.rsc.tmpl:115`, against `DEV3_PROFILES.md:144`).
- A lazy rule is created enabled even while HEALTH has disabled the others. Its
  connections carry the mark but travel DIRECT; after the recovery JUDGE counts
  their replies as a success of the target. `SuccessThroughTarget` excepts these
  connections, those marked while the route rules were out (`stray`), and no others;
  without the exception TLC violates it in `Outage`.
- `vpn_direct` is looked up once per flow, and evidence, rules and TEST are written
  later without another look. A policy change in between puts a bypassed destination
  into TEST (`fast.rsc.tmpl:57-300`, and alike OK in JUDGE), against
  `DEV3_PROFILES.md:203-204`: a destination covered by `vpn_direct` "must not enter
  TEST or OK due to adaptive logic". No property says what the document says, since
  the code does not do it; with the policy standing still it would repeat the lookup.
  The entry is without effect while the bypass lasts. The policy changes in
  `MiddleDetectors`, whose properties hold all the same.
- A confirmed generic UDP tuple cannot fail (`judge.rsc.tmpl:350-358`); it stays
  until its timeout.
- A promotion whose restore fails prints that a manual restore is required and
  resumes the schedulers all the same, with sources of two versions
  (`promote.c:371-379`, against `DEV4_MIGRATION.md:176`); the history
  `unrestored` says that this has happened, and `StateOfRunningVersion` is about
  everything before it.
- `direct add` and `direct remove` take no lock: of two that overlap, one update
  is lost, and since both use one temporary file a rename may publish the empty
  or mixed content of the other (`direct.c:450`, `main.c:822-829`). The
  properties of `Policy` are about commands that run alone, after such races.
- A policy file that cannot be opened counts as empty (`direct.c:356`): the next
  `direct add` saves a policy of one entry, the next sync removes everything.
  That is the fault `"read"` of `VpnDirect`, under which both properties fail; the
  run leaves it out.
- The results of the removals of a sync are ignored (`direct.c:711`), and a query
  takes 512 ids and no more (`direct.c:628-631`). What is refused or beyond that
  stays on the router and in force, and the command reports success. A broken link
  fails the query after it, except in the sync of an empty policy, whose last command
  is the removal of the bypass rule. `SoleSyncRepairs` says that nothing else is left.
- `restore_scheduler_states` ignores errors; the promotion reports success with
  a scheduler still disabled (`promote.c:269-273`, `442`).
- A controller that dies after pausing the schedulers leaves them paused; the
  next promotion captures that as their state and restores it.
- An installation counts objects, not whether they are on. One that dies before
  or during its commit leaves a complete but disabled, or half enabled, data
  plane; the next one reports it complete, and setup then removes the helper
  that could have repaired it (`install.c:413-416`, `setup.c:758-800`).
- On an installed router, `setup` and `target set` save a new target and the rules
  keep routing to the old table, although setup prints "installed or already in
  sync" (`setup.c:838`). `SavedTargetRoutes` and `InstalledRoutes` say that both
  lead somewhere; they need not lead to the same place.
- Two `target set` commands that both find the dedicated table empty give it two
  default routes (`target.c:446-537`); the history `crossed` excepts that from
  `OneWayOut`. A single one can never move the dedicated table to another
  interface: it stops at the route that is there (`target.c:493`).
- A configuration that cannot be opened, or is empty, is the default one
  (`config.c:256-300`): the fault `"read"` of `Setup`. With it a `config set` saves a
  file without a target, and TLC violates `SelectionKept`; the run leaves it out,
  as `SelectionSurvives` assumes.
- Commands write back all they have loaded, so a `config set` during the prompt of a
  setup is undone when the setup saves (excepted by `crossed`).
- A NAT rule that was added while its reply was lost is not known to the rollback
  (`install.c:327`): it stays, and blocks every later installation as partial
  (`install.c:417`). A removal that is refused does the same, and may leave
  routing rules on without the safety rules. Both are `trouble`.
- The comment of the rollback says that no managed script can run
  (`install.c:312`). A job that an enabled scheduler has started before can: HEALTH
  switches the rules that are still there, and a detector or JUDGE may go on into
  the next attempt and add lists and rules behind its cleanup, which the new scripts
  then start on. `StartsClean` excepts that (`relearnt`); TLC reaches it in `Setup`.
  What an older release left is gone all the same.
- A failed setup leaves IPv6 off (`setup.c:585-697`).

## Proofs

`DataPlaneProofs` proves, for all sets of ports, destinations and connections,
all profiles, deployments and budgets allowed by the assumptions of
`RouterState` and `RuntimeGC` (`TupleOfType`, `NoConnIsNone`, `ProfileValue`,
`DeploymentType`, `BudgetType`):

- `TypeCorrect`: `Spec => []TypeOK`, by one lemma per component.
- `EvidenceConsistent`: `Spec => []EvidenceInv`.
- `EnoughFailures`, `EnoughTests`, `RecheckFirst`: the action properties
  `TestNeedsTwoFailures`, `OkNeedsTwoTests`, `SlowOkNeedsRecheck`.
- `BoundedPass`: `Spec => []GCBounded`, with `WithinBudget`, which adds that the
  object in hand was taken while the budget of its kind allowed one more.

Why an invariant is needed: that a tuple enters TEST on two failures is decided
several steps earlier, when a detector read DIRECT1, and others run in
between. `EvidenceInv` carries that over. `FailureEvidence` says that DIRECT1
names a failure of its own tuple and that a detector past its decision holds two
different ones, or re-enters for a tuple that had two. `TestedOnFailures` says
that what is in TEST, has an AWG1, or is in the hands of JUDGE had two.
`SuccessEvidence` says that AWG1 names a counted success, and in SLOW that its
window is open or was closed by a failure. The three are inductive together with
`TypeOK`; each action property is then one step from the invariant. TLC checks
`EvidenceInv` in `SlowRecheck`.

The same module proves `DecisionImplemented`: `DataPlane` implements `Decision`, for
all values of the constants. The refinement mapping takes `test`, `ok` and
`rechecked` as they are and `basis` and `verdicts`, what the model counted, as the
evidence; every step of a detector, of JUDGE, of HEALTH, of the collector, of
traffic and of a timeout is one action of `Decision` or a stutter. The steps that
matter are those that enter TEST, count a success and confirm, and for these
`EvidenceInv` gives the evidence that `Decision` asks for.

`RoutingProofs` is about what the decisions lead to, again for all values of the
constants. Some of these properties are false of the code as it is, and the
violated runs show by which race; each theorem excepts that race and no other, by a
hypothesis that names the step.

| Theorem | Property | Excepted |
|---|---|---|
| `TestRouted`, `OkRouted` | `TestHasRule`, `OkHasRule` | the collector removes a rule of the kind while a tuple relies on it (`Spared`; `CollectedRule` shows it for OK); for TEST also that JUDGE's reset in SLOW finds its tuple in TEST (`ResetsEnd`) |
| `RulesWithoutCollector` | both, in SLOW the second only | nothing, where no collector runs |
| `DecidedTravels` | `DecidedThroughTarget` | the same as the first two, and that a fail-safe disables lazy rules and leaves the fixed ones on (`NoHalfDisable`) |
| `FailSafeHolds` | `FailSafeStaysOpen` | a HEALTH job is about to act on a good probe when the rules are disabled (`NoOldProbe`; `Reenabled` shows it) |
| `FailSafeAlone` | the same | nothing, where no HEALTH runs |
| `SuccessCounted` | `SuccessThroughTarget` | the collector's fail-safe disables the rules (`NoFailSafe`): it leaves marked connections, which are then answered DIRECT |

Their invariants. `RulesInv(k)`: a rule is needed by a tuple on the list, and also by
one that a detector has made the pair for and has not entered into TEST yet, or that
JUDGE has in hand, for their adds come calls after their lookups.
`Together`: the lazy rules are never disabled while the fixed ones are enabled;
HEALTH switches both, the collector may not get as far, and detectors only create
enabled ones. With the two
rules it gives `DecidedTravels`: a new connection of a decided tuple finds an enabled
rule that marks it, after any outage. `SafeInv` follows the fail-safe from the
paused schedulers to the disabled rules and says that nobody is left to undo it.
`CountersInv` says that a marked connection has been answered by nobody but the
target, is one of those HEALTH is about to remove, or is a `stray` (`MarkedTried`),
and that so is what JUDGE has read of it (`ReadTried`): a success that was read
before an outage and counted after it still came through the target.

Liveness itself is out of reach, but its safety half is not. `OutStaysOut`: while the
target is down, routing that is out, with no good probe in hand, stays out
(of `FailsOpen`). `InStaysIn`: while the target is up, routing that is in, with no
bad probe in hand, stays in and complete, unless the collector's fail-safe takes it,
or part of it, out (of `Recovers`). What remains for TLC is that these states are reached.
`RoutedOnFailures` shows what the refinement is good for: in MIDDLE and SLOW every
tuple under test or confirmed rests on two failed connections, and the proof looks at
the five actions of `Decision` only.

`VpnDirectProofs` proves, for all sets of processes, entries and rules and every
limit (`KindsDiffer`, `MaxType`, `FaultsType`):

- `TypeCorrect`: `Spec => []TypeOK`, with the bound on the array of entries.
- `SavedEntirely`: `Spec => []AllOrNothing`, provided `"read"` is not among the
  faults (with it the property is false, see above).
- `SyncRepairs`: `Spec => []SoleSyncRepairs`, under the same condition.

`AllOrNothing` says nothing of the way there, so `SaveInv` adds it: a stream is
open only while its process writes (`StreamsClosed`), nobody is beside a command
that runs alone (`NobodyBeside`), and its save has come exactly as far as its
place says, with nothing left over of the temporary files of earlier ones
(`SavedAlone`). `SyncInv` does the same for the sync: ids are held only while they
are used (`IdsHeld`), and behind each removal nothing of its kind is left but what is
in `kept`, although earlier syncs may have died anywhere (`Synced`). `kept` only
excepts what the command itself found and could not, or did not, remove.

`MigrationProofs` proves, for every sequence of distinct scripts, all versions and
all faults (`ManagedType`, `NoneIsNoVersion`, `FaultsType`), all the properties that
`Interrupted` checks:

- `TypeCorrect` (`TypeOK`), `QuietChanges` (`QuietWhileMutating`), `UnverifiedOpen`
  (`UnverifiedStaysOpen`), `ResumedClean` (`ResumesClean`), `StagedIsPromoted`
  (`OnlyStagedIsPromoted`), `StateIsOwn` (`StateOfRunningVersion`).

Their invariants build on each other. `TypeInv` adds to the types at which element a
loop is, which command a phase belongs to and what it may have reported. `QuietInv`
says that the loop of `Pause` has the schedulers before its place off, so that after
the wait nothing runs until a resume. `CleanInv` says that the kinds before the place
of the cleanup are empty, and uses the order of `CleanOrder`: without lazy rules
traffic gets no marks. `SourceInv` ties what is written to what is staged and backed
up. `StateInv` is about what may run again (`MayRun`: an enabled scheduler, a job, or a
scheduler the command is going to resume): it finds state of the sources in
production, and, while promote changes those, of the ones it puts back unless it has
cleared everything. TLC checks all of them on the instance of `Interrupted`.

`HandoverImplemented`: `Migration` implements `Handover`, for all values of the
constants. `Handover` knows neither commands nor loops, backups or faults: sources
are exchanged and state is cleared while nothing runs, and scheduling goes on only
on state that the sources in place have written. The mapping takes `prod` as the
code, `sched` as what is enabled, `job` as what runs, `residue` as the state and
`unrestored` as `broken`; staging, backups, captures and results are not seen. `QuietInv`
gives the pause in which `WriteSource`, `RestoreSource` and `Clean` happen, `StateInv`
the state on which `Resume` may happen. `HandoverKeepsVersionsApart` (in
`HandoverProofs`) shows that these promises suffice for a script to meet only state
of the sources in place, unless a source could once not be restored.

`OneVersion` is the counterpart of the violated run `MixedRollback`, which mixes
versions by a promotion that ends between two of its backups. `BackupsFinish` says that
none does, because a call failed or the controller died. Under it, jobs that run
beside each other are of one version, whatever else fails, dies or is retried, until
a source could not be restored: the backups are the only place where versions get
mixed unnoticed. Its invariant `OneInv` says of what may run again that production and the
backups are each of one version (`AllOfOne`), except while they are being exchanged;
then the part of the loop that is done is. It is used together with `SourceInv` (a
finished loop of backups has saved what production was) and `StateInv` (a
finished loop of restores has put it back).

`SetupProofs` proves, for all sets of processes, interfaces, tables, jobs, rules,
plans, initial routes and faults, and every number of attempts, from the named
assumptions of `Failures`, `Target`, `Cleanup` and `Setup`, all the properties the
run `Setup` checks:

- `TypeCorrect` (`TypeOK`), `SavedTarget` (`SavedTargetRoutes`), `InstalledTarget`
  (`InstalledRoutes`), `OneWay` (`OneWayOut`), `SafetyBeforeRouting` (`SafetyFirst`),
  `ClearedFirst` (`StartsClean`), `NothingLeft` (`FailedLeavesNothing`), `HelperLast`
  (`HelperUntilInstalled`);
- `SelectionSurvives`: `SelectionKept`, provided `"read"` is not among the faults.

Four invariants carry them. `TypeInv` adds to the types what a command at each place
has to set (`GoalFits`) and which objects a phase works on (`PhaseFits`). `RouteInv`
says that every configuration there is, in memory, in the temporary file or in the
file, leads somewhere, which is what makes races on the temporary file harmless for
`SavedTargetRoutes`: routes are only ever added. `InstallInv` follows the
transaction: what is enabled, and what may enable it, in each phase (`Safety`,
`Guarded`), what has been made and
taken back so far (`Made`, `Unmade`), what the cleanup has cleared and why traffic
cannot bring it back, and only a job of an earlier attempt can (`Cleared`), and that a complete installation is
never taken back (`HelperKept`). `ChangeInv` says of commands that they keep to
their places (`Orderly`) and, while no two changes have met, that there is one at a
time and how far it has come (`Change`): the stream is on its own temporary file,
what it renames is what it has in memory, and that has a selection if the file has.
Each property is then one step from these.

Only model-checked is liveness: `FailsOpen`, `Recovers`, `StaleMarksReclaimed` and
`OrphanRulesReclaimed`. They rest on fairness, and with it on `ENABLED`, which are out
of the prover's reach. Every other property of a passing run is stated by a theorem.

## Not modelled

Thresholds and rates are verdicts, texts and logs are left out, duplicates of a
lazy rule are one rule (both detectors may add one, `fast.rsc.tmpl:182`), and the
collector's retries and truncated scans are one scan. `Migration` and `RuntimeGC`
keep the cleanup of `state_cleanup.c` as one step per kind; `Cleanup` has its calls
and `Setup` runs it beside the router. In `Setup` are left out: disabled tables and
routes, and interfaces that come and go during a command (a disabled table named
after Susanin counts as found); entries that time out while they are cleared; the
temporary scripts of the validation, whose names are unique; the settings of
logging, diagnostics and the router's address. `direct_sync`, which an installation
ends with, is modelled in `VpnDirect`. The legacy IP-only lists are never written by
these scripts; they occur where an installation clears them.

Without a module: the API client (sentence framing, length encoding and the drain
after a trap: what the modules need of it is that a call succeeds, or fails applied
or not); `renderer.c` beyond its preconditions, `validate.c` and `apply.c`, which
substitute and compare text; discovery, status, diagnostics, telemetry, router log,
snapshot and fingerprint, which only read; and the bootstrap scripts, which put the
controller's container on the router, or take it off, before there is anything else.

## Plan

1. `RouterOsApi`: length encoding checked against its decoder, sentences, trap
   drain, timeouts.
2. `LazyRules`: creation, deduplication and verification of the rules of a port by
   two detectors at once.
3. Proofs: what only the deployment can rule out, stated as the assumption that rules
   it out, for the races of the table above.
