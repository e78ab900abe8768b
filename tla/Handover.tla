------------------------------ MODULE Handover ------------------------------
(***************************************************************************)
(* What a migration promises of the scripts that run: sources are replaced *)
(* and adaptive state is cleared only while nothing runs, and nothing is   *)
(* let run again on state that other sources have written.                 *)
(*                                                                         *)
(* It names no command, no staged source and no backup, no loop and no     *)
(* call that fails: whatever those do, Migration implements this           *)
(* specification.                                                          *)
(***************************************************************************)
CONSTANTS
    Script,     \* the managed scripts
    Version,    \* what a source may be
    Kind,       \* the kinds of adaptive state
    None        \* no job

VARIABLES
    code,       \* the source of each script
    enabled,    \* the scripts that may be started
    runs,       \* the source each job was started from
    state,      \* by kind, the sources whose jobs wrote what is there
    broken      \* a source could once not be put back

vars == <<code, enabled, runs, state, broken>>

Paused == enabled = {} /\ \A s \in Script : runs[s] = None

\* The state there is was written by the sources there are.
Own == \A k \in Kind : state[k] \subseteq {code[s] : s \in Script}

Init ==
    /\ code \in [Script -> Version]
    /\ enabled \subseteq Script
    /\ runs = [s \in Script |-> None]
    /\ state = [k \in Kind |-> {}]
    /\ broken = FALSE

Run(s) ==
    /\ s \in enabled /\ runs[s] = None
    /\ runs' = [runs EXCEPT ![s] = code[s]]
    /\ UNCHANGED <<code, enabled, state, broken>>

End(s) ==
    /\ runs' = [runs EXCEPT ![s] = None]
    /\ UNCHANGED <<code, enabled, state, broken>>

\* A job writes state, and traffic makes more of what is there.
Write(s, k) ==
    /\ runs[s] # None
    /\ state' = [state EXCEPT ![k] = @ \cup {runs[s]}]
    /\ UNCHANGED <<code, enabled, runs, broken>>

Spread(j, k) ==
    /\ state' = [state EXCEPT ![k] = @ \cup state[j]]
    /\ UNCHANGED <<code, enabled, runs, broken>>

Pause ==
    /\ enabled' \subseteq enabled
    /\ UNCHANGED <<code, runs, state, broken>>

\* In a pause a source is replaced, or is not put back.
Replace(s) ==
    /\ Paused
    /\ \/ \E v \in Version : code' = [code EXCEPT ![s] = v] /\ UNCHANGED broken
       \/ UNCHANGED code /\ broken' = TRUE
    /\ UNCHANGED <<enabled, runs, state>>

\* In a pause state is cleared.
Clear ==
    /\ Paused
    /\ state' \in [Kind -> SUBSET Version]
    /\ \A k \in Kind : state'[k] \subseteq state[k]
    /\ UNCHANGED <<code, enabled, runs, broken>>

\* Scripts may start again on the state of the sources there are.
Resume ==
    /\ Own \/ broken
    /\ enabled' \subseteq Script
    /\ UNCHANGED <<code, runs, state, broken>>

Next ==
    \/ \E s \in Script : Run(s) \/ End(s) \/ Replace(s)
    \/ \E s \in Script, k \in Kind : Write(s, k)
    \/ \E j, k \in Kind : Spread(j, k)
    \/ Pause \/ Clear \/ Resume

Spec == Init /\ [][Next]_vars

=============================================================================
