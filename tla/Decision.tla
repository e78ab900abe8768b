------------------------------ MODULE Decision ------------------------------
(***************************************************************************)
(* What adaptive routing promises the traffic, without the lists, jobs and *)
(* timers that keep the promise: a tuple is put under test on failures,    *)
(* tested connections are counted for it, and it is confirmed on enough of *)
(* them.  Anything decided may be forgotten at any moment.                 *)
(*                                                                         *)
(* It names no detector, no evidence list, no timeout and no collector:    *)
(* whatever those do, DataPlane implements this specification.             *)
(***************************************************************************)
EXTENDS Naturals

CONSTANTS
    Tuple,      \* what a decision is about
    Conn,       \* connections
    TupleOf,    \* the tuple a connection addresses
    Profile     \* how much evidence a decision takes

VARIABLES
    test,       \* tuples under test
    ok,         \* tuples confirmed
    failed,     \* the failures a tuple was put under test for
    good,       \* the successful tests counted for it
    rechecked   \* tuples whose re-check of the DIRECT path was closed

vars == <<test, ok, failed, good, rechecked>>

Two(t, C) == \E x, y \in C : x # y /\ TupleOf[x] = t /\ TupleOf[y] = t

\* How much evidence the profile takes to decide.
Enough(t, C) == Profile # "fast" => Two(t, C)
Failing(t)   == Enough(t, failed[t])

Init ==
    /\ test = {} /\ ok = {} /\ rechecked = {}
    /\ failed = [t \in Tuple |-> {}]
    /\ good = [t \in Tuple |-> {}]

\* A tuple is put under test.
Suspect(t) ==
    /\ test' = test \cup {t}
    /\ \E C \in SUBSET Conn : Enough(t, C) /\ failed' = [failed EXCEPT ![t] = C]
    /\ UNCHANGED <<ok, good, rechecked>>

\* A first connection of a tuple that failed works through the target.  In SLOW
\* DIRECT has to fail once more from then on.
Promising(t, c) ==
    /\ Profile # "fast" /\ Failing(t)
    /\ TupleOf[c] = t
    /\ good' = [good EXCEPT ![t] = {c}]
    /\ rechecked' = IF Profile = "slow" THEN rechecked \ {t} ELSE rechecked
    /\ UNCHANGED <<test, ok, failed>>

\* DIRECT failed once more.
Recheck(t) ==
    /\ Profile = "slow" /\ Failing(t)
    /\ rechecked' = rechecked \cup {t}
    /\ UNCHANGED <<test, ok, failed, good>>

\* A connection works through the target and the tuple is confirmed.
Confirm(t, c) ==
    /\ TupleOf[c] = t
    /\ good' = [good EXCEPT ![t] = IF Profile = "fast" THEN {c} ELSE @ \cup {c}]
    /\ Failing(t)
    /\ Enough(t, good'[t])
    /\ Profile = "slow" => t \in rechecked
    /\ ok' = ok \cup {t}
    /\ test' = test \ {t}
    /\ UNCHANGED <<failed, rechecked>>

\* A test fails or is suspended, a decision times out, the target goes down, a
\* re-check is opened again.
Forget ==
    /\ test' \subseteq test /\ ok' \subseteq ok /\ rechecked' \subseteq rechecked
    /\ UNCHANGED <<failed, good>>

Next ==
    \/ \E t \in Tuple : Suspect(t) \/ Recheck(t)
    \/ \E t \in Tuple, c \in Conn : Promising(t, c) \/ Confirm(t, c)
    \/ Forget

Spec == Init /\ [][Next]_vars

=============================================================================
