------------------------------ MODULE Failures ------------------------------
(* What may go wrong while a command works.                                 *)

CONSTANT
    Faults  \* a call to the router ("api"), a print that still shows what was
            \* removed ("stale"), writing a file ("disk"), opening it to read
            \* ("read"), the controller ("crash")

ASSUME FaultsType == Faults \subseteq {"api", "stale", "disk", "read", "crash"}

CallFails == "api" \in Faults

=============================================================================
