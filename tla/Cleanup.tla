------------------------------ MODULE Cleanup ------------------------------
(***************************************************************************)
(* Removal of the adaptive state before the data plane is started or       *)
(* replaced: the lazy rules, the lists of the ports, the lists of older    *)
(* releases and the connections that carry an adaptive mark, one kind      *)
(* after the other.  Each kind is looked for, removed object by object     *)
(* with the errors ignored, and looked for again until nothing is found;   *)
(* what was just removed may be shown once more, and traffic goes on.      *)
(* Entries that time out meanwhile only spare it work and are left out.    *)
(*                                                                         *)
(* Of a kind the model keeps whether anything is left.  Migration has the  *)
(* same cleanup as the one step it is for stage and promote.               *)
(***************************************************************************)
EXTENDS Naturals, FiniteSets, Failures

CONSTANT MaxTries   \* attempts at a kind (20)

ASSUME MaxTriesType == MaxTries \in Nat \ {0}

Residue == {"lazy", "lists", "legacy", "marks"}

VARIABLES
    left,       \* the kinds of which something is on the router
    kind,       \* the kind in hand, or how the cleanup ended
    look,       \* what is done about it
    tries       \* attempts so far

cleanVars == <<kind, look, tries>>

CleanupTypeOK ==
    /\ left \subseteq Residue
    /\ kind \in Residue \cup {"idle", "done", "failed"}
    /\ look \in {"inspect", "remove", "verify"}
    /\ tries \in 1..MaxTries

CleanupInit ==
    /\ left \in {{}, Residue}
    /\ kind = "idle" /\ look = "inspect" /\ tries = 1

\* Defect: the marks are cleared while the rules that set them are there.
MarksFirst == [marks |-> "lazy", lazy |-> "lists", lists |-> "legacy",
               legacy |-> "done"]

\* Rules before lists before marks: nothing that is removed is made again.
After == [lazy |-> "lists", lists |-> "legacy", legacy |-> "marks", marks |-> "done"]

First == CHOOSE k \in Residue : \A j \in Residue : After[j] # k

\* Only the live connection table is read again after an error.
Retried(k) == k = "marks"

Cleaning == kind \in Residue

CleanStart ==
    /\ kind' = First
    /\ look' = "inspect" /\ tries' = 1

Turn(k) == kind' = k /\ look' = "inspect" /\ tries' = 1

\* A print shows a kind that is there, and may show one that no longer is.
Shown(k)  == k \in left \/ "stale" \in Faults
Absent(k) == k \notin left

\* A print fails; a kind that is not retried fails with it.
ScanFails ==
    /\ CallFails /\ Cleaning /\ look \in {"inspect", "verify"}
    /\ IF Retried(kind) /\ tries < MaxTries
       THEN tries' = tries + 1 /\ UNCHANGED <<kind, look>>
       ELSE Turn("failed")
    /\ UNCHANGED left

CleanInspect ==
    /\ Cleaning /\ look = "inspect"
    /\ \/ Absent(kind) /\ Turn(After[kind])
       \/ Shown(kind) /\ look' = "remove" /\ tries' = 1 /\ UNCHANGED kind
    /\ UNCHANGED left

\* Every object shown is removed; one may be refused, or be there again.
CleanRemove ==
    /\ Cleaning /\ look = "remove"
    /\ left' = left \ {kind} \/ (CallFails /\ UNCHANGED left)
    /\ look' = "verify"
    /\ UNCHANGED <<kind, tries>>

CleanVerify ==
    /\ Cleaning /\ look = "verify"
    /\ \/ Absent(kind) /\ Turn(After[kind])
       \/ Shown(kind) /\ tries = MaxTries /\ Turn("failed")
       \/ /\ Shown(kind) /\ tries < MaxTries
          /\ look' = "remove" /\ tries' = tries + 1
          /\ UNCHANGED kind
    /\ UNCHANGED left

CleanStep == ScanFails \/ CleanInspect \/ CleanRemove \/ CleanVerify

-----------------------------------------------------------------------------
\* A new connection is marked by a lazy rule, or by a fixed rule that is on and
\* finds it in a list of an older release.
MarkConnection(fixedOn) ==
    /\ {"lazy", "lists"} \subseteq left \/ (fixedOn /\ "legacy" \in left)
    /\ left' = left \cup {"marks"}
    /\ UNCHANGED cleanVars

=============================================================================
