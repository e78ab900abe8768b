----------------------------- MODULE VpnDirect -----------------------------
(***************************************************************************)
(* VPN Direct: the policy file of the controller and the objects that put  *)
(* it into effect on the router.  "direct add", "direct remove" and        *)
(* "direct sync" take no lock, so that two operators, or one of them and   *)
(* the sync at the end of an installation, run side by side; each may die  *)
(* between any two steps.                                                  *)
(*                                                                         *)
(* The temporary file has one name for all.  Its content is written when   *)
(* the stream is closed, to the file the stream was opened on, wherever a  *)
(* rename has put it meanwhile.                                            *)
(***************************************************************************)
EXTENDS Naturals, FiniteSets

CONSTANTS
    Proc,       \* controller processes
    Ip, Domain, \* normalized entries of the two kinds
    Rule,       \* bound: bypass rules on the router
    Max,        \* entries a policy may have (DIRECT_MAX)
    IdsMax,     \* ids one query collects (DIRECT_IDS_MAX)
    Faults      \* what may fail: "api", "disk", "read", "crash"

ASSUME KindsDiffer ==
    Ip \cap Domain = {} /\ Ip \cap Rule = {} /\ Domain \cap Rule = {}
ASSUME MaxType == Max \in Nat /\ IdsMax \in Nat
ASSUME FaultsType == Faults \subseteq {"api", "disk", "read", "crash"}

Entry   == Ip \cup Domain
Object  == Entry \cup Rule
Command == ({"add", "remove"} \X Entry) \cup {<<"sync">>}

\* Defect: room for one entry more than there is.
OneTooMany(policy) == Cardinality(policy) > Max + 1

TooMany(policy) == Cardinality(policy) > Max

VARIABLES
    file,       \* vpn_direct.conf
    tmp,        \* vpn_direct.conf.tmp, and whether there is one
    hasTmp,
    router,     \* list entries, static names and bypass rules in place
    pc,         \* where each process is
    cmd,        \* its command
    db,         \* the policy it has loaded, and perhaps changed
    out,        \* what its stream was opened on: "none", "tmp", "file", or "lost"
    ids,        \* objects it has found and still to remove
    left,       \* entries it has still to install
    success,    \* its last command reported success
    sole,       \* history: no other command has run since it began
    old,        \* history: the policy when it began
    kept        \* history: what it found, alone, and left in place

disk == <<file, tmp, hasTmp, out>>
vars == <<disk, router, kept, pc, cmd, db, ids, left, success, sole, old>>

\* Types; what a command has loaded fits into its array (direct.c:24-27), whatever
\* others wrote to the file.
TypeOK ==
    /\ file \subseteq Entry
    /\ tmp \subseteq Entry /\ hasTmp \in BOOLEAN
    /\ router \subseteq Object
    /\ pc \in [Proc -> {"idle", "load", "open", "write", "rename", "read",
                        "list", "unlist", "names", "unname", "rule", "unrule",
                        "bypass", "install"}]
    /\ cmd \in [Proc -> Command]
    /\ db \in [Proc -> SUBSET Entry]
    /\ \A p \in Proc : ~(Cardinality(db[p]) > Max)
    /\ out \in [Proc -> {"none", "tmp", "file", "lost"}]
    /\ ids \in [Proc -> SUBSET Object]
    /\ left \in [Proc -> SUBSET Entry]
    /\ success \in [Proc -> BOOLEAN]
    /\ sole \in [Proc -> BOOLEAN]
    /\ old \in [Proc -> SUBSET Entry]
    /\ kept \in [Proc -> SUBSET Object]

\* A fresh controller: no policy, nothing on the router.
Init ==
    /\ file = {} /\ tmp = {} /\ hasTmp = FALSE
    /\ router = {}
    /\ pc = [p \in Proc |-> "idle"]
    /\ cmd = [p \in Proc |-> <<"sync">>]
    /\ db = [p \in Proc |-> {}]
    /\ out = [p \in Proc |-> "none"]
    /\ ids = [p \in Proc |-> {}]
    /\ left = [p \in Proc |-> {}]
    /\ success = [p \in Proc |-> FALSE]
    /\ sole = [p \in Proc |-> FALSE]
    /\ old = [p \in Proc |-> {}]
    /\ kept = [p \in Proc |-> {}]

-----------------------------------------------------------------------------
Go(p, phase) == pc' = [pc EXCEPT ![p] = phase]

End(p, report) ==
    /\ Go(p, "idle")
    /\ success' = [success EXCEPT ![p] = report]
    /\ db' = [db EXCEPT ![p] = {}]
    /\ ids' = [ids EXCEPT ![p] = {}]
    /\ left' = [left EXCEPT ![p] = {}]

local   == <<db, ids, left, success>>
history == <<cmd, sole, old>>

Begin(p, c) ==
    /\ pc[p] = "idle"
    /\ cmd' = [cmd EXCEPT ![p] = c]
    /\ success' = [success EXCEPT ![p] = FALSE]
    /\ sole' = [q \in Proc |-> q = p /\ \A r \in Proc : pc[r] = "idle"]
    /\ old' = [q \in Proc |-> IF q = p THEN file ELSE {}]
    /\ kept' = [q \in Proc |-> {}]
    /\ Go(p, IF c[1] = "sync" THEN "read" ELSE "load")
    /\ UNCHANGED <<disk, router, db, ids, left>>

\* The policy a command leads to.
Wanted(c, policy) == IF c[1] = "add" THEN policy \cup {c[2]}
                     ELSE IF c[1] = "remove" THEN policy \ {c[2]}
                     ELSE policy

\* What loading it finds: a file that cannot be opened counts as empty.
Seen == {file} \cup (IF "read" \in Faults THEN {{}} ELSE {})

\* An entry that is there is only synchronized; one that is not cannot be removed.
Load(p) ==
    /\ pc[p] = "load"
    /\ \E policy \in Seen :
        LET wanted == Wanted(cmd[p], policy) IN
        \/ /\ ~TooMany(policy) /\ wanted # policy /\ ~TooMany(wanted)
           /\ db' = [db EXCEPT ![p] = wanted]
           /\ Go(p, "open") /\ UNCHANGED <<ids, left, success>>
        \/ /\ ~TooMany(policy) /\ wanted = policy /\ cmd[p][1] = "add"
           /\ Go(p, "read") /\ UNCHANGED local
        \/ /\ \/ TooMany(policy) \/ TooMany(wanted)
              \/ wanted = policy /\ cmd[p][1] = "remove"
           /\ End(p, FALSE)
    /\ UNCHANGED <<disk, router, kept, history>>

\* Defect: the stream is opened to append to what a crash may have left.
Appending(content) == content

\* What a stream starts from.
Truncated(content) == {}

\* Opening truncates what is there, also when it is another process's.
OpenTmp(p) ==
    /\ pc[p] = "open"
    /\ \/ /\ tmp' = Truncated(tmp) /\ hasTmp' = TRUE
          /\ out' = [out EXCEPT ![p] = "tmp"]
          /\ Go(p, "write") /\ UNCHANGED <<file, local>>
       \/ "disk" \in Faults /\ End(p, FALSE) /\ UNCHANGED disk
    /\ UNCHANGED <<router, kept, history>>

\* A stream writes over what another one wrote there; of a longer content the
\* tail remains.
Over(policy, under) == {policy \cup rest : rest \in SUBSET under}

\* The temporary file goes; streams on it write to nowhere.
DropTmp(p) ==
    /\ tmp' = {} /\ hasTmp' = FALSE
    /\ out' = [q \in Proc |-> IF q = p THEN "none"
                              ELSE IF out[q] = "tmp" THEN "lost" ELSE out[q]]

\* A failed close may have written part of the content.
CloseTmp(p) ==
    /\ pc[p] = "write"
    /\ \/ /\ tmp' \in IF out[p] = "tmp" THEN Over(db[p], tmp) ELSE {tmp}
          /\ file' \in IF out[p] = "file" THEN Over(db[p], file) ELSE {file}
          /\ UNCHANGED hasTmp
          /\ out' = [out EXCEPT ![p] = "none"]
          /\ Go(p, "rename") /\ UNCHANGED local
       \/ /\ "disk" \in Faults
          /\ \E part \in SUBSET db[p] :
                file' \in IF out[p] = "file" THEN Over(part, file) ELSE {file}
          /\ DropTmp(p) /\ End(p, FALSE)
    /\ UNCHANGED <<router, kept, history>>

\* Whatever has the name is renamed; the streams on it follow, those on the
\* replaced policy write to nowhere.
Rename(p) ==
    /\ pc[p] = "rename"
    /\ \/ /\ hasTmp
          /\ file' = tmp /\ tmp' = {} /\ hasTmp' = FALSE
          /\ out' = [q \in Proc |-> IF out[q] = "tmp" THEN "file"
                                    ELSE IF out[q] = "file" THEN "lost" ELSE out[q]]
          /\ Go(p, "read") /\ UNCHANGED local
       \/ ~hasTmp /\ End(p, FALSE) /\ UNCHANGED disk
       \/ "disk" \in Faults /\ DropTmp(p) /\ End(p, FALSE) /\ UNCHANGED file
    /\ UNCHANGED <<router, kept, history>>

-----------------------------------------------------------------------------
(* direct_sync: everything of ours is removed, then the policy is installed. *)

ReadPolicy(p) ==
    /\ pc[p] = "read"
    /\ \E policy \in Seen :
        IF TooMany(policy) THEN End(p, FALSE)
        ELSE /\ db' = [db EXCEPT ![p] = policy]
             /\ Go(p, "list") /\ UNCHANGED <<ids, left, success>>
    /\ UNCHANGED <<disk, router, kept, history>>

\* A query or an add fails: the sync ends.
ApiFails(p) ==
    /\ "api" \in Faults
    /\ pc[p] \in {"list", "names", "rule", "bypass", "install"}
    /\ End(p, FALSE)
    /\ UNCHANGED <<disk, router, kept, history>>

\* Defect: the rule of an earlier sync is not looked for.
RuleKept == [list |-> Ip, names |-> Domain, rule |-> {}]

\* What the three queries look for.
Matching == [list |-> Ip, names |-> Domain, rule |-> Rule]

After == [list |-> "unlist", unlist |-> "names", names |-> "unname",
          unname |-> "rule", rule |-> "unrule", unrule |-> "bypass"]

\* A query takes no more ids than it has room for, whatever it finds.
Collected(found) ==
    IF Cardinality(found) <= IdsMax THEN {found}
    ELSE {got \in SUBSET found : Cardinality(got) = IdsMax}

\* Objects stay on the router, for the history of a command that runs alone.
Leave(p, objects) ==
    kept' = IF sole[p] THEN [kept EXCEPT ![p] = @ \cup objects] ELSE kept

Find(p) ==
    /\ pc[p] \in DOMAIN Matching
    /\ LET found == router \cap Matching[pc[p]] IN
       \E got \in Collected(found) :
          /\ ids' = [ids EXCEPT ![p] = got]
          /\ Leave(p, found \ got)
    /\ Go(p, After[pc[p]])
    /\ UNCHANGED <<disk, router, db, left, success, history>>

\* An object has an id of its own: once it is gone, the ids others hold name
\* nothing, also when an equal object is added later.
Remove(p, o) ==
    /\ o \in ids[p]
    /\ router' = router \ {o}
    /\ ids' = [q \in Proc |-> ids[q] \ {o}]
    /\ kept' = [q \in Proc |-> kept[q] \ {o}]
    /\ UNCHANGED <<disk, pc, db, left, success, history>>

\* A removal fails and its result is ignored: the sync goes on to the next id.  When
\* it is the link that broke, every removal left fails, and so does the query after
\* them; an empty policy has none.
Refuse(p, o) ==
    /\ "api" \in Faults /\ o \in ids[p]
    /\ ids' = [ids EXCEPT ![p] = @ \ {o}]
    /\ Leave(p, {o})
    /\ UNCHANGED <<disk, router, pc, db, left, success, history>>

RemoveEnd(p) ==
    /\ pc[p] \in {"unlist", "unname", "unrule"} /\ ids[p] = {}
    /\ IF pc[p] = "unrule" /\ db[p] = {} THEN End(p, TRUE)
       ELSE Go(p, After[pc[p]]) /\ UNCHANGED local
    /\ UNCHANGED <<disk, router, kept, history>>

\* The choice of a free rule means nothing.
AddBypass(p) ==
    /\ pc[p] = "bypass" /\ Rule \ router # {}
    /\ router' = router \cup {CHOOSE r \in Rule : r \notin router}
    /\ left' = [left EXCEPT ![p] = db[p]]
    /\ Go(p, "install")
    /\ UNCHANGED <<disk, kept, db, ids, success, history>>

\* RouterOS refuses an entry that exists.
Install(p, e) ==
    /\ pc[p] = "install" /\ e \in left[p]
    /\ IF e \in router THEN End(p, FALSE) /\ UNCHANGED router
       ELSE /\ router' = router \cup {e}
            /\ IF left[p] = {e} THEN End(p, TRUE)
               ELSE /\ left' = [left EXCEPT ![p] = @ \ {e}]
                    /\ UNCHANGED <<pc, db, ids, success>>
    /\ UNCHANGED <<disk, kept, history>>

\* The process dies: what its stream had buffered is gone.
Crash(p) ==
    /\ "crash" \in Faults /\ pc[p] # "idle"
    /\ End(p, FALSE)
    /\ out' = [out EXCEPT ![p] = "none"]
    /\ UNCHANGED <<file, tmp, hasTmp, router, kept, history>>

Run(p) ==
    \/ \E c \in Command : Begin(p, c)
    \/ Load(p) \/ OpenTmp(p) \/ CloseTmp(p) \/ Rename(p)
    \/ ReadPolicy(p) \/ ApiFails(p)
    \/ Find(p)
    \/ \E o \in Object : Remove(p, o) \/ Refuse(p, o)
    \/ RemoveEnd(p)
    \/ AddBypass(p) \/ \E e \in Entry : Install(p, e)
    \/ Crash(p)

Next == \E p \in Proc : Run(p)

Spec == Init /\ [][Next]_vars

-----------------------------------------------------------------------------
(* What VPN Direct promises.                                                *)

\* direct_add, direct_remove: a command that runs alone changes the policy entirely
\* or not at all, at every moment, even when it dies; whatever earlier ones left
\* behind.
AllOrNothing ==
    \A p \in Proc : sole[p] => file \in {old[p], Wanted(cmd[p], old[p])}

\* direct_sync: a command that ran alone and reports success has put exactly the
\* policy of the file into effect, and a policy with one bypass rule, whatever
\* races, failures and crashes came before it.  What it found and left in place,
\* because RouterOS refused to remove it or the query had no room for it, is the one
\* thing that may be there besides; the report does not tell of it.
SoleSyncRepairs ==
    \A p \in Proc : sole[p] /\ success[p] =>
        /\ (router \cap Entry) \ kept[p] = file
        /\ IF file = {} THEN router \cap Rule \subseteq kept[p]
           ELSE Cardinality((router \cap Rule) \ kept[p]) = 1

=============================================================================
