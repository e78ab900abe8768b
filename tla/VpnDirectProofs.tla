-------------------------- MODULE VpnDirectProofs --------------------------
(***************************************************************************)
(* Theorems about VpnDirect: types and the room in the array of entries;   *)
(* that a command alone replaces the policy entirely or not at all; and    *)
(* that its sync, when it succeeds, has put exactly that policy into       *)
(* effect.                                                                 *)
(***************************************************************************)
EXTENDS VpnDirect, FiniteSetTheorems, TLAPS

\* A stream is open while its process is writing, and only then.
StreamsClosed == \A p \in Proc : pc[p] # "write" => out[p] = "none"

\* Who runs alone has nobody beside it.
NobodyBeside ==
    \A p \in Proc : sole[p] => \A q \in Proc : q # p => pc[q] = "idle"

\* How far a command that runs alone has brought the policy.
Saved(p) ==
    LET wanted == Wanted(cmd[p], old[p]) IN
    /\ file \in {old[p], wanted}
    /\ pc[p] \in {"load", "open", "write", "rename"} => file = old[p]
    /\ pc[p] \in {"open", "write"} => db[p] = wanted
    /\ pc[p] = "write" => out[p] = "tmp" /\ hasTmp /\ tmp = {}
    /\ pc[p] = "rename" => hasTmp /\ tmp = wanted

SavedAlone == \A p \in Proc : sole[p] => Saved(p)

\* The inductive invariant behind AllOrNothing: save of direct.c, step by step,
\* with nobody else at the files.
SaveInv == TypeOK /\ StreamsClosed /\ NobodyBeside /\ SavedAlone

-----------------------------------------------------------------------------
(* Types.                                                                   *)

\* A command that is over leaves typed variables.
LEMMA EndTyped ==
    ASSUME TypeOK, NEW p \in Proc, NEW report \in BOOLEAN, End(p, report)
    PROVE  /\ pc' \in [Proc -> {"idle", "load", "open", "write", "rename", "read",
                        "list", "unlist", "names", "unname", "rule", "unrule",
                        "bypass", "install"}]
           /\ success' \in [Proc -> BOOLEAN]
           /\ db' \in [Proc -> SUBSET Entry]
           /\ \A q \in Proc : ~(Cardinality(db'[q]) > Max)
           /\ ids' \in [Proc -> SUBSET Object]
           /\ left' \in [Proc -> SUBSET Entry]
<1>1. ~(Cardinality({}) > Max)
  BY FS_EmptySet, MaxType
<1>2. db' \in [Proc -> SUBSET Entry] /\ \A q \in Proc : ~(Cardinality(db'[q]) > Max)
  BY <1>1 DEF End, TypeOK
<1> QED
  BY <1>2 DEF End, Go, TypeOK

\* What a command wants of a policy of entries are entries.
LEMMA WantedTyped ==
    ASSUME NEW c \in Command, NEW policy \in SUBSET Entry
    PROVE  Wanted(c, policy) \in SUBSET Entry
<1>1. CASE c \in {"add", "remove"} \X Entry
  BY <1>1 DEF Wanted
<1>2. CASE c = <<"sync">>
  BY <1>2 DEF Wanted
<1> QED
  BY <1>1, <1>2 DEF Command

\* Loading finds entries.
LEMMA SeenTyped == TypeOK => Seen \subseteq SUBSET Entry
  BY DEF TypeOK, Seen

\* The fresh controller is of its type.
LEMMA InitTyped == Init => TypeOK
<1> SUFFICES ASSUME Init PROVE TypeOK
  OBVIOUS
<1>1. ~(Cardinality({}) > Max)
  BY FS_EmptySet, MaxType
<1> QED
  BY <1>1 DEF Init, TypeOK, Command

\* Every step of a process keeps the types.
LEMMA RunTyped ==
    ASSUME TypeOK, NEW p \in Proc, Run(p) PROVE TypeOK'
<1> USE DEF disk, local, history
<1>1. ASSUME NEW c \in Command, Begin(p, c) PROVE TypeOK'
  BY <1>1 DEF Begin, Go, TypeOK
<1>2. CASE Load(p)
  <2> PICK policy \in Seen :
        \/ /\ ~TooMany(Wanted(cmd[p], policy))
           /\ db' = [db EXCEPT ![p] = Wanted(cmd[p], policy)]
           /\ Go(p, "open") /\ UNCHANGED <<ids, left, success>>
        \/ Go(p, "read") /\ UNCHANGED local
        \/ End(p, FALSE)
    BY <1>2 DEF Load
  <2>1. cmd[p] \in Command /\ policy \in SUBSET Entry
    BY SeenTyped DEF TypeOK
  <2>2. Wanted(cmd[p], policy) \in SUBSET Entry
    BY <2>1, WantedTyped
  <2>3. UNCHANGED <<disk, router, kept, history>>
    BY <1>2 DEF Load
  <2>4. CASE ~TooMany(Wanted(cmd[p], policy)) /\ Go(p, "open")
             /\ db' = [db EXCEPT ![p] = Wanted(cmd[p], policy)]
             /\ UNCHANGED <<ids, left, success>>
    BY <2>2, <2>3, <2>4 DEF TooMany, Go, TypeOK
  <2>5. CASE Go(p, "read") /\ UNCHANGED local
    BY <2>3, <2>5 DEF Go, TypeOK
  <2>6. CASE End(p, FALSE)
    BY <2>3, <2>6, EndTyped DEF TypeOK
  <2> QED
    BY <2>4, <2>5, <2>6
<1>3. CASE OpenTmp(p)
  <2>1. CASE End(p, FALSE)
    BY <1>3, <2>1, EndTyped DEF OpenTmp, Truncated, TypeOK
  <2>2. CASE Go(p, "write") /\ UNCHANGED local
    BY <1>3, <2>2 DEF OpenTmp, Truncated, Go, TypeOK
  <2> QED
    BY <1>3, <2>1, <2>2 DEF OpenTmp
<1>4. CASE CloseTmp(p)
  <2>1. \A under \in SUBSET Entry, part \in SUBSET db[p] :
           Over(part, under) \subseteq SUBSET Entry
    BY DEF Over, TypeOK
  <2>2. CASE End(p, FALSE) /\ DropTmp(p)
    <3>1. file' \in SUBSET Entry
      BY <1>4, <2>1 DEF CloseTmp, TypeOK
    <3> QED
      BY <1>4, <2>2, <3>1, EndTyped DEF CloseTmp, DropTmp, TypeOK
  <2>3. CASE Go(p, "rename") /\ UNCHANGED local /\ UNCHANGED hasTmp
             /\ out' = [out EXCEPT ![p] = "none"]
    <3>1. file' \in SUBSET Entry /\ tmp' \in SUBSET Entry
      BY <1>4, <2>1, <2>3 DEF CloseTmp, DropTmp, TypeOK
    <3> QED
      BY <1>4, <2>3, <3>1 DEF CloseTmp, Go, TypeOK
  <2> QED
    BY <1>4, <2>2, <2>3 DEF CloseTmp
<1>5. CASE Rename(p)
  <2>1. CASE End(p, FALSE)
    <3>1. /\ file' \in SUBSET Entry /\ tmp' \in SUBSET Entry /\ hasTmp' \in BOOLEAN
          /\ out' \in [Proc -> {"none", "tmp", "file", "lost"}]
      BY <1>5 DEF Rename, DropTmp, TypeOK
    <3> QED
      BY <1>5, <2>1, <3>1, EndTyped DEF Rename, TypeOK
  <2>2. CASE Go(p, "read") /\ UNCHANGED local
    BY <1>5, <2>2 DEF Rename, DropTmp, Go, TypeOK
  <2> QED
    BY <1>5, <2>1, <2>2 DEF Rename
<1>6. CASE ReadPolicy(p)
  <2> PICK policy \in Seen :
        \/ End(p, FALSE)
        \/ /\ ~TooMany(policy) /\ db' = [db EXCEPT ![p] = policy]
           /\ Go(p, "list") /\ UNCHANGED <<ids, left, success>>
    BY <1>6 DEF ReadPolicy
  <2>1. policy \in SUBSET Entry
    BY SeenTyped
  <2>2. UNCHANGED <<disk, router, kept, history>>
    BY <1>6 DEF ReadPolicy
  <2>3. CASE End(p, FALSE)
    BY <2>2, <2>3, EndTyped DEF TypeOK
  <2>4. CASE /\ ~TooMany(policy) /\ db' = [db EXCEPT ![p] = policy]
             /\ Go(p, "list") /\ UNCHANGED <<ids, left, success>>
    BY <2>1, <2>2, <2>4 DEF TooMany, Go, TypeOK
  <2> QED
    BY <2>3, <2>4
<1>7. CASE ApiFails(p)
  BY <1>7, EndTyped DEF ApiFails, TypeOK
<1>8. CASE Find(p)
  <2> DEFINE found == router \cap Matching[pc[p]]
  <2> PICK got \in SUBSET found :
        ids' = [ids EXCEPT ![p] = got] /\ Leave(p, found \ got)
    BY <1>8 DEF Find, Collected
  <2>0. found \subseteq router
    OBVIOUS
  <2> HIDE DEF found
  <2>1. kept' \in [Proc -> SUBSET Object] /\ ids' \in [Proc -> SUBSET Object]
    BY <2>0 DEF Leave, TypeOK
  <2>2. UNCHANGED <<disk, router, cmd, db, left, success, sole, old>>
    BY <1>8 DEF Find
  <2> QED
    BY <1>8, <2>1, <2>2 DEF Find, Matching, After, Go, TypeOK
<1>9. ASSUME NEW o \in Object, Remove(p, o) PROVE TypeOK'
  BY <1>9 DEF Remove, TypeOK
<1>14. ASSUME NEW o \in Object, Refuse(p, o) PROVE TypeOK'
  BY <1>14 DEF Refuse, Leave, TypeOK
<1>10. CASE RemoveEnd(p)
  <2>1. ASSUME NEW r \in BOOLEAN, End(p, r) PROVE TypeOK'
    BY <1>10, <2>1, EndTyped DEF RemoveEnd, TypeOK
  <2>2. CASE Go(p, After[pc[p]]) /\ UNCHANGED local
    BY <1>10, <2>2 DEF RemoveEnd, After, Go, TypeOK
  <2>3. (pc[p] = "unrule" /\ db[p] = {}) \in BOOLEAN
    OBVIOUS
  <2> QED
    BY <1>10, <2>1, <2>2, <2>3 DEF RemoveEnd
<1>11. CASE AddBypass(p)
  BY <1>11 DEF AddBypass, Go, TypeOK, Object
<1>12. ASSUME NEW e \in Entry, Install(p, e) PROVE TypeOK'
  <2>1. CASE End(p, FALSE) /\ UNCHANGED router
    BY <1>12, <2>1, EndTyped DEF Install, TypeOK
  <2>2. CASE End(p, TRUE) /\ router' = router \cup {e}
    BY <1>12, <2>2, EndTyped DEF Install, TypeOK, Object
  <2>3. CASE /\ router' = router \cup {e}
             /\ left' = [left EXCEPT ![p] = @ \ {e}]
             /\ UNCHANGED <<pc, db, ids, success>>
    BY <1>12, <2>3 DEF Install, TypeOK, Object
  <2> QED
    BY <1>12, <2>1, <2>2, <2>3 DEF Install
<1>13. CASE Crash(p)
  BY <1>13, EndTyped DEF Crash, TypeOK
<1> QED
  BY <1>1, <1>2, <1>3, <1>4, <1>5, <1>6, <1>7, <1>8, <1>9, <1>10, <1>11, <1>12, <1>13,
     <1>14 DEF Run

\* Every variable keeps its type, and no command ever holds more entries than the
\* array of direct.c:24-27 has room for, whatever other processes write.
THEOREM TypeCorrect == Spec => []TypeOK
<1>1. TypeOK /\ [Next]_vars => TypeOK'
  <2> SUFFICES ASSUME TypeOK, [Next]_vars PROVE TypeOK'
    OBVIOUS
  <2>1. CASE Next
    BY <2>1, RunTyped DEF Next
  <2>2. CASE UNCHANGED vars
    BY <2>2 DEF vars, disk, TypeOK
  <2> QED
    BY <2>1, <2>2
<1> QED
  BY <1>1, InitTyped, PTL DEF Spec

-----------------------------------------------------------------------------
(* All or nothing.                                                          *)

\* Work is any step of a command but its beginning: it leaves the history and
\* the other processes' places alone, and an idle process does nothing.
LEMMA WorkIsLocal ==
    ASSUME TypeOK, NEW p \in Proc, Run(p), ~ \E c \in Command : Begin(p, c)
    PROVE  /\ UNCHANGED history
           /\ \A q \in Proc : q # p => pc'[q] = pc[q]
           /\ pc[p] # "idle" \/ UNCHANGED <<disk, pc, db>>
<1> USE DEF disk, local, history, End, Go, TypeOK
<1>1. CASE Load(p)
  BY <1>1 DEF Load
<1>2. CASE OpenTmp(p)
  BY <1>2 DEF OpenTmp
<1>3. CASE CloseTmp(p)
  BY <1>3 DEF CloseTmp
<1>4. CASE Rename(p)
  BY <1>4 DEF Rename
<1>5. CASE ReadPolicy(p)
  BY <1>5 DEF ReadPolicy
<1>6. CASE ApiFails(p)
  BY <1>6 DEF ApiFails
<1>7. CASE Find(p)
  BY <1>7 DEF Find, Matching
<1>8. ASSUME NEW o \in Object, Remove(p, o)
      PROVE  UNCHANGED <<disk, pc, db>> /\ UNCHANGED history
  BY <1>8 DEF Remove
<1>13. ASSUME NEW o \in Object, Refuse(p, o)
       PROVE  UNCHANGED <<disk, pc, db>> /\ UNCHANGED history
  BY <1>13 DEF Refuse
<1>9. CASE RemoveEnd(p)
  BY <1>9 DEF RemoveEnd
<1>10. CASE AddBypass(p)
  BY <1>10 DEF AddBypass
<1>11. ASSUME NEW e \in Entry, Install(p, e)
       PROVE  /\ UNCHANGED history
              /\ \A q \in Proc : q # p => pc'[q] = pc[q]
              /\ pc[p] # "idle"
  BY <1>11 DEF Install
<1>12. CASE Crash(p)
  BY <1>12 DEF Crash
<1> QED
  BY <1>1, <1>2, <1>3, <1>4, <1>5, <1>6, <1>7, <1>8, <1>9, <1>10, <1>11, <1>12, <1>13
  DEF Run

\* A command that begins knows the policy it begins with, and whether it is alone.
LEMMA BeginKeeps ==
    ASSUME TypeOK, StreamsClosed, NEW p \in Proc, NEW c \in Command, Begin(p, c)
    PROVE  StreamsClosed' /\ NobodyBeside' /\ SavedAlone'
<1>1. StreamsClosed'
  BY DEF Begin, Go, StreamsClosed, TypeOK, disk
<1>2. \A r \in Proc : sole'[r] => r = p /\ \A q \in Proc : pc[q] = "idle"
  BY DEF Begin
<1>3. NobodyBeside'
  BY <1>2 DEF NobodyBeside, Begin, Go, TypeOK
<1>4. /\ file' = old'[p]
      /\ pc'[p] \in {"load", "read"}
  BY DEF Begin, Go, TypeOK, disk
<1>5. Saved(p)'
  BY <1>4 DEF Saved
<1> QED
  BY <1>1, <1>2, <1>3, <1>5 DEF SavedAlone

\* A stream is open only while its process writes: every way out of that closes it.
LEMMA StreamsKept ==
    ASSUME TypeOK, StreamsClosed, NEW p \in Proc, Run(p) PROVE StreamsClosed'
<1> USE DEF disk, local, history, End, Go, TypeOK, StreamsClosed
<1>1. ASSUME NEW c \in Command, Begin(p, c) PROVE StreamsClosed'
  BY <1>1, BeginKeeps
<1>2. CASE Load(p)
  BY <1>2 DEF Load
<1>3. CASE OpenTmp(p)
  BY <1>3 DEF OpenTmp
<1>4. CASE CloseTmp(p)
  BY <1>4 DEF CloseTmp, DropTmp
<1>5. CASE Rename(p)
  BY <1>5 DEF Rename, DropTmp
<1>6. CASE ReadPolicy(p)
  BY <1>6 DEF ReadPolicy
<1>7. CASE ApiFails(p)
  BY <1>7 DEF ApiFails
<1>8. CASE Find(p)
  BY <1>8 DEF Find, Matching, After
<1>9. ASSUME NEW o \in Object, Remove(p, o) PROVE StreamsClosed'
  BY <1>9 DEF Remove
<1>14. ASSUME NEW o \in Object, Refuse(p, o) PROVE StreamsClosed'
  BY <1>14 DEF Refuse
<1>10. CASE RemoveEnd(p)
  BY <1>10 DEF RemoveEnd, After
<1>11. CASE AddBypass(p)
  BY <1>11 DEF AddBypass
<1>12. ASSUME NEW e \in Entry, Install(p, e) PROVE StreamsClosed'
  BY <1>12 DEF Install
<1>13. CASE Crash(p)
  BY <1>13 DEF Crash
<1> QED
  BY <1>1, <1>2, <1>3, <1>4, <1>5, <1>6, <1>7, <1>8, <1>9, <1>10, <1>11, <1>12, <1>13,
     <1>14 DEF Run

\* A process that runs alone brings its own save one step further.  A file that
\* cannot be opened is excluded: it counts as an empty policy.
LEMMA SaveGoesOn ==
    ASSUME "read" \notin Faults, SaveInv, NEW p \in Proc, sole[p], Run(p),
           ~ \E c \in Command : Begin(p, c)
    PROVE  Saved(p)'
<1> DEFINE wanted == Wanted(cmd[p], old[p])
<1>1. /\ TypeOK /\ Saved(p)
      /\ cmd'[p] = cmd[p] /\ old'[p] = old[p]
      /\ wanted' = wanted
  BY WorkIsLocal DEF SaveInv, SavedAlone, history, Wanted
<1>a. ASSUME file' \in {old[p], wanted},
             pc'[p] \notin {"load", "open", "write", "rename"}
      PROVE  Saved(p)'
  BY <1>1, <1>a DEF Saved
<1>b. pc[p] \in {"load", "open", "write", "rename"} => file = old[p]
  BY <1>1 DEF Saved
<1>c. file \in {old[p], wanted}
  BY <1>1 DEF Saved
<1> HIDE DEF wanted
<1>2. CASE Load(p)
  <2>1. file = old[p] /\ file' = file
    BY <1>2, <1>b DEF Load, disk
  <2>2. Seen = {file}
    BY DEF Seen
  <2>3. CASE pc'[p] = "open" /\ db'[p] = wanted
    BY <1>1, <2>1, <2>3 DEF Saved, wanted
  <2>4. CASE pc'[p] \in {"read", "idle"}
    BY <1>a, <2>1, <2>4
  <2> QED
    BY <1>1, <1>2, <2>1, <2>2, <2>3, <2>4 DEF Load, End, Go, TypeOK, wanted
<1>3. CASE OpenTmp(p)
  <2>1. file' = file /\ file = old[p] /\ db[p] = wanted
    BY <1>1, <1>3, <1>b DEF OpenTmp, disk, Saved, wanted
  <2>2. CASE Go(p, "write")
    <3>1. /\ pc'[p] = "write" /\ db'[p] = wanted
          /\ out'[p] = "tmp" /\ hasTmp' /\ tmp' = {}
      BY <1>1, <1>3, <2>1, <2>2 DEF OpenTmp, Truncated, End, Go, local, TypeOK
    <3> QED
      BY <1>1, <2>1, <3>1 DEF Saved, wanted
  <2>3. CASE End(p, FALSE)
    BY <1>1, <1>a, <2>1, <2>3 DEF End, Go, TypeOK
  <2> QED
    BY <1>3, <2>2, <2>3 DEF OpenTmp
<1>4. CASE CloseTmp(p)
  <2>1. file = old[p] /\ db[p] = wanted /\ out[p] = "tmp" /\ hasTmp /\ tmp = {}
    BY <1>1, <1>4, <1>b DEF CloseTmp, Saved, wanted
  <2>2. file' = file
    BY <1>4, <2>1 DEF CloseTmp
  <2>3. CASE End(p, FALSE)
    BY <1>1, <1>a, <2>1, <2>2, <2>3 DEF End, Go, TypeOK
  <2>4. CASE Go(p, "rename") /\ UNCHANGED hasTmp /\ tmp' \in Over(db[p], tmp)
    <3>1. pc'[p] = "rename" /\ hasTmp' /\ tmp' = wanted
      BY <1>1, <2>1, <2>4 DEF Go, Over, TypeOK
    <3> QED
      BY <1>1, <2>1, <2>2, <3>1 DEF Saved, wanted
  <2> QED
    BY <1>4, <2>1, <2>3, <2>4 DEF CloseTmp
<1>5. CASE Rename(p)
  <2>1. file = old[p] /\ tmp = wanted
    BY <1>1, <1>5, <1>b DEF Rename, Saved, wanted
  <2>2. file' \in {file, tmp} /\ pc'[p] \in {"read", "idle"}
    BY <1>1, <1>5 DEF Rename, DropTmp, End, Go, disk, TypeOK
  <2> QED
    BY <1>a, <2>1, <2>2
<1>6. CASE ReadPolicy(p)
  BY <1>1, <1>6, <1>a, <1>c DEF ReadPolicy, End, Go, disk, TypeOK
<1>7. CASE ApiFails(p)
  BY <1>1, <1>7, <1>a, <1>c DEF ApiFails, End, Go, disk, TypeOK
<1>8. CASE Find(p)
  BY <1>1, <1>8, <1>a, <1>c DEF Find, Matching, After, Go, disk, TypeOK
<1>9. ASSUME NEW o \in Object, Remove(p, o) PROVE Saved(p)'
  BY <1>1, <1>9 DEF Remove, Saved, disk, wanted
<1>14. ASSUME NEW o \in Object, Refuse(p, o) PROVE Saved(p)'
  BY <1>1, <1>14 DEF Refuse, Saved, disk, wanted
<1>10. CASE RemoveEnd(p)
  BY <1>1, <1>10, <1>a, <1>c DEF RemoveEnd, After, End, Go, disk, TypeOK
<1>11. CASE AddBypass(p)
  BY <1>1, <1>11, <1>a, <1>c DEF AddBypass, Go, disk, TypeOK
<1>12. ASSUME NEW e \in Entry, Install(p, e) PROVE Saved(p)'
  <2>1. pc'[p] \in {"idle", "install"} /\ file' = file
    BY <1>1, <1>12 DEF Install, End, Go, disk, TypeOK
  <2> QED
    BY <1>a, <1>c, <2>1
<1>13. CASE Crash(p)
  BY <1>1, <1>13, <1>a, <1>c DEF Crash, End, Go, TypeOK
<1> QED
  BY <1>2, <1>3, <1>4, <1>5, <1>6, <1>7, <1>8, <1>9, <1>10, <1>11, <1>12, <1>13, <1>14
  DEF Run

\* Every step of the system keeps the invariant.
LEMMA SaveInvKept ==
    ASSUME "read" \notin Faults, SaveInv, [Next]_vars PROVE SaveInv'
<1> USE DEF SaveInv
<1>1. ASSUME NEW p \in Proc, Run(p) PROVE SaveInv'
  <2>1. CASE \E c \in Command : Begin(p, c)
    BY <1>1, <2>1, RunTyped, BeginKeeps
  <2>2. CASE ~ \E c \in Command : Begin(p, c)
    <3>1. TypeOK' /\ StreamsClosed'
      BY <1>1, RunTyped, StreamsKept
    <3>2. /\ UNCHANGED history
          /\ \A q \in Proc : q # p => pc'[q] = pc[q]
          /\ pc[p] # "idle" \/ UNCHANGED <<disk, pc, db>>
      BY <1>1, <2>2, WorkIsLocal
    <3>3. NobodyBeside'
      BY <3>2 DEF NobodyBeside, history
    <3>4. ASSUME NEW r \in Proc, sole'[r] PROVE Saved(r)'
      <4>1. CASE r = p
        BY <1>1, <2>2, <3>2, <3>4, <4>1, SaveGoesOn DEF history
      <4>2. CASE r # p
        <5>1. pc[p] = "idle"
          BY <3>2, <3>4, <4>2 DEF NobodyBeside, history
        <5>2. UNCHANGED <<file, tmp, hasTmp, out, pc, db, cmd, sole, old>>
          BY <3>2, <5>1 DEF history, disk
        <5>3. Saved(r)
          BY <3>4, <5>2 DEF SavedAlone
        <5> QED
          BY <5>2, <5>3 DEF Saved, Wanted
      <4> QED
        BY <4>1, <4>2
    <3> QED
      BY <3>1, <3>3, <3>4 DEF SavedAlone
  <2> QED
    BY <2>1, <2>2
<1>2. CASE UNCHANGED vars
  BY <1>2 DEF vars, disk, TypeOK, StreamsClosed, NobodyBeside, SavedAlone, Saved, Wanted
<1> QED
  BY <1>1, <1>2 DEF Next

\* direct_add and direct_remove, for every number of processes, entries and rules
\* and every failure but an unreadable file: whatever races and crashes came
\* before, a command that runs alone changes the policy entirely or not at all.
THEOREM SavedEntirely ==
    ASSUME "read" \notin Faults PROVE Spec => []AllOrNothing
<1>1. Init => SaveInv
  BY InitTyped DEF Init, SaveInv, StreamsClosed, NobodyBeside, SavedAlone
<1>2. SaveInv /\ [Next]_vars => SaveInv'
  BY SaveInvKept
<1>3. SaveInv => AllOrNothing
  BY DEF SaveInv, SavedAlone, Saved, AllOrNothing
<1> QED
  BY <1>1, <1>2, <1>3, PTL DEF Spec

-----------------------------------------------------------------------------
(* The sync.                                                                *)

\* A process holds ids only while it removes what they name, and of what is there.
IdsHeld ==
    \A p \in Proc :
        /\ ids[p] # {} => pc[p] \in {"unlist", "unname", "unrule"}
        /\ ids[p] \subseteq router

\* From the first query of a sync on, and behind each of its removals.
Syncing  == {"list", "unlist", "names", "unname", "rule", "unrule", "bypass", "install"}
Unlisted == {"names", "unname", "rule", "unrule", "bypass"}
Unnamed  == {"rule", "unrule", "bypass"}

\* One bypass rule besides those it left in place.
OneBypass(p) == \E r \in Rule : (router \cap Rule) \ kept[p] = {r}

\* How far a sync that runs alone has brought the router.
Synced(p) ==
    /\ kept[p] \subseteq router
    /\ pc[p] # "idle" => ~success[p]
    /\ pc[p] \in Syncing => db[p] = file
    /\ pc[p] = "unlist" => router \cap Ip \subseteq ids[p] \cup kept[p]
    /\ pc[p] \in Unlisted => router \cap Ip \subseteq kept[p]
    /\ pc[p] = "unname" => router \cap Domain \subseteq ids[p] \cup kept[p]
    /\ pc[p] \in Unnamed => router \cap Domain \subseteq kept[p]
    /\ pc[p] = "unrule" => router \cap Rule \subseteq ids[p] \cup kept[p]
    /\ pc[p] = "bypass" => router \cap Rule \subseteq kept[p]
    /\ pc[p] = "install" =>
          /\ left[p] \subseteq file /\ (router \cap Entry) \ kept[p] = file \ left[p]
          /\ OneBypass(p)
    /\ success[p] =>
          /\ (router \cap Entry) \ kept[p] = file
          /\ IF file = {} THEN router \cap Rule \subseteq kept[p] ELSE OneBypass(p)

\* The inductive invariant behind SoleSyncRepairs.
SyncInv ==
    /\ TypeOK /\ NobodyBeside
    /\ IdsHeld
    /\ \A p \in Proc : sole[p] => Synced(p)

\* An idle process does nothing but begin.
LEMMA IdleRests ==
    ASSUME TypeOK, IdsHeld, NEW p \in Proc, Run(p), ~ \E c \in Command : Begin(p, c)
    PROVE  pc[p] # "idle"
<1>1. ASSUME NEW o \in Object, Remove(p, o) PROVE pc[p] # "idle"
  BY <1>1 DEF Remove, IdsHeld
<1>2. ASSUME NEW e \in Entry, Install(p, e) PROVE pc[p] # "idle"
  BY <1>2 DEF Install
<1>3. ASSUME NEW o \in Object, Refuse(p, o) PROVE pc[p] # "idle"
  BY <1>3 DEF Refuse, IdsHeld
<1> QED
  BY <1>1, <1>2, <1>3 DEF Run, Load, OpenTmp, CloseTmp, Rename, ReadPolicy, ApiFails, Find,
     Matching, RemoveEnd, AddBypass, Crash

\* Ids come with the query, and go before the next one.
LEMMA IdsKept ==
    ASSUME TypeOK, IdsHeld, NEW p \in Proc, Run(p) PROVE IdsHeld'
<1> USE DEF local, End, Go, TypeOK, IdsHeld
<1>1. ASSUME NEW c \in Command, Begin(p, c) PROVE IdsHeld'
  BY <1>1 DEF Begin
<1>2. CASE Load(p)
  BY <1>2 DEF Load
<1>3. CASE OpenTmp(p)
  BY <1>3 DEF OpenTmp
<1>4. CASE CloseTmp(p)
  BY <1>4 DEF CloseTmp
<1>5. CASE Rename(p)
  BY <1>5 DEF Rename
<1>6. CASE ReadPolicy(p)
  BY <1>6 DEF ReadPolicy
<1>7. CASE ApiFails(p)
  BY <1>7 DEF ApiFails
<1>8. CASE Find(p)
  <2> PICK got \in SUBSET router : ids' = [ids EXCEPT ![p] = got]
    BY <1>8 DEF Find, Collected
  <2> QED
    BY <1>8 DEF Find, Matching, After
<1>9. ASSUME NEW o \in Object, Remove(p, o) PROVE IdsHeld'
  BY <1>9 DEF Remove
<1>14. ASSUME NEW o \in Object, Refuse(p, o) PROVE IdsHeld'
  BY <1>14 DEF Refuse
<1>10. CASE RemoveEnd(p)
  BY <1>10 DEF RemoveEnd, After
<1>11. CASE AddBypass(p)
  BY <1>11 DEF AddBypass
<1>12. ASSUME NEW e \in Entry, Install(p, e) PROVE IdsHeld'
  BY <1>12 DEF Install
<1>13. CASE Crash(p)
  BY <1>13 DEF Crash
<1> QED
  BY <1>1, <1>2, <1>3, <1>4, <1>5, <1>6, <1>7, <1>8, <1>9, <1>10, <1>11, <1>12, <1>13,
     <1>14 DEF Run

\* A process that runs alone brings the router one step further.
LEMMA SyncGoesOn ==
    ASSUME "read" \notin Faults, SyncInv, NEW p \in Proc, sole[p], Run(p),
           ~ \E c \in Command : Begin(p, c)
    PROVE  Synced(p)'
<1> USE DEF Go, TypeOK, local, disk
<1>1. /\ TypeOK /\ Synced(p) /\ pc[p] # "idle" /\ ~success[p]
  BY IdleRests DEF SyncInv, Synced
<1>a. ASSUME End(p, FALSE), UNCHANGED <<router, kept>> PROVE Synced(p)'
  BY <1>1, <1>a DEF End, Synced, Syncing, Unlisted, Unnamed
<1>b. ASSUME pc'[p] \in {"open", "write", "rename", "read"}, UNCHANGED <<router, kept, success>>
      PROVE  Synced(p)'
  BY <1>1, <1>b DEF Synced, Syncing, Unlisted, Unnamed
<1>2. CASE Load(p)
  BY <1>1, <1>2, <1>a, <1>b DEF Load
<1>3. CASE OpenTmp(p)
  BY <1>1, <1>3, <1>a, <1>b DEF OpenTmp
<1>4. CASE CloseTmp(p)
  BY <1>1, <1>4, <1>a, <1>b DEF CloseTmp
<1>5. CASE Rename(p)
  BY <1>1, <1>5, <1>a, <1>b DEF Rename
<1>6. CASE ReadPolicy(p)
  <2>1. Seen = {file}
    BY DEF Seen
  <2>2. CASE /\ db' = [db EXCEPT ![p] = file] /\ Go(p, "list")
             /\ UNCHANGED <<file, router, kept, success>>
    BY <1>1, <2>2 DEF Synced, Syncing, Unlisted, Unnamed
  <2> QED
    BY <1>6, <1>a, <2>1, <2>2 DEF ReadPolicy
<1>7. CASE ApiFails(p)
  BY <1>7, <1>a DEF ApiFails
<1>8. CASE Find(p)
  <2> DEFINE found == router \cap Matching[pc[p]]
  <2> PICK got \in SUBSET found :
        ids' = [ids EXCEPT ![p] = got] /\ Leave(p, found \ got)
    BY <1>8 DEF Find, Collected
  <2>0. ids'[p] = got /\ kept'[p] = kept[p] \cup (found \ got)
    <3> HIDE DEF found
    <3> QED
      BY <1>1 DEF Leave
  <2>1. /\ ids'[p] \cup kept'[p] = found \cup kept[p]
        /\ kept[p] \subseteq kept'[p] /\ kept'[p] \subseteq router
    BY <1>1, <2>0 DEF Synced
  <2>2. pc[p] \in {"list", "names", "rule"} /\ pc'[p] = After[pc[p]]
        /\ UNCHANGED <<file, router, db, left, success>>
    BY <1>1, <1>8 DEF Find, Matching
  <2>3. CASE pc[p] = "list"
    BY <1>1, <2>1, <2>2, <2>3 DEF Matching, After, Synced, Syncing, Unlisted, Unnamed
  <2>4. CASE pc[p] = "names"
    BY <1>1, <2>1, <2>2, <2>4 DEF Matching, After, Synced, Syncing, Unlisted, Unnamed
  <2>5. CASE pc[p] = "rule"
    BY <1>1, <2>1, <2>2, <2>5 DEF Matching, After, Synced, Syncing, Unlisted, Unnamed
  <2> QED
    BY <2>2, <2>3, <2>4, <2>5
<1>9. ASSUME NEW o \in Object, Remove(p, o) PROVE Synced(p)'
  <2>1. pc[p] \in {"unlist", "unname", "unrule"}
    BY <1>9 DEF Remove, SyncInv, IdsHeld
  <2>2. /\ router' = router \ {o} /\ ids'[p] = ids[p] \ {o} /\ kept'[p] = kept[p] \ {o}
        /\ UNCHANGED <<file, pc, db, left, success>>
    BY <1>9 DEF Remove
  <2> QED
    BY <1>1, <2>1, <2>2 DEF Synced, Syncing, Unlisted, Unnamed
<1>14. ASSUME NEW o \in Object, Refuse(p, o) PROVE Synced(p)'
  <2>1. pc[p] \in {"unlist", "unname", "unrule"}
    BY <1>14 DEF Refuse, SyncInv, IdsHeld
  <2>2. /\ ids'[p] = ids[p] \ {o} /\ kept'[p] = kept[p] \cup {o}
        /\ UNCHANGED <<file, router, pc, db, left, success>>
    BY <1>1, <1>14 DEF Refuse, Leave
  <2>3. ids[p] \subseteq router
    BY DEF SyncInv, IdsHeld
  <2> QED
    BY <1>1, <1>14, <2>1, <2>2, <2>3 DEF Refuse, Synced, Syncing, Unlisted, Unnamed
<1>10. CASE RemoveEnd(p)
  <2>1. /\ UNCHANGED <<file, router, kept>>
        /\ pc[p] \in {"unlist", "unname", "unrule"} /\ ids[p] = {}
    BY <1>10 DEF RemoveEnd
  <2>2. CASE pc[p] = "unrule" /\ db[p] = {} /\ End(p, TRUE)
    <3>1. file = {} /\ router \cap Entry \subseteq kept[p] /\ router \cap Rule \subseteq kept[p]
      BY <1>1, <2>1, <2>2 DEF Synced, Syncing, Unlisted, Unnamed, Entry
    <3> QED
      BY <1>1, <2>1, <2>2, <3>1 DEF End, Synced, Syncing, Unlisted, Unnamed
  <2>3. CASE Go(p, After[pc[p]]) /\ UNCHANGED local
    <3>1. /\ pc'[p] = After[pc[p]]
          /\ UNCHANGED <<file, router, kept, db, ids, left, success>>
      BY <1>1, <2>1, <2>3
    <3>2. CASE pc[p] = "unlist"
      BY <1>1, <2>1, <3>1, <3>2 DEF After, Synced, Syncing, Unlisted, Unnamed
    <3>3. CASE pc[p] = "unname"
      BY <1>1, <2>1, <3>1, <3>3 DEF After, Synced, Syncing, Unlisted, Unnamed
    <3>4. CASE pc[p] = "unrule"
      BY <1>1, <2>1, <3>1, <3>4 DEF After, Synced, Syncing, Unlisted, Unnamed
    <3> QED
      BY <2>1, <3>2, <3>3, <3>4
  <2> QED
    BY <1>10, <2>2, <2>3 DEF RemoveEnd
<1>11. CASE AddBypass(p)
  <2> PICK r \in Rule : r \notin router /\ router' = router \cup {r}
    BY <1>11 DEF AddBypass
  <2>1. /\ pc[p] = "bypass" /\ pc'[p] = "install" /\ left'[p] = db[p]
        /\ UNCHANGED <<db, file, success, kept>>
    BY <1>1, <1>11 DEF AddBypass
  <2>2. /\ router \cap Ip \subseteq kept[p] /\ router \cap Domain \subseteq kept[p]
        /\ router \cap Rule \subseteq kept[p]
        /\ db[p] = file /\ kept[p] \subseteq router
    BY <1>1, <2>1 DEF Synced, Syncing, Unlisted, Unnamed
  <2>3. OneBypass(p)' /\ (router' \cap Entry) \ kept'[p] = {} /\ kept'[p] \subseteq router'
    BY <2>1, <2>2, KindsDiffer DEF Entry, OneBypass
  <2> QED
    BY <1>1, <2>1, <2>2, <2>3 DEF Synced, Syncing, Unlisted, Unnamed
<1>12. ASSUME NEW e \in Entry, Install(p, e) PROVE Synced(p)'
  <2>1. /\ left[p] \subseteq file /\ (router \cap Entry) \ kept[p] = file \ left[p]
        /\ kept[p] \subseteq router
        /\ OneBypass(p) /\ e \in left[p] /\ pc[p] = "install" /\ db[p] = file
    BY <1>1, <1>12 DEF Install, Synced, Syncing
  <2>2. UNCHANGED <<file, kept>>
    BY <1>12 DEF Install
  <2>3. CASE e \notin router /\ router' = router \cup {e}
    <3>1. OneBypass(p)' /\ (router' \cap Entry) \ kept'[p] = file \ (left[p] \ {e})
      BY <2>1, <2>2, <2>3, KindsDiffer DEF Entry, OneBypass
    <3>2. CASE left[p] = {e} /\ End(p, TRUE)
      <4>1. (router' \cap Entry) \ kept'[p] = file' /\ pc'[p] = "idle" /\ file' # {}
        BY <1>1, <2>1, <2>2, <3>1, <3>2 DEF End
      <4> QED
        BY <2>1, <2>2, <2>3, <3>1, <4>1 DEF Synced, Syncing, Unlisted, Unnamed
    <3>3. CASE left' = [left EXCEPT ![p] = @ \ {e}] /\ UNCHANGED <<pc, db, ids, success>>
      <4>1. /\ left'[p] = left[p] \ {e} /\ pc'[p] = "install"
            /\ db'[p] = file' /\ ~success'[p]
        BY <1>1, <2>1, <2>2, <3>3
      <4> QED
        BY <2>1, <2>2, <2>3, <3>1, <4>1 DEF Synced, Syncing, Unlisted, Unnamed
    <3> QED
      BY <1>12, <2>1, <2>3, <3>2, <3>3 DEF Install
  <2> QED
    BY <1>12, <1>a, <2>3 DEF Install
<1>13. CASE Crash(p)
  BY <1>13, <1>a DEF Crash
<1> QED
  BY <1>2, <1>3, <1>4, <1>5, <1>6, <1>7, <1>8, <1>9, <1>10, <1>11, <1>12, <1>13, <1>14
  DEF Run

\* Every step of the system keeps the invariant of the sync.
LEMMA SyncInvKept ==
    ASSUME "read" \notin Faults, SyncInv, [Next]_vars PROVE SyncInv'
<1> USE DEF SyncInv
<1>1. ASSUME NEW p \in Proc, Run(p) PROVE SyncInv'
  <2>1. TypeOK' /\ IdsHeld'
    BY <1>1, RunTyped, IdsKept
  <2>2. ASSUME NEW c \in Command, Begin(p, c) PROVE SyncInv'
    <3>1. \A r \in Proc : sole'[r] => r = p /\ \A q \in Proc : pc[q] = "idle"
      BY <2>2 DEF Begin
    <3>2. NobodyBeside'
      BY <2>2, <3>1 DEF NobodyBeside, Begin, Go, TypeOK
    <3>3. pc'[p] \in {"load", "read"} /\ ~success'[p] /\ kept'[p] = {}
      BY <2>2 DEF Begin, Go, TypeOK
    <3>4. Synced(p)'
      BY <3>3 DEF Synced, Syncing, Unlisted, Unnamed
    <3> QED
      BY <2>1, <3>1, <3>2, <3>4
  <2>3. CASE ~ \E c \in Command : Begin(p, c)
    <3>1. /\ UNCHANGED history
          /\ \A q \in Proc : q # p => pc'[q] = pc[q]
          /\ pc[p] # "idle"
      BY <1>1, <2>3, WorkIsLocal, IdleRests
    <3>2. NobodyBeside'
      BY <3>1 DEF NobodyBeside, history
    <3>3. ASSUME NEW r \in Proc, sole'[r] PROVE r = p
      BY <3>1, <3>3 DEF NobodyBeside, history
    <3>4. ASSUME sole'[p] PROVE Synced(p)'
      BY <1>1, <2>3, <3>1, <3>4, SyncGoesOn DEF history
    <3> QED
      BY <2>1, <3>2, <3>3, <3>4
  <2> QED
    BY <2>2, <2>3
<1>2. CASE UNCHANGED vars
  BY <1>2 DEF vars, disk, TypeOK, NobodyBeside, IdsHeld, Synced, OneBypass
<1> QED
  BY <1>1, <1>2 DEF Next

\* direct_sync, for every number of processes, entries and rules and every failure
\* but an unreadable file, refused removals and queries that find more than they
\* have room for among them: a command that ran alone and reports success leaves
\* exactly the policy of the file on the router, with one bypass rule, and besides
\* only what it found and left, whatever half-done syncs it found there.
THEOREM SyncRepairs ==
    ASSUME "read" \notin Faults PROVE Spec => []SoleSyncRepairs
<1>1. Init => SyncInv
  BY InitTyped DEF Init, SyncInv, NobodyBeside, IdsHeld
<1>2. SyncInv /\ [Next]_vars => SyncInv'
  BY SyncInvKept
<1>3. SyncInv => SoleSyncRepairs
  <2>1. \A r \in Rule : Cardinality({r}) = 1
    BY FS_Singleton
  <2> QED
    BY <2>1 DEF SyncInv, Synced, OneBypass, SoleSyncRepairs
<1> QED
  BY <1>1, <1>2, <1>3, PTL DEF Spec

=============================================================================
