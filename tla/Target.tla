------------------------------- MODULE Target -------------------------------
(***************************************************************************)
(* The routing target and the file it is kept in.  A command loads the     *)
(* configuration into its own memory when it starts, looks for a table     *)
(* whose default route leads through the target, makes one where there is  *)
(* none, and writes its whole memory back.  No lock is taken for this:     *)
(* commands run beside each other and share the temporary file.            *)
(*                                                                         *)
(* Left out: disabled tables and routes, interfaces that come and go, and  *)
(* the settings of logging and diagnostics.  A longer content written      *)
(* before leaves a tail behind a shorter one that holds only those.        *)
(***************************************************************************)
EXTENDS Naturals, FiniteSets, Failures

CONSTANTS
    Proc,       \* the commands: each process is one invocation
    Iface,      \* interfaces
    Usable,     \* those that are enabled
    Table,      \* routing tables other than main
    Dedicated,  \* the table "susanin"
    Profile,    \* accuracy profiles
    Routings,   \* the default routes there may be before
    None        \* nothing selected

ASSUME UsableType == Usable \subseteq Iface
ASSUME DedicatedType == Dedicated \in Table
ASSUME NoneType == None \notin Table \cup Iface
ASSUME FastType == "fast" \in Profile

\* A default route: its table, the interface it leads through, and whether its
\* gateway is that interface or an address behind it.
Route == Table \X Iface \X {"iface", "ip"}

ASSUME RoutingsType == Routings \subseteq SUBSET Route

\* The dedicated table is used by nothing but Susanin.
ASSUME DedicatedOnce == \A rs \in Routings : \A r, s \in rs :
    r[1] = Dedicated /\ s[1] = Dedicated => r[2] = s[2]

Config == [mode : {"interface", "routing-table"}, egress : Iface \cup {None},
           table : Table \cup {None}, profile : Profile]

\* No file, or one without content.
Default == [mode |-> "interface", egress |-> None, table |-> None, profile |-> "fast"]

VARIABLES
    file, tmp,  \* susanin.conf and susanin.conf.tmp
    hasTmp,     \* is there a temporary file?
    out,        \* what the stream of a process is on
    mem,        \* the configuration of a process
    goal,       \* what a command is to set
    pc,         \* the place of a process
    tables,     \* the routing tables there are
    routes,     \* the default routes there are
    crossed     \* history: have two commands changed targets or settings at once?

diskVars   == <<file, tmp, hasTmp, out>>
routeVars  == <<tables, routes>>

Goal == ({"interface"} \X Iface) \cup ({"table"} \X Table) \cup ({"profile"} \X Profile)

\* The places of Target; the composition adds those of other commands.
Places == {"scan", "find", "addTable", "check", "addRoute", "table",
           "open", "write", "rename", "saved", "failed"}

TargetTypeOK ==
    /\ file \in Config /\ tmp \in Config
    /\ hasTmp \in BOOLEAN
    /\ out \in [Proc -> {"none", "tmp", "file", "lost"}]
    /\ mem \in [Proc -> Config]
    /\ goal \in [Proc -> Goal \cup {None}]
    /\ tables \subseteq Table
    /\ routes \subseteq Route
    /\ crossed \in BOOLEAN

TargetInit ==
    /\ file = Default /\ tmp = Default /\ hasTmp = FALSE
    /\ out = [p \in Proc |-> "none"]
    /\ mem = [p \in Proc |-> Default]
    /\ routes \in Routings
    /\ tables \in {Table, {r[1] : r \in routes}}
    /\ crossed = FALSE

Go(p, place) == pc' = [pc EXCEPT ![p] = place]

-----------------------------------------------------------------------------
(* Finding, or making, a table that leads through the target.               *)

\* The tables with a default route through an interface, by its name or through
\* an address behind it.
TablesVia(i) == {r[1] : r \in {s \in routes : s[2] = i}}

\* What is saved of a target; the profile stays.
Select(p, m, i, t) ==
    mem' = [mem EXCEPT ![p] = [mode |-> m, egress |-> i, table |-> t,
                               profile |-> mem[p].profile]]

\* target_set_interface: one table that leads through the interface serves, of
\* several none does.
ScanRoutes(p) ==
    /\ pc[p] = "scan"
    /\ LET i == goal[p][2] IN
       \/ /\ i \in Usable
          /\ \E t \in TablesVia(i) :
                TablesVia(i) = {t} /\ Select(p, "interface", i, t) /\ Go(p, "open")
       \/ /\ i \in Usable /\ \A t \in TablesVia(i) : TablesVia(i) # {t}
          /\ Go(p, "find") /\ UNCHANGED mem
       \/ i \notin Usable /\ Go(p, "failed") /\ UNCHANGED mem
    /\ UNCHANGED <<diskVars, routeVars, goal>>

FindTable(p) ==
    /\ pc[p] = "find"
    /\ Go(p, IF Dedicated \in tables THEN "check" ELSE "addTable")
    /\ UNCHANGED <<diskVars, routeVars, mem, goal>>

\* A name that has been taken meanwhile is refused.
AddTable(p) ==
    /\ pc[p] = "addTable"
    /\ Go(p, IF Dedicated \in tables THEN "failed" ELSE "check")
    /\ tables' = tables \cup {Dedicated}
    /\ UNCHANGED <<diskVars, routes, mem, goal>>

Dedicates(p, i) == Select(p, "interface", i, Dedicated) /\ Go(p, "open")

\* Defects: any default route, or the table alone, is taken for what leads there.
AnyRoute(i) == \E r \in routes : r[1] = Dedicated
AnyTable(i) == Dedicated \in tables

\* Only a route whose gateway is the interface itself counts.
Leads(i) == <<Dedicated, i, "iface">> \in routes

\* Defect: a default route through something else is not looked for.
NoConflict == FALSE

Conflict == \E r \in routes : r[1] = Dedicated

\* ensure_dedicated_table: a route elsewhere is never replaced.
CheckRoutes(p) ==
    /\ pc[p] = "check"
    /\ LET i == goal[p][2] IN
       \/ Leads(i) /\ Dedicates(p, i)
       \/ ~Leads(i) /\ Conflict /\ Go(p, "failed") /\ UNCHANGED mem
       \/ ~Leads(i) /\ ~Conflict /\ Go(p, "addRoute") /\ UNCHANGED mem
    /\ UNCHANGED <<diskVars, routeVars, goal>>

AddRoute(p) ==
    /\ pc[p] = "addRoute"
    /\ routes' = routes \cup {<<Dedicated, goal[p][2], "iface">>}
    /\ Dedicates(p, goal[p][2])
    /\ UNCHANGED <<diskVars, tables, goal>>

Via(t) == {r[2] : r \in {s \in routes : s[1] = t}}

\* target_set_routing_table: an egress that is not unique is left open.
LookTable(p) ==
    /\ pc[p] = "table"
    /\ LET t == goal[p][2] IN
       \/ /\ Via(t) # {}
          /\ \E i \in Iface \cup {None} :
                /\ IF i = None THEN \A j \in Via(t) : Via(t) # {j} ELSE Via(t) = {i}
                /\ Select(p, "routing-table", i, t)
          /\ Go(p, "open")
       \/ Via(t) = {} /\ Go(p, "failed") /\ UNCHANGED mem
    /\ UNCHANGED <<diskVars, routeVars, goal>>

\* A call fails; an addition may have been made all the same.
RouterFails(p) ==
    /\ CallFails
    /\ pc[p] \in {"scan", "find", "addTable", "check", "addRoute", "table"}
    /\ Go(p, "failed")
    /\ \/ UNCHANGED routeVars
       \/ pc[p] = "addTable" /\ tables' = tables \cup {Dedicated} /\ UNCHANGED routes
       \/ /\ pc[p] = "addRoute" /\ UNCHANGED tables
          /\ routes' = routes \cup {<<Dedicated, goal[p][2], "iface">>}
    /\ UNCHANGED <<diskVars, mem, goal>>

-----------------------------------------------------------------------------
(* write_nonsecret_config.                                                  *)

\* Defect: the configuration is written in place.
InPlace(content) == Default

\* The file keeps what it has until the new content has its name.
Kept(content) == content

\* Opening truncates what is there, also when it is another process's.
OpenTmp(p) ==
    /\ pc[p] = "open"
    /\ \/ /\ tmp' = Default /\ hasTmp' = TRUE
          /\ file' = Kept(file)
          /\ out' = [out EXCEPT ![p] = "tmp"]
          /\ Go(p, "write")
       \/ "disk" \in Faults /\ Go(p, "failed") /\ UNCHANGED diskVars
    /\ UNCHANGED <<routeVars, mem, goal>>

\* The temporary file goes; streams on it write to nowhere.
DropTmp(p) ==
    /\ tmp' = Default /\ hasTmp' = FALSE
    /\ out' = [q \in Proc |-> IF q = p THEN "none"
                              ELSE IF out[q] = "tmp" THEN "lost" ELSE out[q]]

\* The stream writes when it is closed, to what it was opened on.  A configuration
\* is shorter than a block: a close that fails has written all of it or nothing.
CloseTmp(p) ==
    /\ pc[p] = "write"
    /\ \/ /\ tmp' = IF out[p] = "tmp" THEN mem[p] ELSE tmp
          /\ file' = IF out[p] = "file" THEN mem[p] ELSE file
          /\ out' = [out EXCEPT ![p] = "none"]
          /\ Go(p, "rename") /\ UNCHANGED hasTmp
       \/ /\ "disk" \in Faults
          /\ file' \in {file} \cup (IF out[p] = "file" THEN {mem[p]} ELSE {})
          /\ DropTmp(p) /\ Go(p, "failed")
    /\ UNCHANGED <<routeVars, mem, goal>>

\* Whatever has the name is renamed, and the streams on it follow.
Rename(p) ==
    /\ pc[p] = "rename"
    /\ \/ /\ hasTmp
          /\ file' = tmp /\ tmp' = Default /\ hasTmp' = FALSE
          /\ out' = [q \in Proc |-> IF out[q] = "tmp" THEN "file"
                                    ELSE IF out[q] = "file" THEN "lost" ELSE out[q]]
          /\ Go(p, "saved")
       \/ ~hasTmp /\ Go(p, "failed") /\ UNCHANGED diskVars
       \/ "disk" \in Faults /\ DropTmp(p) /\ Go(p, "failed") /\ UNCHANGED file
    /\ UNCHANGED <<routeVars, mem, goal>>

TargetStep(p) ==
    /\ \/ ScanRoutes(p) \/ FindTable(p) \/ AddTable(p) \/ CheckRoutes(p)
       \/ AddRoute(p) \/ LookTable(p) \/ RouterFails(p)
       \/ OpenTmp(p) \/ CloseTmp(p) \/ Rename(p)
    /\ UNCHANGED crossed

=============================================================================
