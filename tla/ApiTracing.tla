------------------------------ MODULE ApiTracing ------------------------------
(***************************************************************************)
(* The ApiTracing plugin on top of VMICore's process events                *)
(* (plugins/apitracing/src/lib/ApiTracing.cpp, Tracer.cpp and              *)
(* TracedProcess.cpp).                                                     *)
(*                                                                         *)
(* The plugin registers for process events and then traces the processes   *)
(* that run already.  A TracedProcess hooks the functions that its profile *)
(* names with breakpoints.  The tracer keeps one TracedProcess per pid,    *)
(* and removes its hooks when the process terminates or the run ends.      *)
(***************************************************************************)
EXTENDS ActiveProcessesSupervisor

CONSTANTS
    MaxPid,            \* pids are numbers from 1 to MaxPid
    ParentOf,          \* ParentOf[x]: the process that creates x, or None
    Profiles,
    ChildrenProfiles,  \* the profiles with trace_children
    ConfiguredProfile, \* ConfiguredProfile[x]: the profile for the name of x, or None
    Outcomes           \* what the construction of a TracedProcess may come to

\* What a TracedProcess object is built for, and whether its process ran already
TracedProcess == [process : Processes, profile : Profiles, found : {"running", "started"}]

ASSUME TracingAssumption ==
    /\ MaxPid \in Nat
    /\ PidOf \in [Processes -> 1..MaxPid]
    /\ ParentOf \in [Processes -> Processes \cup {None}]
    /\ ChildrenProfiles \subseteq Profiles
    /\ ConfiguredProfile \in [Processes -> Profiles \cup {None}]
    /\ Outcomes \subseteq {"hooked", "bare", "throws"}
    /\ None \notin Profiles
    /\ None \notin TracedProcess

VARIABLES
    tracedProcesses,   \* by pid
    hooked,            \* the TracedProcess objects that have breakpoints
    early,             \* processes whose start is announced after they were found by the plugin
    cursor             \* the pid up to which the plugin has looked at the running processes

tracerVars == <<tracedProcesses, hooked, early, cursor>>
vars == <<psVars, tracerVars>>

Untraced == [p \in Pids |-> None]

Init ==
    /\ PsInit
    /\ tracedProcesses = Untraced
    /\ hooked = {}
    /\ early = {}
    /\ cursor = 0

\* The guest is paused while the plugin is initialized.
Paused == cursor \in 1..MaxPid

-----------------------------------------------------------------------------
\* getProcessTracingProfile, for the traced processes tp
TracingProfile(x, tp) ==
    LET tracedParent == IF ParentOf[x] = None THEN None ELSE tp[PidOf[ParentOf[x]]]
    IN  IF tracedParent = None THEN ConfiguredProfile[x]
        ELSE IF tracedParent.profile \in ChildrenProfiles THEN tracedParent.profile
        ELSE None

\* Mutant: the new object takes the place of the old one, whose hooks stay.
InsertOrAssign(tp, t) == [tp EXCEPT ![PidOf[t.process]] = t]

\* std::map::insert keeps an object that is already there.
InsertTraced(tp, t) ==
    [tp EXCEPT ![PidOf[t.process]] = IF @ = None THEN t ELSE @]

\* traceProcess.  The construction of the TracedProcess may fail, or find no function to hook; the
\* hooks of an object stay even if it is not inserted.
TraceProcess(x, found) ==
    LET profile == TracingProfile(x, tracedProcesses)
        t == [process |-> x, profile |-> profile, found |-> found]
    IN  IF profile = None THEN UNCHANGED <<tracedProcesses, hooked>>
        ELSE \E outcome \in Outcomes :
                IF outcome = "throws" THEN UNCHANGED <<tracedProcesses, hooked>>
                ELSE /\ tracedProcesses' = InsertTraced(tracedProcesses, t)
                     /\ hooked' = IF outcome = "hooked" THEN hooked \cup {t} ELSE hooked

\* VMICore attaches, pauses the guest and initializes the plugin, which registers its callbacks.
Initialize ==
    /\ Attach
    /\ cursor' = 1
    /\ early' = {x \in Processes : guest[x] = "inserted"}
    /\ UNCHANGED <<tracedProcesses, hooked>>

\* The constructor's loop over the running processes, which come ordered by their pids
TraceRunning ==
    /\ Paused
    /\ cursor' = cursor + 1
    /\ IF \E x \in ActiveProcesses : PidOf[x] = cursor
       THEN \E x \in ActiveProcesses : PidOf[x] = cursor /\ TraceProcess(x, "running")
       ELSE UNCHANGED <<tracedProcesses, hooked>>
    /\ UNCHANGED <<psVars, early>>

ProcessStarts(x) ==
    /\ ~Paused /\ StartSeen(x)
    /\ TraceProcess(x, "started")
    /\ UNCHANGED <<early, cursor>>

\* Mutant: the TracedProcess is dropped without removing its hooks.
DropTracedProcess(x) ==
    /\ tracedProcesses' = [tracedProcesses EXCEPT ![PidOf[x]] = None]
    /\ UNCHANGED hooked

\* Mutant: the hooks are removed, the object stays in the map.
KeepTracedProcess(x) ==
    /\ hooked' = hooked \ {tracedProcesses[PidOf[x]]}
    /\ UNCHANGED tracedProcesses

\* removeTracedProcess
RemoveTracedProcess(x) ==
    /\ tracedProcesses' = [tracedProcesses EXCEPT ![PidOf[x]] = None]
    /\ hooked' = hooked \ {tracedProcesses[PidOf[x]]}

\* The tracer's callback is called first: plugins are initialized in the order of their names.
ProcessTerminates(x) ==
    /\ ~Paused
    /\ TerminationSeen(x) \/ TerminationThrows(x)
    /\ RemoveTracedProcess(Reported(x))
    /\ UNCHANGED <<early, cursor>>

\* unload: teardown
Unload ==
    /\ ~Paused /\ Detach
    /\ tracedProcesses' = Untraced
    /\ hooked' = hooked \ {tracedProcesses[p] : p \in Pids}
    /\ UNCHANGED <<early, cursor>>

\* In the guest a process is created by its parent.
ByParent(x) == guest[x] = "none" /\ ParentOf[x] # None => guest[ParentOf[x]] = "running"

Unnoticed(x) ==
    /\ ~Paused /\ ByParent(x)
    /\ Unseen(x) \/ StartNotRecorded(x) \/ TerminationOfUnknown(x)
    /\ UNCHANGED tracerVars

Next ==
    \/ \E x \in Processes : Unnoticed(x) \/ ProcessStarts(x) \/ ProcessTerminates(x)
    \/ Initialize
    \/ TraceRunning
    \/ Unload

Spec == Init /\ [][Next]_vars

-----------------------------------------------------------------------------
TypeOK ==
    /\ PsTypeOK
    /\ tracedProcesses \in [Pids -> TracedProcess \cup {None}]
    /\ hooked \subseteq TracedProcess
    /\ early \subseteq Processes
    /\ cursor \in 0..(MaxPid + 1)

\* The tracer holds no process that has terminated: neither one whose pid another process has got,
\* nor one that lived at an address that is used again.
TracedProcessesLive ==
    attached = "yes" =>
        \A p \in Pids : tracedProcesses[p] # None =>
            LET x == tracedProcesses[p].process
            IN  PidOf[x] = p /\ guest[x] \in {"inserted", "running", "exiting"}

\* Every hook in the guest belongs to an object that the tracer will take it away with; the one
\* exception is the second object for a process that was found before its start was announced.
HooksOwned ==
    \A t \in hooked :
        \/ tracedProcesses[PidOf[t.process]] = t
        \/ t.found = "started" /\ t.process \in early

\* A process is traced until it terminates or the run ends, whatever happens to the others, unless a
\* termination that is not its own may be reported as its own.
TracedUntilTermination ==
    [][\A p \in Pids :
          tracedProcesses[p] # None /\ tracedProcesses'[p] # tracedProcesses[p]
                /\ attached' = "yes" /\ Trusted(p) =>
             guest'[tracedProcesses[p].process] = "terminated"]_vars
=============================================================================
