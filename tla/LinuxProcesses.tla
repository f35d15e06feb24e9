---------------------------- MODULE LinuxProcesses ----------------------------
(***************************************************************************)
(* How VMICore follows the tasks of a Linux guest                          *)
(* (vmicore/src/lib/os/linux/ActiveProcessesSupervisor.cpp and             *)
(* SystemEventSupervisor.cpp).                                             *)
(*                                                                         *)
(* initialize walks the guest's list of thread group leaders.  From then   *)
(* on breakpoints on proc_fork_connector, proc_exec_connector and          *)
(* proc_exit_connector tell of every task, threads included.  They are     *)
(* created for the address space of pid 0 and are not global: the callback *)
(* is left out whenever another one is loaded, which the guest's kernel    *)
(* decides (a kernel thread borrows the address space of whoever ran       *)
(* before).  Such a report is missed.                                      *)
(***************************************************************************)
EXTENDS Naturals

CONSTANTS
    Tasks,       \* the tasks that the guest may create, each at most once
    PidOf,       \* PidOf[x]: the pid of a task
    StructOf,    \* StructOf[x]: the address of its task_struct
    InitTask,    \* init_task, with pid 0: the idle task
    Threads,     \* tasks that are not in the list of leaders
    Images,      \* what a task may execute
    Nameless,    \* images whose path has no separator, such as a memfd
    Throwing,    \* images at whose termination the callback of a plugin throws
    None

Pids    == {PidOf[x] : x \in Tasks}
Structs == {StructOf[x] : x \in Tasks}

ASSUME TasksAssumption ==
    /\ Threads \subseteq Tasks /\ InitTask \in Tasks \ Threads
    /\ \A x \in Tasks : x # InitTask => PidOf[x] # PidOf[InitTask] /\ StructOf[x] # StructOf[InitTask]
    /\ Nameless \subseteq Images
    /\ Throwing \subseteq Images
    /\ None \notin Images \cup Pids \cup Tasks

VARIABLES
    guest,        \* guest[x]: "none", "live", "exited" (not yet reaped) or "reaped"
    image,        \* image[x]: what the task executes; None without an mm: a kernel thread
    attached,     \* "no", "yes", "failed", "ended"
    processInformationByPid,
    pidsByTaskStruct,
    missed,       \* tasks of which a report has been missed, or could not be recorded
    kept          \* tasks that ended without being removed from the tables

guestVars == <<guest, image>>
tables    == <<processInformationByPid, pidsByTaskStruct>>
vars      == <<guest, image, attached, processInformationByPid, pidsByTaskStruct, missed, kept>>

\* What the tables keep of a task: itself, and the image that it had when it was recorded
Records == [task : Tasks, image : Images \cup {None}]
NoRecord == [task |-> None, image |-> None]

Init ==
    /\ guest = [x \in Tasks |-> IF x = InitTask THEN "live" ELSE "none"]
    /\ image = [x \in Tasks |-> None]
    /\ attached = "no"
    /\ processInformationByPid = [p \in Pids |-> NoRecord]
    /\ pidsByTaskStruct = [s \in Structs |-> None]
    /\ missed = {}
    /\ kept = {}

-----------------------------------------------------------------------------
(* The guest: y forks x, x executes i, x exits, the parent of x reaps it. *)

Present(x) == guest[x] \in {"live", "exited"}

GuestForks(y, x) ==
    /\ attached \in {"no", "yes"}
    /\ guest[y] = "live" /\ guest[x] = "none"
    /\ \A z \in Tasks : Present(z) => PidOf[z] # PidOf[x] /\ StructOf[z] # StructOf[x]
    /\ guest' = [guest EXCEPT ![x] = "live"]
    /\ image' = [image EXCEPT ![x] = image[y]]

GuestExecutes(x, i) ==
    /\ attached \in {"no", "yes"}
    /\ guest[x] = "live" /\ x # InitTask /\ i # image[x]
    /\ image' = [image EXCEPT ![x] = i]
    /\ UNCHANGED guest

GuestExits(x) ==
    /\ attached \in {"no", "yes"}
    /\ guest[x] = "live" /\ x # InitTask
    /\ guest' = [guest EXCEPT ![x] = "exited"]
    /\ UNCHANGED image

Reap(x) ==
    /\ attached \in {"no", "yes"}
    /\ guest[x] = "exited"
    /\ guest' = [guest EXCEPT ![x] = "reaped"]
    /\ UNCHANGED <<image, attached, tables, missed, kept>>

\* Nobody is called for a report: VMICore is not attached yet, or CR3 is not the one of pid 0.
NotReported(x) ==
    /\ missed' = IF attached = "yes" THEN missed \cup {x} ELSE missed
    /\ UNCHANGED <<attached, tables, kept>>

ForkUnseen(y, x)    == GuestForks(y, x) /\ NotReported(x)
ExecuteUnseen(x, i) == GuestExecutes(x, i) /\ NotReported(x)
ExitUnseen(x)       == GuestExits(x) /\ NotReported(x)

-----------------------------------------------------------------------------
(* The tables *)

\* extractProcessInformation succeeds.  A task that has exited has no mm any more.
Recordable(i) == i \notin Nameless
RecordOf(x)   == [task |-> x, image |-> IF guest[x] = "exited" THEN None ELSE image[x]]

\* What getProcessInformationByBase returns; NoRecord if it throws std::invalid_argument.
ProcessInformationByBase(s) ==
    IF pidsByTaskStruct[s] = None THEN NoRecord
    ELSE processInformationByPid[pidsByTaskStruct[s]]

Reported(x) == ProcessInformationByBase(StructOf[x])

AddNewProcess(x, i) ==
    /\ processInformationByPid' = [processInformationByPid EXCEPT ![PidOf[x]] = [task |-> x, image |-> i]]
    /\ pidsByTaskStruct' = [pidsByTaskStruct EXCEPT ![StructOf[x]] = PidOf[x]]

\* Mutant: only the address is forgotten.
RemoveStructOnly(x) ==
    /\ pidsByTaskStruct' = [pidsByTaskStruct EXCEPT ![StructOf[x]] = None]
    /\ UNCHANGED processInformationByPid

\* A pid without a record is a warning only.
RemoveActiveProcess(x) ==
    /\ processInformationByPid' =
          [p \in Pids |-> IF p = pidsByTaskStruct[StructOf[x]] THEN NoRecord ELSE processInformationByPid[p]]
    /\ pidsByTaskStruct' = [pidsByTaskStruct EXCEPT ![StructOf[x]] = None]

\* getActiveProcesses
ActiveProcesses == {processInformationByPid[p] : p \in Pids} \ {NoRecord}

-----------------------------------------------------------------------------
(* VMICore *)

Listed == {x \in Tasks \ Threads : Present(x)}

\* initialize, with the guest paused.  A leader that has exited is listed until it is reaped.
Attach ==
    /\ attached = "no"
    /\ \A x \in Listed : Recordable(RecordOf(x).image)
    /\ attached' = "yes"
    /\ processInformationByPid' =
          [p \in Pids |-> IF \E x \in Listed : PidOf[x] = p
                          THEN RecordOf(CHOOSE x \in Listed : PidOf[x] = p) ELSE NoRecord]
    /\ pidsByTaskStruct' =
          [s \in Structs |-> IF \E x \in Listed : StructOf[x] = s
                             THEN PidOf[CHOOSE x \in Listed : StructOf[x] = s] ELSE None]
    /\ missed' = {x \in Threads : guest[x] = "live"}
    /\ kept' = {x \in Listed : guest[x] = "exited"}
    /\ UNCHANGED guestVars

\* The exception leaves initialize, and with it the run ends.
AttachFails ==
    /\ attached = "no"
    /\ \E x \in Listed : ~Recordable(RecordOf(x).image)
    /\ attached' = "failed"
    /\ UNCHANGED <<guestVars, tables, missed, kept>>

\* procForkConnectorCallback: addNewProcess, then the plugins are told.
ForkSeen(y, x) ==
    /\ attached = "yes" /\ GuestForks(y, x)
    /\ Recordable(image[y])
    /\ AddNewProcess(x, image[y])
    /\ UNCHANGED <<attached, missed, kept>>

\* addNewProcess throws, and interruptCallback catches it.
ForkNotRecorded(y, x) ==
    /\ attached = "yes" /\ GuestForks(y, x)
    /\ ~Recordable(image[y])
    /\ missed' = missed \cup {x}
    /\ UNCHANGED <<attached, tables, kept>>

\* Mutant: the record of the former image stays.
RecordBeforeExec(x, i) ==
    pidsByTaskStruct' = pidsByTaskStruct /\ processInformationByPid' = processInformationByPid

\* removeActiveProcess, then addNewProcess.  What the former finds at the address of x need not have
\* its pid.
ReplaceRecord(x, i) ==
    /\ processInformationByPid' =
          [p \in Pids |-> IF p = PidOf[x] THEN [task |-> x, image |-> i]
                          ELSE IF p = pidsByTaskStruct[StructOf[x]] THEN NoRecord
                          ELSE processInformationByPid[p]]
    /\ pidsByTaskStruct' = [pidsByTaskStruct EXCEPT ![StructOf[x]] = PidOf[x]]

\* procExecConnectorCallback: the plugins are told that the process terminates, and then of the
\* start of another one.
ExecuteSeen(x, i) ==
    /\ attached = "yes" /\ GuestExecutes(x, i)
    /\ Reported(x) # NoRecord /\ Reported(x).image \notin Throwing
    /\ Recordable(i)
    /\ ReplaceRecord(x, i)
    /\ UNCHANGED <<attached, missed, kept>>

\* addNewProcess throws after the former record has been removed.
ExecuteNotRecorded(x, i) ==
    /\ attached = "yes" /\ GuestExecutes(x, i)
    /\ Reported(x) # NoRecord /\ Reported(x).image \notin Throwing
    /\ ~Recordable(i)
    /\ RemoveActiveProcess(x)
    /\ missed' = missed \cup {x}
    /\ UNCHANGED <<attached, kept>>

\* The task is not in the tables, or a plugin throws: the rest of the callback is left out.
ExecuteInVain(x, i) ==
    /\ attached = "yes" /\ GuestExecutes(x, i)
    /\ Reported(x) = NoRecord \/ Reported(x).image \in Throwing
    /\ missed' = missed \cup {x}
    /\ UNCHANGED <<attached, tables, kept>>

\* procExitConnectorCallback: the plugins are told, then the task is removed.
ExitSeen(x) ==
    /\ attached = "yes" /\ GuestExits(x)
    /\ Reported(x) # NoRecord /\ Reported(x).image \notin Throwing
    /\ RemoveActiveProcess(x)
    /\ UNCHANGED <<attached, missed, kept>>

ExitThrows(x) ==
    /\ attached = "yes" /\ GuestExits(x)
    /\ Reported(x) # NoRecord /\ Reported(x).image \in Throwing
    /\ kept' = kept \cup {x}
    /\ UNCHANGED <<attached, tables, missed>>

ExitOfUnknown(x) ==
    /\ attached = "yes" /\ GuestExits(x)
    /\ Reported(x) = NoRecord
    /\ UNCHANGED <<attached, tables, missed, kept>>

\* teardown, at the end of the run
Detach ==
    /\ attached = "yes"
    /\ attached' = "ended"
    /\ UNCHANGED <<guestVars, tables, missed, kept>>

Next ==
    \/ \E y, x \in Tasks : ForkUnseen(y, x) \/ ForkSeen(y, x) \/ ForkNotRecorded(y, x)
    \/ \E x \in Tasks, i \in Images :
          ExecuteUnseen(x, i) \/ ExecuteSeen(x, i) \/ ExecuteNotRecorded(x, i) \/ ExecuteInVain(x, i)
    \/ \E x \in Tasks : ExitUnseen(x) \/ ExitSeen(x) \/ ExitThrows(x) \/ ExitOfUnknown(x) \/ Reap(x)
    \/ Attach \/ AttachFails \/ Detach

Spec == Init /\ [][Next]_vars

-----------------------------------------------------------------------------
TypeOK ==
    /\ guest \in [Tasks -> {"none", "live", "exited", "reaped"}]
    /\ image \in [Tasks -> Images \cup {None}]
    /\ attached \in {"no", "yes", "failed", "ended"}
    /\ processInformationByPid \in [Pids -> Records \cup {NoRecord}]
    /\ pidsByTaskStruct \in [Structs -> Pids \cup {None}]
    /\ missed \subseteq Tasks
    /\ kept \subseteq Tasks

\* A missed or failed report does harm only to tasks that come to have the same pid.  Every other
\* live task is found under its pid and under its address, with the image that it executes now,
\* whatever else has been left in the tables and however pids and addresses are used again: so its
\* end is told as its own.
HarmIsLocal ==
    attached = "yes" =>
        \A x \in Tasks :
            guest[x] = "live" /\ (\A y \in missed \cup kept : PidOf[y] # PidOf[x]) =>
                /\ processInformationByPid[PidOf[x]] = [task |-> x, image |-> image[x]]
                /\ pidsByTaskStruct[StructOf[x]] = PidOf[x]

\* An entry of a task that is gone, in either table, has the pid of a task of which a report was
\* missed, at whose end a plugin threw, or that had exited before VMICore attached.
NoEntryLeaks ==
    attached = "yes" =>
        /\ \A p \in Pids :
              LET x == processInformationByPid[p].task
              IN  x # None /\ guest[x] # "live" => x \in missed \cup kept
        /\ \A s \in Structs :
              pidsByTaskStruct[s] # None =>
                  \E y \in Tasks : /\ PidOf[y] = pidsByTaskStruct[s]
                                   /\ y \in missed \cup kept \/ (StructOf[y] = s /\ guest[y] = "live")

\* PluginInterface.h:43: getRunningProcesses returns "all currently running processes".
RunningProcessesReturned ==
    attached = "yes" =>
        \A x \in Tasks \ Threads :
            guest[x] = "live" => \E r \in ActiveProcesses : r.task = x
=============================================================================
