---------------------- MODULE ActiveProcessesSupervisor ----------------------
(***************************************************************************)
(* How VMICore follows the processes of a Windows guest                    *)
(* (vmicore/src/lib/os/windows/ActiveProcessesSupervisor.cpp and           *)
(* SystemEventSupervisor.cpp).                                             *)
(*                                                                         *)
(* initialize walks the guest's list of processes while the guest is       *)
(* paused.  From then on a breakpoint on PspCallProcessNotifyRoutines      *)
(* tells when a process starts or terminates.  Two tables hold the result: *)
(* processInformationByPid, and pidsByEprocessBase, which finds the        *)
(* process of a notification.  The guest reuses the pid and the _EPROCESS  *)
(* address of a process once its object is deleted, of which nobody tells. *)
(***************************************************************************)
EXTENDS Naturals

CONSTANTS
    Processes,    \* the processes that the guest may create, each at most once
    PidOf,        \* PidOf[x]: the pid of a process
    BaseOf,       \* BaseOf[x]: the address of its _EPROCESS
    Unreadable,   \* processes whose information cannot be read when they start
    Throwing,     \* processes at whose termination the callback of a plugin throws
    None

Pids  == {PidOf[x] : x \in Processes}
Bases == {BaseOf[x] : x \in Processes}

ASSUME ProcessAssumption ==
    /\ Unreadable \subseteq Processes
    /\ Throwing \subseteq Processes
    /\ None \notin Processes
    /\ None \notin Pids

VARIABLES
    guest,              \* guest[x]: how far the process is in the guest
    attached,           \* "no", "yes", "ended"
    processInformationByPid,
    pidsByEprocessBase,
    unknown,            \* processes whose start could not be recorded
    kept                \* processes that terminated without being removed from the tables

tables == <<processInformationByPid, pidsByEprocessBase>>
psVars == <<guest, attached, processInformationByPid, pidsByEprocessBase, unknown, kept>>

(***************************************************************************)
(* A process object is inserted into the guest's list before its start is  *)
(* announced, gets its exit status before its termination is announced,    *)
(* and stays in the list until its last handle is closed.                  *)
(***************************************************************************)
GuestStates == {"none", "inserted", "running", "exiting", "terminated", "deleted"}

InList(x) == guest[x] \in {"inserted", "running", "exiting", "terminated"}

PsInit ==
    /\ guest = [x \in Processes |-> "none"]
    /\ attached = "no"
    /\ processInformationByPid = [p \in Pids |-> None]
    /\ pidsByEprocessBase = [b \in Bases |-> None]
    /\ unknown = {}
    /\ kept = {}

-----------------------------------------------------------------------------
(* The guest.  Only the two notifications hit a breakpoint. *)

GuestStep(x, from, to) ==
    /\ attached # "ended" /\ guest[x] = from
    /\ guest' = [guest EXCEPT ![x] = to]

Insert(x) ==
    /\ GuestStep(x, "none", "inserted")
    /\ \A y \in Processes : InList(y) => PidOf[y] # PidOf[x] /\ BaseOf[y] # BaseOf[x]
    /\ UNCHANGED <<attached, tables, unknown, kept>>

SetExitStatus(x) ==
    /\ GuestStep(x, "running", "exiting")
    /\ UNCHANGED <<attached, tables, unknown, kept>>

Delete(x) ==
    /\ GuestStep(x, "terminated", "deleted")
    /\ UNCHANGED <<attached, tables, unknown, kept>>

\* Before VMICore is attached nobody sees the notifications.
StartUnseen(x) ==
    /\ attached = "no" /\ GuestStep(x, "inserted", "running")
    /\ UNCHANGED <<attached, tables, unknown, kept>>

TerminateUnseen(x) ==
    /\ attached = "no" /\ GuestStep(x, "exiting", "terminated")
    /\ UNCHANGED <<attached, tables, unknown, kept>>

-----------------------------------------------------------------------------
(* The tables *)

\* Mutant: a new process does not replace what another one has left under its address.
AddByEmplace(x) ==
    /\ processInformationByPid' = [processInformationByPid EXCEPT ![PidOf[x]] = x]
    /\ pidsByEprocessBase' =
          [pidsByEprocessBase EXCEPT ![BaseOf[x]] = IF @ = None THEN PidOf[x] ELSE @]

AddNewProcess(x) ==
    /\ processInformationByPid' = [processInformationByPid EXCEPT ![PidOf[x]] = x]
    /\ pidsByEprocessBase' = [pidsByEprocessBase EXCEPT ![BaseOf[x]] = PidOf[x]]

\* What getProcessInformationByBase returns; None if it throws std::invalid_argument.
ProcessInformationByBase(b) ==
    IF pidsByEprocessBase[b] = None THEN None
    ELSE processInformationByPid[pidsByEprocessBase[b]]

\* Mutant: only the address is forgotten.
RemoveBaseOnly(b) ==
    /\ pidsByEprocessBase' = [pidsByEprocessBase EXCEPT ![b] = None]
    /\ UNCHANGED processInformationByPid

RemoveActiveProcess(b) ==
    /\ processInformationByPid' =
          [p \in Pids |-> IF p = pidsByEprocessBase[b] THEN None ELSE processInformationByPid[p]]
    /\ pidsByEprocessBase' = [pidsByEprocessBase EXCEPT ![b] = None]

\* The exit status in the _EPROCESS at b; that of a deleted process counts as set until the
\* memory is reused.
ExitStatusPending(b) == \E x \in Processes : BaseOf[x] = b /\ guest[x] \in {"inserted", "running"}

\* getActiveProcesses
ActiveProcesses ==
    {x \in Processes : /\ processInformationByPid[PidOf[x]] = x
                       /\ ExitStatusPending(BaseOf[x])}

-----------------------------------------------------------------------------
(* VMICore *)

\* initialize, with the guest paused: every process in the list, terminated or not
Attach ==
    /\ attached = "no"
    /\ attached' = "yes"
    /\ processInformationByPid' =
          [p \in Pids |-> IF \E x \in Processes : InList(x) /\ PidOf[x] = p
                          THEN CHOOSE x \in Processes : InList(x) /\ PidOf[x] = p
                          ELSE None]
    /\ pidsByEprocessBase' =
          [b \in Bases |-> IF \E x \in Processes : InList(x) /\ BaseOf[x] = b
                           THEN PidOf[CHOOSE x \in Processes : InList(x) /\ BaseOf[x] = b]
                           ELSE None]
    /\ kept' = {x \in Processes : guest[x] = "terminated"}
    /\ UNCHANGED <<guest, unknown>>

\* The start of x is announced: addNewProcess, then the plugins are told.
StartSeen(x) ==
    /\ attached = "yes" /\ GuestStep(x, "inserted", "running")
    /\ x \notin Unreadable
    /\ AddNewProcess(x)
    /\ UNCHANGED <<attached, unknown, kept>>

\* extractProcessInformation throws, and interruptCallback catches it.
StartNotRecorded(x) ==
    /\ attached = "yes" /\ GuestStep(x, "inserted", "running")
    /\ x \in Unreadable
    /\ unknown' = unknown \cup {x}
    /\ UNCHANGED <<attached, tables, kept>>

\* The process that the plugins are told about when x terminates
Reported(x) == ProcessInformationByBase(BaseOf[x])

\* The termination of x is announced: the plugins are told, then it is removed.
TerminationSeen(x) ==
    /\ attached = "yes" /\ GuestStep(x, "exiting", "terminated")
    /\ Reported(x) # None /\ x \notin Throwing
    /\ RemoveActiveProcess(BaseOf[x])
    /\ UNCHANGED <<attached, unknown, kept>>

\* The callback of a plugin throws, which skips removeActiveProcess.
TerminationThrows(x) ==
    /\ attached = "yes" /\ GuestStep(x, "exiting", "terminated")
    /\ Reported(x) # None /\ x \in Throwing
    /\ kept' = kept \cup {x}
    /\ UNCHANGED <<attached, tables, unknown>>

\* The process is not in the tables: the lookup throws std::invalid_argument.
TerminationOfUnknown(x) ==
    /\ attached = "yes" /\ GuestStep(x, "exiting", "terminated")
    /\ Reported(x) = None
    /\ UNCHANGED <<attached, tables, unknown, kept>>

\* The end of the run, after a signal or a bug check of the guest
Detach ==
    /\ attached = "yes"
    /\ attached' = "ended"
    /\ UNCHANGED <<guest, tables, unknown, kept>>

Unseen(x) ==
    Insert(x) \/ SetExitStatus(x) \/ Delete(x) \/ StartUnseen(x) \/ TerminateUnseen(x)

PsNext ==
    \/ \E x \in Processes :
          \/ Unseen(x)
          \/ StartSeen(x) \/ StartNotRecorded(x)
          \/ TerminationSeen(x) \/ TerminationThrows(x) \/ TerminationOfUnknown(x)
    \/ Attach
    \/ Detach

PsSpec == PsInit /\ [][PsNext]_psVars

-----------------------------------------------------------------------------
PsTypeOK ==
    /\ guest \in [Processes -> GuestStates]
    /\ attached \in {"no", "yes", "ended"}
    /\ processInformationByPid \in [Pids -> Processes \cup {None}]
    /\ pidsByEprocessBase \in [Bases -> Pids \cup {None}]
    /\ unknown \subseteq Unreadable
    /\ kept \subseteq Processes

\* A process that VMICore has to know: its start has been announced, its termination has not.
Live(x) == guest[x] \in {"running", "exiting"}

\* No termination can be taken for that of the process with pid p: for this it takes both a process
\* that nobody recorded and an entry with that pid which another one has left behind.
Trusted(p) == unknown = {} \/ \A y \in kept : PidOf[y] # p

\* Whatever other processes have left in the tables, under the same pid or at the same address, both
\* tables lead to the process that lives there, so its termination is reported as its own.  A start
\* that could not be recorded costs at most those their entry that have the pid of one in kept.
LiveProcessesKnown ==
    attached = "yes" =>
        \A x \in Processes \ unknown : Live(x) =>
            /\ pidsByEprocessBase[BaseOf[x]] = PidOf[x]
            /\ Trusted(PidOf[x]) => processInformationByPid[PidOf[x]] = x

\* The tables grow by no process that has terminated, apart from those that were already terminated
\* when VMICore attached and those at whose termination a plugin has thrown: an address leads to the
\* pid of the process that lives there, or of one of those.
NoEntryLeaks ==
    attached = "yes" =>
        /\ \A x \in Processes :
              processInformationByPid[PidOf[x]] = x /\ guest[x] \in {"terminated", "deleted"} =>
                  x \in kept
        /\ \A b \in Bases : pidsByEprocessBase[b] # None =>
              \E y \in Processes :
                  /\ PidOf[y] = pidsByEprocessBase[b]
                  /\ y \in kept \/ (BaseOf[y] = b /\ guest[y] \in {"inserted", "running", "exiting"})
=============================================================================
