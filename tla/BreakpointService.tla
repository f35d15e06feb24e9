-------------------------- MODULE BreakpointService --------------------------
(***************************************************************************)
(* What the breakpoint engine promises its two clients, with no word on    *)
(* how: the callers that place and remove breakpoints                      *)
(* (IInterruptEventSupervisor in InterruptEventSupervisor.h, IBreakpoint), *)
(* and a guest with one virtual CPU that must run as if nobody watched.    *)
(*                                                                         *)
(* There are no page guards, copies, saved bytes, statuses or mutexes      *)
(* here.  The engine may leave an INT3 wherever it likes as long as the    *)
(* guest does not run; what the guest may find when it does is             *)
(* GuestIsServed.  InterruptEventSupervisor implements this (see Service   *)
(* there).                                                                 *)
(***************************************************************************)

CONSTANTS PAs, DTBs, Breakpoints, TargetPA, DtbOf, Global, Following, GuestInt3, None

VARIABLES
    stage,   \* where the run of VMICore is
    placed,  \* the breakpoints that exist
    space,   \* the address space the guest runs in, and the one it is about to enter
    next,
    cpu, at, \* what the vCPU does, and at which address
    traps,   \* the addresses whose execution traps
    reads    \* reads[pa]: what the reads of the guest may find at an address

vars == <<stage, placed, space, next, cpu, at, traps, reads>>

\* The guest's own memory, as it is without VMICore.
OwnMemory == [pa \in PAs |-> IF pa \in GuestInt3 THEN "int3" ELSE "code"]

Due(d) == {TargetPA[b] : b \in {c \in placed : c \in Global \/ DtbOf[c] = d}}

Behind == UNION {Following[b] : b \in Breakpoints}

\* While the guest runs every breakpoint that is due in its address space traps, nothing traps that
\* is neither breakpointed nor an INT3 of the guest, and reads find the guest's own bytes, but
\* for those that cross into the first bytes of the page behind a breakpoint's; when VMICore has gone
\* the guest is as it was.
GuestIsServed ==
    /\ stage = "running" /\ cpu = "run" =>
         /\ GuestInt3 \cup Due(space) \subseteq traps
         /\ traps \subseteq GuestInt3 \cup {TargetPA[b] : b \in placed}
    /\ stage = "done" => traps = GuestInt3
    /\ \A pa \in PAs :
         /\ OwnMemory[pa] \in reads[pa]
         /\ pa \notin Behind => reads[pa] = {OwnMemory[pa]}

\* The callers' turn: the setup, the unloading of the plugins and the callback of a hit.
CallersTurn == stage \in {"setup", "stopping"} \/ cpu = "called"

Init ==
    /\ stage = "setup"
    /\ placed = {}
    /\ space \in DTBs /\ next = space
    /\ cpu = "run" /\ at = None
    /\ traps = GuestInt3
    /\ reads = [pa \in PAs |-> {OwnMemory[pa]}]

Place(b) ==
    /\ CallersTurn /\ b \notin placed
    /\ placed' = placed \cup {b}
    /\ UNCHANGED <<stage, space, next, cpu, at>>

Remove(b) ==
    /\ CallersTurn /\ b \in placed
    /\ cpu = "called" => TargetPA[b] # at
    /\ placed' = placed \ {b}
    /\ UNCHANGED <<stage, space, next, cpu, at>>

\* The engine puts INT3s in and takes them out, and guards pages, in its own time.
Tidy == CallersTurn /\ UNCHANGED <<stage, placed, space, next, cpu, at>>

Trap(pa) ==
    /\ stage = "running" /\ cpu = "run" /\ pa \in traps
    /\ cpu' = "int3" /\ at' = pa
    /\ UNCHANGED <<stage, placed, space, next, traps, reads>>

Call ==
    /\ cpu = "int3" /\ \E b \in placed : TargetPA[b] = at
    /\ cpu' = "called"
    /\ UNCHANGED <<stage, placed, space, next, at, traps, reads>>

\* The exception is the guest's own; only once the VM has been stopped may a removed breakpoint's
\* hit be given to the guest.
GiveBack ==
    /\ cpu = "int3" /\ \A b \in placed : TargetPA[b] # at
    /\ stage = "running" => at \in GuestInt3
    /\ cpu' = "run" /\ at' = None
    /\ UNCHANGED <<stage, placed, space, next, traps, reads>>

Answer == cpu = "called" /\ cpu' = "step" /\ UNCHANGED <<stage, placed, space, next, at>>

\* The instruction under the breakpoint, never a breakpoint in its place.
Step ==
    /\ stage = "running" /\ cpu = "step" /\ at \notin traps
    /\ cpu' = "stepped"
    /\ UNCHANGED <<stage, placed, space, next, at, traps, reads>>

Resume ==
    /\ cpu = "stepped"
    /\ cpu' = "run" /\ at' = None
    /\ UNCHANGED <<stage, placed, space, next>>

Switch(d) ==
    /\ stage = "running" /\ cpu = "run" /\ d # space
    /\ cpu' = "cr3" /\ next' = d
    /\ UNCHANGED <<stage, placed, space, at, traps, reads>>

Switched ==
    /\ cpu = "cr3"
    /\ cpu' = "run" /\ space' = next
    /\ UNCHANGED <<stage, placed, next, at>>

\* The run starts, fails to start or stops.
Proceed ==
    /\ \/ stage = "setup" /\ stage' \in {"running", "stopping", "crashed"}
       \/ stage = "running" /\ cpu # "called" /\ stage' = "stopping"
    /\ UNCHANGED <<placed, space, next, cpu, at, traps, reads>>

GoAway ==
    /\ stage = "stopping"
    /\ stage' = "done" /\ placed' = {} /\ cpu' = "run" /\ at' = None
    /\ UNCHANGED <<space, next>>

Next ==
    /\ \/ \E b \in Breakpoints : Place(b) \/ Remove(b)
       \/ Tidy
       \/ \E pa \in PAs : Trap(pa)
       \/ Call \/ GiveBack \/ Answer \/ Step \/ Resume
       \/ \E d \in DTBs : Switch(d)
       \/ Switched \/ Proceed \/ GoAway
    /\ GuestIsServed'

Spec == Init /\ [][Next]_vars
=============================================================================
