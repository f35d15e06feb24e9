---------------------- MODULE InterruptEventSupervisor ----------------------
(***************************************************************************)
(* The breakpoint engine of vmicore                                        *)
(* (vmicore/src/lib/vmi/InterruptEventSupervisor.cpp) together with the    *)
(* parts it drives: Breakpoint.cpp, InterruptGuard.cpp,                    *)
(* SingleStepSupervisor.cpp and RegisterEventSupervisor.cpp.               *)
(*                                                                         *)
(* Two kinds of actor take steps:                                          *)
(*   - the supervisor thread, the one thread that creates and removes      *)
(*     breakpoints and handles events one at a time;                       *)
(*   - the virtual CPUs of the guest, which run whenever the VM is not     *)
(*     paused.  A vCPU that causes an event stops until the event is       *)
(*     answered, so the event ring holds at most one event per vCPU and is *)
(*     represented by the mode of each vCPU.                               *)
(*                                                                         *)
(* A handler is one step, except where it calls code of a plugin (the      *)
(* callback of a breakpoint may create and remove breakpoints itself) and  *)
(* where the guest can observe the middle of an operation (createBreakpoint*)
(* and deleteBreakpoint).                                                  *)
(***************************************************************************)

CONSTANTS
    VCPUs,        \* the virtual CPUs of the guest
    PAs,          \* physical addresses breakpoints are placed on
    GFNs,         \* physical page frames
    GFN,          \* GFN[pa]: the frame of an address, targetPA >> 12
    DTBs,         \* address spaces: the values CR3 takes
    Breakpoints,  \* the Breakpoint objects callers may create
    TargetPA,     \* TargetPA[b], DtbOf[b]: members of Breakpoint
    DtbOf,
    Global,       \* the breakpoints created with global == true
    Following,    \* Following[b]: addresses in the first 16 bytes of the page behind b's, in b's
                  \* address space
    GuestInt3,    \* addresses where the guest's own code holds an INT3
    Patchable,    \* addresses of code the guest may overwrite itself
    Responses,    \* what the plugins' callbacks may answer
    None          \* no vCPU, address or breakpoint

(* The bytes that the supervisor tells apart. *)
INT3  == "int3"
Zero  == "zero"
Bytes == {"code", "patched", INT3, Zero}

(* The states of a breakpointed address: BPStateResponse, or not in the map. *)
States == {"Enable", "Disable"}

(* What a vCPU is doing.  "int3", "cr3" and "stepped" have an event in the ring.  *)
Modes  == {"run", "int3", "step", "stepped", "cr3", "lost"}
Phases == {"setup", "running", "stopping", "done", "crashed"}

ASSUME ConstantsAssumption ==
    /\ GFN \in [PAs -> GFNs]
    /\ TargetPA \in [Breakpoints -> PAs]
    /\ DtbOf \in [Breakpoints -> DTBs]
    /\ Global \subseteq Breakpoints
    /\ GuestInt3 \subseteq PAs
    /\ Patchable \subseteq PAs
    /\ Responses \subseteq {"Continue", "Deactivate"}
    /\ "Continue" \in Responses
    /\ DTBs # {}
    /\ None \notin VCPUs \cup PAs \cup Breakpoints \cup Bytes \cup States

\* The page behind is in another frame.
ASSUME FollowingAssumption ==
    /\ Following \in [Breakpoints -> SUBSET PAs]
    /\ \A b \in Breakpoints : \A pa \in Following[b] : GFN[pa] # GFN[TargetPA[b]]

VARIABLES
    \* guest
    mem,          \* mem[pa]: the byte in guest memory
    guestByte,    \* what mem[pa] would be if no breakpoint had ever been placed
    mode, rip,    \* per vCPU: its mode, and the address of its INT3 or step
    dtb, nextDtb, \* per vCPU: CR3, and the value a trapped write is about to set
    \* InterruptEventSupervisor
    pages,        \* keys of breakpointsByGFN, each with a registered PageGuard
    shadow,       \* shadowPage of each page guard: the copy of memory it answers reads from
    bps,          \* breakpointsByGFN[..].Breakpoints: the vector at an address
    original,     \* originalValuesByTargetPA
    status,       \* paToBreakpointStatus
    \* SingleStepSupervisor
    stepPA,       \* per vCPU: None, or the data of the callback that is set
    \* the supervisor thread
    phase,        \* where VmiHub::run is
    handling,     \* the vCPU whose INT3 callbacks are running, or None
    creating,     \* the breakpoint createBreakpoint works on, or None
    removing,     \* the address deleteBreakpoint removes the INT3 from, or None
    draining,     \* deleteBreakpoint is inside eventsListen(0)
    hung          \* the thread waits for a mutex it holds

guestVars == <<guestByte, mode, rip, dtb, nextDtb>>
tables    == <<pages, shadow, bps, original, status>>
thread    == <<phase, handling, creating, removing, draining, hung>>
vars == <<mem, guestByte, mode, rip, dtb, nextDtb, pages, shadow, bps, original,
          status, stepPA, phase, handling, creating, removing, draining, hung>>

\* A page without a guard.
NoCopy == [pa \in PAs |-> None]

\* initializeSingleStepEvents: no vCPU has a callback.
NoCallbacks == [v \in VCPUs |-> None]

Init ==
    /\ mem = [pa \in PAs |-> IF pa \in GuestInt3 THEN INT3 ELSE "code"]
    /\ guestByte = mem
    /\ mode = [v \in VCPUs |-> "run"]
    /\ rip = [v \in VCPUs |-> None]
    /\ dtb \in [VCPUs -> DTBs]
    /\ nextDtb = dtb
    /\ pages = {}
    /\ shadow = [gfn \in GFNs |-> NoCopy]
    /\ bps = [pa \in PAs |-> {}]
    /\ original = [pa \in PAs |-> None]
    /\ status = [pa \in PAs |-> None]
    /\ stepPA = NoCallbacks
    /\ phase = "setup"
    /\ handling = None
    /\ creating = None
    /\ removing = None
    /\ draining = FALSE
    /\ hung = FALSE

-----------------------------------------------------------------------------
(* Helpers of the supervisor *)

\* Mutants: a page counts as empty although other addresses on it are breakpointed, ...
PageIsEmptyUnchecked(gfn, table) == TRUE

PageIsEmpty(gfn, table) == \A pa \in PAs : GFN[pa] = gfn => table[pa] = {}

\* ... the entry is erased before it is read, ...
SavedByteAfterErase(pa) == None

\* originalValuesByTargetPA[targetPA] inserts 0 for an address it does not know.
SavedByte(pa) == IF original[pa] = None THEN Zero ELSE original[pa]

EnableEvent(pa) ==
    /\ mem' = [mem EXCEPT ![pa] = INT3]
    /\ status' = [status EXCEPT ![pa] = "Enable"]

\* ... the status of an address is not kept up to date, ...
DisableEventOnly(pa) ==
    /\ mem' = [mem EXCEPT ![pa] = SavedByte(pa)]
    /\ UNCHANGED status

DisableEvent(pa) ==
    /\ mem' = [mem EXCEPT ![pa] = SavedByte(pa)]
    /\ status' = [status EXCEPT ![pa] = "Disable"]

\* Breakpoint::getNewBreakpointState
StateOfBreakpoint(b, newDtb) ==
    IF b \in Global \/ DtbOf[b] = newDtb THEN "Enable" ELSE "Disable"

\* ... the breakpoints at an address have to agree instead of one being enough.
NewBreakpointStateOfAll(pa, newDtb) ==
    IF \A b \in bps[pa] : StateOfBreakpoint(b, newDtb) = "Enable"
    THEN "Enable" ELSE "Disable"

\* InterruptEventSupervisor::getNewBreakpointState
NewBreakpointState(pa, newDtb) ==
    IF \E b \in bps[pa] : StateOfBreakpoint(b, newDtb) = "Enable"
    THEN "Enable" ELSE "Disable"

\* The breakpoints at the address of v's INT3 whose plugin function Breakpoint::callback calls.
Invoked(v) ==
    {b \in Breakpoints : b \in bps[rip[v]] /\ (b \in Global \/ DtbOf[b] = dtb[v])}

\* Mutant: the request that is being handled counts as well.
AnyEvent(v) == mode[v] \in {"int3", "cr3", "stepped"}

\* Requests in the event ring; the one that is being handled has left it.
EventPending(v) == mode[v] \in {"int3", "cr3", "stepped"} /\ v # handling
AreEventsPending == \E v \in VCPUs : EventPending(v)

\* eventsListen is dispatching, and no handler is running.
Listening ==
    /\ ~hung /\ handling = None
    /\ creating = None
    /\ phase = "running" \/ draining

\* The thread runs code that may call createBreakpoint and remove: the setup of VmiHub::run, the
\* unloading of the plugins, or the callback of a breakpoint.
InCallerCode ==
    /\ ~hung /\ creating = None
    /\ IF handling = None
       THEN phase \in {"setup", "stopping"} /\ removing = None
       ELSE removing = None \/ draining

-----------------------------------------------------------------------------
(* createBreakpoint: the guest runs between the registration of the page guard and the INT3. *)

\* What InterruptGuard::initialize reads in b's address space: b's page and the 16 bytes behind it,
\* as they are, with any INT3 that another breakpoint has put there.
ShadowPage(b, behind) ==
    [pa \in PAs |-> IF GFN[pa] = GFN[TargetPA[b]] THEN mem[pa]
                    ELSE IF pa \in Following[b] THEN behind[pa] ELSE None]

\* The bytes behind stay zero if the next page cannot be read.
Zeros == [pa \in PAs |-> Zero]

\* createPageGuard.  If b's own page cannot be read it throws, and nothing has changed.
CreatePageGuard(b) ==
    /\ pages' = pages \cup {GFN[TargetPA[b]]}
    /\ \E behind \in {mem, Zeros} :
         shadow' = [shadow EXCEPT ![GFN[TargetPA[b]]] = ShadowPage(b, behind)]

CreateBegin(b) ==
    /\ InCallerCode
    /\ b \notin bps[TargetPA[b]]
    /\ handling # None => TargetPA[b] # rip[handling]
    /\ IF removing # None            \* the drain of a deleteBreakpoint, which holds the mutex
       THEN /\ hung' = TRUE
            /\ UNCHANGED <<tables, creating>>
       ELSE /\ creating' = b
            /\ IF GFN[TargetPA[b]] \in pages
               THEN UNCHANGED <<pages, shadow>>
               ELSE CreatePageGuard(b)
            /\ UNCHANGED <<bps, original, status, hung>>
    /\ UNCHANGED <<mem, guestVars, stepPA, phase, handling, removing, draining>>

\* Mutant: storeOriginalValue does not look at the value it saves.
NewInt3Unchecked(b, pa) ==
    /\ bps[pa] = {}
    /\ original' = [original EXCEPT ![pa] = mem[pa]]
    /\ EnableEvent(pa)
    /\ bps' = [bps EXCEPT ![pa] = {b}]

NewInt3(b, pa) ==
    /\ bps[pa] = {}
    /\ mem[pa] # INT3
    /\ original' = [original EXCEPT ![pa] = mem[pa]]
    /\ EnableEvent(pa)
    /\ bps' = [bps EXCEPT ![pa] = {b}]

\* storeOriginalValue throws; the page entry and its guard stay.
AlreadyInt3(pa) ==
    /\ bps[pa] = {}
    /\ mem[pa] = INT3
    /\ UNCHANGED <<mem, bps, original, status>>

JoinInt3(b, pa) ==
    /\ bps[pa] # {}
    /\ bps' = [bps EXCEPT ![pa] = @ \cup {b}]
    /\ IF status[pa] = "Disable" THEN EnableEvent(pa) ELSE UNCHANGED <<mem, status>>
    /\ UNCHANGED original

CreateFinish(b) ==
    /\ creating = b
    /\ creating' = None
    /\ \/ NewInt3(b, TargetPA[b])
       \/ AlreadyInt3(TargetPA[b])
       \/ JoinInt3(b, TargetPA[b])
    /\ UNCHANGED <<guestVars, pages, shadow, stepPA, phase, handling, removing,
                   draining, hung>>

-----------------------------------------------------------------------------
(* deleteBreakpoint: the entry of the address is erased first, its INT3 is removed last. *)

EraseBreakpointAtAddress(b) == [bps EXCEPT ![TargetPA[b]] = @ \ {b}]

DeleteBegin(b) ==
    /\ InCallerCode
    /\ b \in bps[TargetPA[b]]
    /\ handling # None => TargetPA[b] # rip[handling]
    /\ IF removing # None            \* Breakpoint::remove waits for the mutex of the outer call
       THEN /\ hung' = TRUE
            /\ UNCHANGED <<bps, removing, draining>>
       ELSE /\ bps' = EraseBreakpointAtAddress(b)
            /\ IF bps[TargetPA[b]] # {b}
               THEN UNCHANGED <<removing, draining, hung>>
               ELSE /\ removing' = TargetPA[b]
                    \* eventsListen(0); within a handler the thread holds eventsListenLock already
                    /\ draining' = (AreEventsPending /\ handling = None)
                    /\ hung' = (AreEventsPending /\ handling # None)
    /\ UNCHANGED <<mem, guestVars, pages, shadow, original, status, stepPA, phase,
                   handling, creating>>

\* eventsListen(0) returns when the ring is empty.
DrainEnd ==
    /\ Listening /\ draining
    /\ ~AreEventsPending
    /\ draining' = FALSE
    /\ UNCHANGED <<mem, guestVars, tables, stepPA, phase, handling, creating, removing,
                   hung>>

RemoveInterrupt(pa) ==
    /\ mem' = [mem EXCEPT ![pa] = SavedByte(pa)]
    /\ original' = [original EXCEPT ![pa] = None]
    /\ status' = [status EXCEPT ![pa] = None]

\* InterruptGuard::teardown: the event of the guard is cleared, and reads reach the memory.
TeardownGuard(gfn) ==
    /\ pages' = pages \ {gfn}
    /\ shadow' = [shadow EXCEPT ![gfn] = NoCopy]

\* The INT3 is removed, and the guard of a page without breakpoints is torn down.
DeleteFinish ==
    /\ removing # None /\ ~draining /\ ~hung
    /\ RemoveInterrupt(removing)
    /\ IF PageIsEmpty(GFN[removing], bps)
       THEN TeardownGuard(GFN[removing])
       ELSE UNCHANGED <<pages, shadow>>
    /\ removing' = None
    /\ UNCHANGED <<guestVars, bps, stepPA, phase, handling, creating, draining, hung>>

-----------------------------------------------------------------------------
(* The handlers of events *)

\* A vCPU that is resumed while its single stepping is still on goes on stepping.
Resumed(v) == IF stepPA[v] = None THEN "run" ELSE "step"

\* _defaultInterruptCallback at an address without breakpoints: the guest gets the exception.
Reinject(v) ==
    /\ Listening
    /\ mode[v] = "int3" /\ bps[rip[v]] = {}
    /\ mode' = [mode EXCEPT ![v] = Resumed(v)]
    /\ rip' = [rip EXCEPT ![v] = None]
    /\ UNCHANGED <<mem, guestByte, dtb, nextDtb, tables, stepPA, thread>>

\* Mutant: the end of the map is not checked for.
BeginCallbacksUnchecked(v) ==
    /\ Listening
    /\ mode[v] = "int3"
    /\ handling' = v
    /\ UNCHANGED <<mem, guestVars, tables, stepPA, phase, creating, removing, draining,
                   hung>>

\* interruptCallback starts to call the breakpoints at the address.
BeginCallbacks(v) ==
    /\ Listening
    /\ mode[v] = "int3" /\ bps[rip[v]] # {}
    /\ handling' = v
    /\ UNCHANGED <<mem, guestVars, tables, stepPA, phase, creating, removing, draining,
                   hung>>

\* setSingleStepCallback throws: the exception leaves eventsListen, and waitForEvents gives up; in a
\* drain it leaves deleteBreakpoint, too, and run if no plugin called that.  The request is never
\* answered.
StepAlreadySet(v) ==
    /\ stepPA[v] # None
    /\ mode' = [mode EXCEPT ![v] = "lost"]
    /\ phase' \in IF draining THEN {"stopping", "crashed"} ELSE {"stopping"}
    /\ removing' = None
    /\ draining' = FALSE
    /\ UNCHANGED stepPA

SetSingleStep(v) ==
    /\ stepPA[v] = None
    /\ stepPA' = [stepPA EXCEPT ![v] = rip[v]]
    /\ mode' = [mode EXCEPT ![v] = "step"]
    /\ UNCHANGED <<phase, removing, draining>>

\* The end of interruptCallback; the breakpoints in answers were those that answered Deactivate.
EndCallbacks(v, answers) ==
    /\ InCallerCode /\ handling = v
    /\ DisableEvent(rip[v])
    /\ IF answers = {}
       THEN /\ StepAlreadySet(v) \/ SetSingleStep(v)
            /\ UNCHANGED rip
       ELSE /\ mode' = [mode EXCEPT ![v] = Resumed(v)]
            /\ rip' = [rip EXCEPT ![v] = stepPA[v]]
            /\ UNCHANGED <<stepPA, phase, removing, draining>>
    /\ handling' = None
    /\ UNCHANGED <<guestByte, dtb, nextDtb, pages, shadow, bps, original, creating, hung>>

\* Mutants: the callback of the vCPU is not cleared; stopSingleStepForVcpu is not called.
HandleStepKeepingCallback(v) ==
    /\ Listening
    /\ mode[v] = "stepped"
    /\ EnableEvent(stepPA[v])
    /\ mode' = [mode EXCEPT ![v] = "run"]
    /\ rip' = [rip EXCEPT ![v] = None]
    /\ UNCHANGED <<guestByte, dtb, nextDtb, pages, shadow, bps, original, stepPA, thread>>

HandleStepWithoutStop(v) ==
    /\ Listening
    /\ mode[v] = "stepped"
    /\ EnableEvent(stepPA[v])
    /\ mode' = [mode EXCEPT ![v] = "step"]
    /\ rip' = [rip EXCEPT ![v] = None]
    /\ UNCHANGED <<guestByte, dtb, nextDtb, pages, shadow, bps, original, stepPA, thread>>

\* SingleStepSupervisor::singleStepCallback calling InterruptEventSupervisor::singleStepCallback
HandleStep(v) ==
    /\ Listening
    /\ mode[v] = "stepped"
    /\ EnableEvent(stepPA[v])
    /\ stepPA' = [stepPA EXCEPT ![v] = None]
    /\ mode' = [mode EXCEPT ![v] = "run"]
    /\ rip' = [rip EXCEPT ![v] = None]
    /\ UNCHANGED <<guestByte, dtb, nextDtb, pages, shadow, bps, original, thread>>

Changed(newDtb) ==
    {pa \in PAs : bps[pa] # {} /\ NewBreakpointState(pa, newDtb) # status[pa]}

\* updateBreakpointState
UpdatedByte(pa, state) == IF state = "Enable" THEN INT3 ELSE SavedByte(pa)

ContextSwitchCallback(newDtb) ==
    /\ status' = [pa \in PAs |-> IF pa \in Changed(newDtb) THEN NewBreakpointState(pa, newDtb)
                                 ELSE status[pa]]
    /\ mem' = [pa \in PAs |->
                 IF pa \in Changed(newDtb) THEN UpdatedByte(pa, NewBreakpointState(pa, newDtb))
                 ELSE mem[pa]]

\* registerCallback runs the one callback that setContextSwitchCallback has set, before the guest
\* runs in its new address space.
HandleContextSwitch(v) ==
    /\ Listening
    /\ mode[v] = "cr3"
    /\ ContextSwitchCallback(nextDtb[v])
    /\ mode' = [mode EXCEPT ![v] = "run"]
    /\ dtb' = [dtb EXCEPT ![v] = nextDtb[v]]
    /\ UNCHANGED <<guestByte, rip, nextDtb, pages, shadow, bps, original, stepPA, thread>>

-----------------------------------------------------------------------------
(* VmiHub::run, as far as it drives the supervisor *)

Start ==
    /\ phase = "setup" /\ creating = None /\ removing = None
    /\ phase' = "running"
    /\ UNCHANGED <<mem, guestVars, tables, stepPA, handling, creating, removing, draining,
                   hung>>

\* A plugin fails to initialize, or (crashed) an exception that is no PluginException leaves run.
AbortSetup ==
    /\ phase = "setup" /\ creating = None /\ removing = None
    /\ phase' \in {"stopping", "crashed"}
    /\ UNCHANGED <<mem, guestVars, tables, stepPA, handling, creating, removing, draining,
                   hung>>

\* waitForEvents sees endVmi between two calls of eventsListen; then the VM is paused.
Stop ==
    /\ phase = "running" /\ Listening
    /\ phase' = "stopping"
    /\ UNCHANGED <<mem, guestVars, tables, stepPA, handling, creating, removing, draining,
                   hung>>

\* Mutant: the tables are cleared before the loop over them.
RestoredMemory_Cleared == mem

RestoredMemory == [pa \in PAs |-> IF bps[pa] = {} THEN mem[pa] ELSE SavedByte(pa)]

\* SingleStepSupervisor::teardown.  Without a listener the hypervisor resumes the vCPUs that wait for
\* an answer.
StopSteps ==
    /\ stepPA' = NoCallbacks
    /\ mode' = [v \in VCPUs |-> "run"]
    /\ rip' = [v \in VCPUs |-> None]

\* teardown: clearInterruptEventHandling and SingleStepSupervisor::teardown
Teardown ==
    /\ phase = "stopping" /\ InCallerCode /\ handling = None
    /\ mem' = RestoredMemory
    /\ original' = [pa \in PAs |-> IF bps[pa] = {} THEN original[pa] ELSE None]
    /\ status' = [pa \in PAs |-> IF bps[pa] = {} THEN status[pa] ELSE None]
    /\ bps' = [pa \in PAs |-> {}]
    /\ pages' = {}
    /\ shadow' = [gfn \in GFNs |-> NoCopy]
    /\ StopSteps
    /\ phase' = "done"
    /\ UNCHANGED <<guestByte, dtb, nextDtb, handling, creating, removing, draining, hung>>

-----------------------------------------------------------------------------
(* The guest *)

GuestExecute(v, pa) ==
    /\ phase = "running" /\ mode[v] = "run"
    /\ mem[pa] = INT3
    /\ mode' = [mode EXCEPT ![v] = "int3"]
    /\ rip' = [rip EXCEPT ![v] = pa]
    /\ UNCHANGED <<mem, guestByte, dtb, nextDtb, tables, stepPA, thread>>

\* One instruction under the monitor trap flag; an INT3 written there meanwhile traps first.
GuestStep(v) ==
    /\ phase = "running" /\ mode[v] = "step"
    /\ mode' = [mode EXCEPT ![v] = IF rip[v] # None /\ mem[rip[v]] = INT3
                                   THEN "int3" ELSE "stepped"]
    /\ UNCHANGED <<mem, guestByte, rip, dtb, nextDtb, tables, stepPA, thread>>

\* onchange: the event is registered for writes that change CR3.
SwitchReported(v, d) == d # dtb[v]

GuestSwitch(v, d) ==
    /\ phase = "running" /\ mode[v] = "run" /\ SwitchReported(v, d)
    /\ mode' = [mode EXCEPT ![v] = "cr3"]
    /\ nextDtb' = [nextDtb EXCEPT ![v] = d]
    /\ UNCHANGED <<mem, guestByte, rip, dtb, tables, stepPA, thread>>

\* The guest overwrites code; on a guarded page the write is emulated and reaches the memory too.
GuestWrite(v, pa) ==
    /\ phase = "running" /\ mode[v] = "run"
    /\ pa \in Patchable /\ guestByte[pa] # "patched"
    /\ mem' = [mem EXCEPT ![pa] = "patched"]
    /\ guestByte' = [guestByte EXCEPT ![pa] = "patched"]
    /\ UNCHANGED <<mode, rip, dtb, nextDtb, tables, stepPA, thread>>

Halted == (phase \in {"done", "crashed"} \/ hung) /\ UNCHANGED vars

-----------------------------------------------------------------------------
Answers(v) == IF "Deactivate" \in Responses THEN SUBSET Invoked(v) ELSE {{}}

ThreadStep ==
    \/ \E b \in Breakpoints : CreateBegin(b) \/ CreateFinish(b) \/ DeleteBegin(b)
    \/ DrainEnd
    \/ DeleteFinish
    \/ \E v \in VCPUs :
         \/ Reinject(v)
         \/ BeginCallbacks(v)
         \/ handling = v /\ \E answers \in Answers(v) : EndCallbacks(v, answers)
         \/ HandleStep(v)
         \/ HandleContextSwitch(v)
    \/ Start
    \/ AbortSetup
    \/ Stop
    \/ Teardown

GuestAct(v) ==
    \/ \E pa \in PAs : GuestExecute(v, pa) \/ GuestWrite(v, pa)
    \/ GuestStep(v)
    \/ \E d \in DTBs : GuestSwitch(v, d)

Next == ThreadStep \/ (\E v \in VCPUs : GuestAct(v)) \/ Halted

Spec == Init /\ [][Next]_vars

(***************************************************************************)
(* Fairness: the loop of waitForEvents calls eventsListen again and again, *)
(* and libvmi hands over every request in the ring; the callbacks of the   *)
(* plugins return (strongly, since in between they may do other things);   *)
(* the hypervisor runs a vCPU that single-steps.  Nothing makes the guest  *)
(* execute a breakpoint, and nothing makes the VM stop.                    *)
(***************************************************************************)
Fairness ==
    /\ WF_vars(\E b \in Breakpoints : CreateFinish(b))
    /\ WF_vars(DrainEnd)
    /\ WF_vars(DeleteFinish)
    /\ \A v \in VCPUs :
         /\ SF_vars(Reinject(v) \/ BeginCallbacks(v))
         /\ SF_vars(HandleStep(v))
         /\ SF_vars(HandleContextSwitch(v))
         /\ SF_vars(handling = v /\ \E answers \in Answers(v) : EndCallbacks(v, answers))
         /\ WF_vars(GuestStep(v))

FairSpec == Spec /\ Fairness

-----------------------------------------------------------------------------
(* Properties that hold for any number of vCPUs *)

TypeOK ==
    /\ mem \in [PAs -> Bytes]
    /\ guestByte \in [PAs -> Bytes]
    /\ mode \in [VCPUs -> Modes]
    /\ rip \in [VCPUs -> PAs \cup {None}]
    /\ dtb \in [VCPUs -> DTBs]
    /\ nextDtb \in [VCPUs -> DTBs]
    /\ pages \subseteq GFNs
    /\ shadow \in [GFNs -> [PAs -> Bytes \cup {None}]]
    /\ bps \in [PAs -> SUBSET Breakpoints]
    /\ original \in [PAs -> Bytes \cup {None}]
    /\ status \in [PAs -> States \cup {None}]
    /\ stepPA \in [VCPUs -> PAs \cup {None}]
    /\ phase \in Phases
    /\ handling \in VCPUs \cup {None}
    /\ creating \in Breakpoints \cup {None}
    /\ removing \in PAs \cup {None}
    /\ draining \in BOOLEAN
    /\ hung \in BOOLEAN

Unpatched(pa) == guestByte[pa] # "patched"

\* The byte saved for a breakpointed address is the guest's own byte and never an INT3, whatever
\* the vCPUs do and also while its INT3 is being removed: what disableEvent and removeInterrupt
\* write back is right.
SavedByteIsGuestByte ==
    \A pa \in PAs : bps[pa] # {} \/ removing = pa =>
        /\ original[pa] \notin {None, INT3}
        /\ Unpatched(pa) => original[pa] = guestByte[pa]

\* paToBreakpointStatus tells what is in memory: contextSwitchCallback and createBreakpoint rely on
\* it when they decide not to write.  An INT3 that is not the guest's own has the status Enable.
StatusTellsMemory ==
    \A pa \in PAs :
        /\ mem[pa] = INT3 /\ guestByte[pa] # INT3 => status[pa] = "Enable"
        /\ status[pa] = "Enable" /\ Unpatched(pa) => mem[pa] = INT3
        /\ status[pa] # "Enable" /\ Unpatched(pa) => mem[pa] = guestByte[pa]

\* A single-step event finds the callback of its vCPU set, and a vCPU that runs freely has none:
\* singleStepCallback would call an empty function, and the next setSingleStepCallback would throw.
StepCallbackMatchesVcpu ==
    \A v \in VCPUs :
        /\ mode[v] \in {"step", "stepped"} => stepPA[v] # None
        /\ mode[v] \in {"run", "cr3"} => stepPA[v] = None

\* The thread is consistent with the tables it works on: callbacks run for a trapped vCPU at an
\* address that stays breakpointed, so disableEvent finds a saved byte, and the address whose INT3
\* is being removed gets no new breakpoint meanwhile.
ThreadInv ==
    /\ handling # None => mode[handling] = "int3" /\ bps[rip[handling]] # {}
    /\ \A v \in VCPUs : mode[v] = "int3" => rip[v] # None
    /\ creating = None \/ removing = None
    /\ removing # None => bps[removing] = {}
    /\ draining => removing # None

-----------------------------------------------------------------------------
(* Properties of a guest with one vCPU that does not overwrite its own code *)

\* Every INT3 the supervisor has placed belongs to a breakpoint: remove takes the INT3 of the last
\* breakpoint out of the guest, and teardown leaves the guest's code as it was.
NoStrayInt3 ==
    \A pa \in PAs : bps[pa] = {} /\ removing # pa => mem[pa] = guestByte[pa]

\* What the guest reads: the guard of a page answers from its copy.  That also answers for the bytes
\* behind the page, to a read that starts in the page and ends in the next one.
ReadsWithin(pa) == IF GFN[pa] \in pages THEN shadow[GFN[pa]][pa] ELSE mem[pa]
ReadsAcross(pa) == {shadow[gfn][pa] : gfn \in pages \ {GFN[pa]}} \ {None}
GuestReads(pa)  == {ReadsWithin(pa)} \cup ReadsAcross(pa)

\* Addresses in the 16 bytes that some guard has read with its page.
BehindGuards == UNION {Following[b] : b \in {c \in Breakpoints : GFN[TargetPA[c]] \in pages}}

\* No breakpoint is visible to the guest through a read within a page, in no step of createBreakpoint
\* and deleteBreakpoint.  What shows one, or zeros, is a read that starts in a guarded page and ends
\* in the 16 bytes behind it, and no other.
ReadsHideInt3 ==
    \A pa \in PAs :
        /\ ReadsWithin(pa) = guestByte[pa]
        /\ pa \notin BehindGuards => GuestReads(pa) = {guestByte[pa]}

\* Breakpoints the guest is bound to hit if it executes their address now.
ActiveBreakpoints(v) ==
    {b \in Breakpoints : b \in bps[TargetPA[b]] /\ (b \in Global \/ DtbOf[b] = dtb[v])}

Int3InPlace(b) == mem[TargetPA[b]] = INT3

\* While the guest runs, each breakpoint for its current address space is in memory: no interleaving
\* of hits, single steps, context switches and breakpoints of other processes at the same address
\* makes the supervisor miss a hit.
NoMissedHit ==
    \A v \in VCPUs : phase = "running" /\ mode[v] = "run" =>
        \A b \in ActiveBreakpoints(v) : Int3InPlace(b)

\* The mutexes of deleteBreakpoint and eventsListen are never waited for by their owner as long
\* as the event loop runs.
NoHangWhileRunning == hung => phase # "running"

\* A vCPU that waits for the supervisor gets its answer and its step done, unless the VM is stopped.
EventsAnswered ==
    \A v \in VCPUs : mode[v] # "run" ~> (mode[v] = "run" \/ phase # "running")

-----------------------------------------------------------------------------
(* The refinement of BreakpointService, for one vCPU and callbacks that answer Continue *)

OnlyVcpu == CHOOSE v \in VCPUs : TRUE

Service == INSTANCE BreakpointService WITH
    stage  <- phase,
    placed <- {b \in Breakpoints : b \in bps[TargetPA[b]]},
    space  <- dtb[OnlyVcpu],
    next   <- nextDtb[OnlyVcpu],
    cpu    <- IF handling = None THEN mode[OnlyVcpu] ELSE "called",
    at     <- rip[OnlyVcpu],
    traps  <- {pa \in PAs : mem[pa] = INT3},
    reads  <- [pa \in PAs |-> GuestReads(pa)]

\* The engine is a BreakpointService: seen through its tables every step of it is a step of the
\* service or none, so whenever the guest runs each breakpoint that is due traps, nothing else does
\* and no read within a page shows it, and a trap goes to the guest only if it is the guest's own.
ImplementsService == Service!Spec
=============================================================================
