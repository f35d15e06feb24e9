--------------------------- MODULE LibvmiInterface ---------------------------
(***************************************************************************)
(* The binding to libvmi (vmicore/src/lib/vmi/LibvmiInterface.cpp,         *)
(* MemoryMapping.cpp, VmiInitData.cpp) as the run of VMICore uses it       *)
(* (VmiHub::run, PluginSystem::unloadPlugins, interruptCallback, and the   *)
(* threads of the scanner).                                                *)
(*                                                                         *)
(* Every call of libvmi is a record: the caches of libvmi it goes through, *)
(* whether it takes libvmiLock, how it fails and what it changes.  Calls   *)
(* that do not differ in this are the same record.  libvmi itself is       *)
(* external: it translates through a V2P cache and reads through a page    *)
(* cache, and a cached entry is stale once the guest has changed what it   *)
(* was made from.                                                          *)
(***************************************************************************)
EXTENDS Integers, Sequences

CONSTANTS
    EventThread, Scanners, \* the thread of VmiHub::run and those of scanAllProcesses
    Pages,                 \* pages of guest memory
    Vcpus,                 \* vmi_get_num_vcpus
    MaxCalls,              \* bound on the calls of a handler and of a scanner
    None

ASSUME LibvmiAssumption ==
    /\ EventThread \notin Scanners
    /\ Vcpus \in Nat \ {0} /\ MaxCalls \in Nat
    /\ None \notin Pages \cup Scanners \cup {EventThread}

VARIABLES
    stage,     \* where VmiHub::run is
    agenda,    \* the calls this stage makes in any case, in their order
    listener,  \* the caller of eventsListen: the "loop", or a drain of "unloading" or "teardown"
    unload,    \* of the plugins: "due", "begun", "done"
    vmi,       \* vmiInstance: "none", "open", "destroyed"
    paused,    \* the VM
    call, at,  \* the call of each thread: "idle", "waiting" for libvmiLock, "inside" of libvmi
    left,      \* the calls each thread may still make
    libvmiLock, eventsListenLock,
    cache,     \* cache[c][p]: "empty", "valid", "stale"
    mapping,   \* the MemoryMapping of each thread: "none", "mapped", "unmapped"
    held       \* the mappings of each thread that libvmi holds

vars == <<stage, agenda, listener, unload, vmi, paused, call, at, left, libvmiLock,
          eventsListenLock, cache, mapping, held>>

Threads == Scanners \cup {EventThread}
Caches == {"v2p", "page"}
Stages == {"starting", "watching", "resuming", "listening", "handling", "stopping", "unloading",
           "scanning", "teardown", "clearing", "done", "failed", "destroyed", "hung"}

-----------------------------------------------------------------------------
(* The calls.  A checked call may throw before it takes the lock.          *)

Locked(uses, fails, does) ==
    [uses |-> uses, fails |-> fails, does |-> does, locked |-> TRUE, checked |-> FALSE]

Checked(uses, fails, does) ==
    [uses |-> uses, fails |-> fails, does |-> does, locked |-> TRUE, checked |-> TRUE]

Unlocked(does) ==
    [uses |-> {}, fails |-> FALSE, does |-> does, locked |-> FALSE, checked |-> FALSE]

\* createVirtualAddressAccessContext: libvmi walks the page tables; a physical address needs none.
ByPageTable == {"v2p", "page"}
ByPhysicalAddress == {"page"}

InitializeVmi == Checked({}, TRUE, "init") \* VmiInitData may throw

ReadPA == Locked(ByPhysicalAddress, TRUE, "nothing")
ReadVA == Locked(ByPageTable, TRUE, "nothing")
ReadVaTyped == Locked(ByPageTable, TRUE, "nothing")
ReadSized == Checked(ByPageTable, TRUE, "nothing")
\* A read that fails is an answer here; a buffer that is too small throws.
ReadXVA == Checked(ByPageTable, FALSE, "nothing")
Write8PA == Locked(ByPhysicalAddress, TRUE, "nothing")

TranslateKernelSymbol == Locked({}, TRUE, "nothing")
TranslateUserlandSymbol == Locked(ByPageTable, TRUE, "nothing")
ConvertVAToPA == Locked(ByPageTable, TRUE, "nothing")
ConvertPidOrDtb == Locked({"page"}, TRUE, "nothing")

\* A string that cannot be converted is an answer of the first, an exception of the others.
TryExtractString == Locked(ByPageTable, FALSE, "nothing")
ExtractUnicodeString == Locked(ByPageTable, TRUE, "nothing")
ExtractString == Locked(ByPageTable, TRUE, "nothing")

RegisterEvent == Locked({}, TRUE, "nothing")
ClearEvent == Locked({}, TRUE, "nothing")
StopSingleStepForVcpu == Locked({}, TRUE, "nothing")
AreEventsPending == Locked({}, TRUE, "nothing")
GetIds == Locked({}, FALSE, "nothing")
GetOsType == Locked({}, TRUE, "nothing") \* run throws for an unknown one
LookUpOffset == Locked({}, TRUE, "nothing")
LookUpBitfield == Locked({}, TRUE, "nothing")
GetWindowsBuild == Unlocked("nothing")

PauseVm == Locked({}, TRUE, "pause")
ResumeVm == Locked({}, TRUE, "resume")
FlushV2PCache == Locked({}, FALSE, "flush v2p")
FlushPageCache == Locked({}, FALSE, "flush page")

MmapGuest == Locked(ByPageTable, TRUE, "map")
FreeMappedRegions == Unlocked("free")

-----------------------------------------------------------------------------
(* The calls of a stage.                                                   *)

StartAgenda == <<InitializeVmi, GetOsType, PauseVm>>

\* Mutant: an event flushes the V2P cache only.
HitAgendaOneCache == <<FlushV2PCache>>

\* interruptCallback
HitAgenda == <<FlushV2PCache, FlushPageCache>>

\* unloadPlugins
UnloadAgenda == <<FlushV2PCache, FlushPageCache>>

\* clearInterruptEventHandling, then run
TeardownAgenda == <<PauseVm, ClearEvent, ResumeVm, ResumeVm>>

\* What initialize, a plugin, a callback or the removal of a breakpoint may ask for
FreeCalls ==
    {ReadPA, ReadVA, ReadVaTyped, ReadSized, ReadXVA, Write8PA, TranslateKernelSymbol,
     TranslateUserlandSymbol, ConvertVAToPA, ConvertPidOrDtb, TryExtractString,
     ExtractUnicodeString, ExtractString, RegisterEvent, ClearEvent, StopSingleStepForVcpu,
     AreEventsPending, GetIds, GetWindowsBuild, LookUpOffset, LookUpBitfield}

\* What the extraction of regions on a scanner's thread asks for
ScannerCalls == {ReadVA, ReadSized, ReadXVA, TryExtractString, LookUpBitfield}

Targets(op) == IF op.uses = {} THEN {None} ELSE Pages

-----------------------------------------------------------------------------
Init ==
    /\ stage = "starting" /\ agenda = StartAgenda
    /\ listener = "loop" /\ unload = "due"
    /\ vmi = "none" /\ paused = FALSE
    /\ call = [t \in Threads |-> [op |-> GetIds, page |-> None]]
    /\ at = [t \in Threads |-> "idle"]
    /\ left = [t \in Threads |-> 0]
    /\ libvmiLock = None /\ eventsListenLock = None
    /\ cache = [c \in Caches |-> [p \in Pages |-> "empty"]]
    /\ mapping = [t \in Threads |-> "none"]
    /\ held = [t \in Threads |-> 0]

runVars == <<stage, agenda>>
endVars == <<listener, unload>>
libvmiVars == <<vmi, paused, cache, mapping, held>>

\* An exception leaves run, unless it was thrown in an event, by the unload of a plugin or on a
\* scanner's thread.
Raise(t) ==
    IF t = EventThread /\ stage \notin {"handling", "unloading"}
    THEN stage' = "failed" /\ agenda' = <<>>
    ELSE UNCHANGED runVars

Idle == [op |-> GetIds, page |-> None]

Begin(t, op, p) ==
    /\ at[t] = "idle"
    /\ call' = [call EXCEPT ![t] = [op |-> op, page |-> p]]
    /\ at' = [at EXCEPT ![t] = IF op.locked THEN "waiting" ELSE "inside"]

AgendaCall ==
    /\ agenda # <<>>
    /\ Begin(EventThread, Head(agenda), None)
    /\ agenda' = Tail(agenda)
    /\ UNCHANGED <<stage, endVars, left, libvmiLock, eventsListenLock, libvmiVars>>

\* The guards in front of the lock: the size of the buffer, the memory for the init data
Reject(t) ==
    /\ at[t] = "waiting" /\ call[t].op.checked
    /\ at' = [at EXCEPT ![t] = "idle"] /\ call' = [call EXCEPT ![t] = Idle]
    /\ Raise(t)
    /\ UNCHANGED <<endVars, left, libvmiLock, eventsListenLock, libvmiVars>>

\* A bug check that finds the plugins unloaded calls nobody.
MayCall(t) ==
    /\ agenda = <<>> /\ left[t] > 0
    /\ IF t = EventThread
       THEN stage \in {"watching", "handling", "unloading", "teardown"}
            /\ (stage = "unloading" => unload = "begun")
       ELSE stage = "scanning"

FreeCall(t) ==
    /\ MayCall(t)
    /\ \E op \in IF t = EventThread THEN FreeCalls ELSE ScannerCalls :
          \E p \in Targets(op) : Begin(t, op, p)
    /\ left' = [left EXCEPT ![t] = @ - 1]
    /\ UNCHANGED <<runVars, endVars, libvmiLock, eventsListenLock, libvmiVars>>

\* mapProcessMemoryRegion
MapRegion(t) ==
    /\ MayCall(t) /\ mapping[t] = "none"
    /\ stage \in {"handling", "scanning"}
    /\ \E p \in Pages : Begin(t, MmapGuest, p)
    /\ left' = [left EXCEPT ![t] = @ - 1]
    /\ UNCHANGED <<runVars, endVars, libvmiLock, eventsListenLock, libvmiVars>>

\* unmap, by its owner or by the destructor
Unmap(t) ==
    /\ mapping[t] = "mapped"
    /\ Begin(t, FreeMappedRegions, None)
    /\ UNCHANGED <<runVars, endVars, left, libvmiLock, eventsListenLock, libvmiVars>>

\* Mutant: the destructor does not unmap.
DestroyMappingAsItIs(t) ==
    /\ mapping[t] # "none" /\ at[t] = "idle"
    /\ mapping' = [mapping EXCEPT ![t] = "none"]
    /\ UNCHANGED <<runVars, endVars, call, at, left, libvmiLock, eventsListenLock, vmi, paused,
                   cache, held>>

\* The destructor behind its unmap
DestroyMapping(t) ==
    /\ mapping[t] = "unmapped" /\ at[t] = "idle"
    /\ mapping' = [mapping EXCEPT ![t] = "none"]
    /\ UNCHANGED <<runVars, endVars, call, at, left, libvmiLock, eventsListenLock, vmi, paused,
                   cache, held>>

Enter(t) ==
    /\ at[t] = "waiting" /\ libvmiLock = None
    /\ libvmiLock' = t
    /\ at' = [at EXCEPT ![t] = "inside"]
    /\ UNCHANGED <<runVars, endVars, call, left, eventsListenLock, libvmiVars>>

Unlock(t) == libvmiLock' = IF call[t].op.locked THEN None ELSE libvmiLock

Fill(c, p, uses) == IF c \in uses /\ cache[c][p] = "empty" THEN "valid" ELSE cache[c][p]

Flushes(op, c) == op.does = (IF c = "v2p" THEN "flush v2p" ELSE "flush page")

CacheAfter(op, page) ==
    [c \in Caches |-> [p \in Pages |->
        IF Flushes(op, c) THEN "empty"
        ELSE IF p = page THEN Fill(c, p, op.uses) ELSE cache[c][p]]]

\* The call succeeds.
Return(t) ==
    LET op == call[t].op IN
    /\ at[t] = "inside"
    /\ at' = [at EXCEPT ![t] = "idle"] /\ call' = [call EXCEPT ![t] = Idle]
    /\ Unlock(t)
    /\ vmi' = IF op.does = "init" THEN "open" ELSE vmi
    /\ paused' = IF op.does = "pause" THEN TRUE ELSE IF op.does = "resume" THEN FALSE ELSE paused
    /\ cache' = CacheAfter(op, call[t].page)
    /\ mapping' = [mapping EXCEPT ![t] = CASE op.does = "map"  -> "mapped"
                                           [] op.does = "free" -> "unmapped"
                                           [] OTHER -> @]
    /\ held' = [held EXCEPT ![t] = CASE op.does = "map"  -> @ + 1
                                     [] op.does = "free" -> @ - 1
                                     [] OTHER -> @]
    /\ UNCHANGED <<runVars, endVars, left, eventsListenLock>>

\* Mutant: a call that throws is made again.
ThrowAndRetry(t) ==
    /\ at[t] = "inside" /\ call[t].op.fails
    /\ at' = [at EXCEPT ![t] = "waiting"]
    /\ Unlock(t)
    /\ UNCHANGED <<runVars, endVars, call, left, eventsListenLock, libvmiVars>>

\* libvmi answers VMI_FAILURE, and the call throws.
Throw(t) ==
    /\ at[t] = "inside" /\ call[t].op.fails
    /\ at' = [at EXCEPT ![t] = "idle"] /\ call' = [call EXCEPT ![t] = Idle]
    /\ Unlock(t)
    /\ Raise(t)
    /\ UNCHANGED <<endVars, left, eventsListenLock, libvmiVars>>

-----------------------------------------------------------------------------
(* VmiHub::run                                                             *)

Between == at[EventThread] = "idle" /\ agenda = <<>>

GoTo(from, to, calls, free) ==
    /\ Between /\ stage = from
    /\ stage' = to /\ agenda' = calls
    /\ left' = [left EXCEPT ![EventThread] = free]
    /\ UNCHANGED <<call, at, libvmiLock, libvmiVars>>

\* The VM is paused: initialize and initializePlugins follow.
Watch ==
    /\ GoTo("starting", "watching", <<>>, MaxCalls)
    /\ UNCHANGED <<endVars, eventsListenLock>>

PluginsInitialized ==
    /\ GoTo("watching", "resuming", <<ResumeVm>>, 0)
    /\ UNCHANGED <<endVars, eventsListenLock>>

\* A PluginException: the VM stays paused until teardown, and no plugin is unloaded.
PluginFails ==
    /\ GoTo("watching", "teardown", <<>>, MaxCalls)
    /\ UNCHANGED <<endVars, eventsListenLock>>

EventsListen ==
    /\ GoTo("resuming", "listening", <<>>, 0)
    /\ eventsListenLock = None /\ eventsListenLock' = EventThread
    /\ UNCHANGED endVars

\* The loop waits for any number of events; what is handled after a bug check or in a drain is in
\* the ring already.
Endless == listener = "loop" /\ unload = "due"

\* An INT3 of the guest: its vCPU stands still until the callback has returned.
Interrupt ==
    /\ Endless \/ left[EventThread] > 0
    /\ GoTo("listening", "handling", HitAgenda,
            IF Endless THEN MaxCalls ELSE left[EventThread] - 1)
    /\ UNCHANGED <<endVars, eventsListenLock>>

EventHandled ==
    /\ mapping[EventThread] = "none"
    /\ GoTo("handling", "listening", <<>>, IF Endless THEN 0 ELSE left[EventThread])
    /\ UNCHANGED <<endVars, eventsListenLock>>

\* keBugCheck2Callback: the plugins are unloaded in the event, or again in a drain of their unload.
BugCheck ==
    /\ left[EventThread] > 0 /\ mapping[EventThread] = "none"
    /\ GoTo("handling", "unloading", UnloadAgenda,
            IF unload = "due" THEN MaxCalls ELSE left[EventThread] - 1)
    /\ unload' = IF unload = "due" THEN "begun" ELSE unload
    /\ UNCHANGED <<listener, eventsListenLock>>

\* A signal, a bug check behind its unload, or a failure of vmi_events_listen ends the loop.
LoopEnds ==
    /\ listener = "loop"
    /\ GoTo("listening", "stopping", <<PauseVm>>, 0)
    /\ eventsListenLock' = None
    /\ UNCHANGED endVars

UnloadPlugins ==
    /\ unload = "due" /\ unload' = "begun"
    /\ GoTo("stopping", "unloading", UnloadAgenda, MaxCalls)
    /\ UNCHANGED <<listener, eventsListenLock>>

\* postRunPluginAction is off after a bug check.
NothingToUnload ==
    /\ unload = "done"
    /\ GoTo("stopping", "teardown", <<>>, MaxCalls)
    /\ UNCHANGED <<endVars, eventsListenLock>>

-----------------------------------------------------------------------------
(* The unload and the teardown.  Both remove breakpoints, and              *)
(* deleteBreakpoint first handles the events that are pending.             *)

StartScans ==
    /\ Between /\ stage = "unloading" /\ MayCall(EventThread)
    /\ stage' = "scanning"
    /\ left' = [t \in Threads |-> IF t \in Scanners THEN MaxCalls ELSE left[t] - 1]
    /\ UNCHANGED <<agenda, endVars, call, at, libvmiLock, eventsListenLock, libvmiVars>>

\* Mutant: the unload does not wait for its threads.
ScansOverUnchecked == TRUE

\* The futures of scanAllProcesses are ready.
ScansOver == \A s \in Scanners : left[s] = 0 /\ at[s] = "idle" /\ mapping[s] = "none"

EndScans ==
    /\ ScansOver
    /\ GoTo("scanning", "unloading", <<>>, left[EventThread])
    /\ UNCHANGED <<endVars, eventsListenLock>>

Drain ==
    /\ eventsListenLock = None /\ left[EventThread] > 0
    /\ stage \in {"unloading", "teardown"} /\ unload # "due"
    /\ GoTo(stage, "listening", <<>>, left[EventThread] - 1)
    /\ listener' = stage /\ eventsListenLock' = EventThread
    /\ UNCHANGED unload

\* Whether vmi_events_listen succeeds or throws: the unload goes on with its next plugin.
DrainEnds ==
    /\ listener # "loop"
    /\ GoTo("listening", listener, <<>>, left[EventThread])
    /\ listener' = "loop" /\ eventsListenLock' = None
    /\ UNCHANGED unload

DrainFails ==
    /\ listener = "teardown"
    /\ GoTo("listening", "failed", <<>>, 0)
    /\ listener' = "loop" /\ eventsListenLock' = None
    /\ UNCHANGED unload

\* As long as there are plugins, a callback or the unload of a bug check waits for the thread itself:
\* where it drains within the loop, which takes the event of a second vCPU, for eventsListenLock; in
\* a drain of the unload, where it creates or removes a breakpoint, for the lock of deleteBreakpoint.
WaitForItself ==
    /\ stage \in {"handling", "unloading"} /\ mapping[EventThread] = "none"
    /\ unload # "done" /\ eventsListenLock # None
    /\ listener = "loop" => Vcpus > 1
    /\ GoTo(stage, "hung", <<>>, 0)
    /\ UNCHANGED <<endVars, eventsListenLock>>

\* Back in run, or in keBugCheck2Callback.  An unload within an unload comes to no end: it removes
\* the breakpoint again whose removal drains.
Unloaded ==
    /\ IF eventsListenLock = None
       THEN GoTo("unloading", "teardown", <<>>, MaxCalls)
       ELSE listener # "unloading" /\ GoTo("unloading", "handling", <<>>, left[EventThread])
    /\ unload' = "done"
    /\ UNCHANGED <<listener, eventsListenLock>>

\* The breakpoints of SystemEventSupervisor are removed.
ClearInterruptEventHandling ==
    /\ GoTo("teardown", "clearing", TeardownAgenda, 0)
    /\ UNCHANGED <<endVars, eventsListenLock>>

RunReturns == GoTo("clearing", "done", <<>>, 0) /\ UNCHANGED <<endVars, eventsListenLock>>

\* The destructor resumes the VM, whether or not that succeeds, and destroys the instance, without
\* the lock.
Destroy ==
    /\ Between /\ stage \in {"done", "failed"}
    /\ stage' = "destroyed"
    /\ vmi' = "destroyed" /\ paused' \in {paused, FALSE}
    /\ UNCHANGED <<agenda, endVars, call, at, left, libvmiLock, eventsListenLock, cache, mapping,
                   held>>

Stopped == stage \in {"destroyed", "hung"} /\ UNCHANGED vars

-----------------------------------------------------------------------------
(* The guest                                                               *)

InEvent ==
    \/ stage = "handling"
    \/ stage \in {"unloading", "scanning"} /\ eventsListenLock # None

\* A handler stops one vCPU.
GuestRuns == ~paused /\ (InEvent => Vcpus > 1)

\* The guest changes its page tables or its memory: what was cached of it is stale.
GuestChanges(c, p) ==
    /\ GuestRuns /\ vmi = "open" /\ cache[c][p] = "valid"
    /\ cache' = [cache EXCEPT ![c][p] = "stale"]
    /\ UNCHANGED <<runVars, endVars, vmi, paused, call, at, left, libvmiLock, eventsListenLock,
                   mapping, held>>

-----------------------------------------------------------------------------
ThreadStep(t) ==
    \/ FreeCall(t)
    \/ MapRegion(t)
    \/ Unmap(t)
    \/ DestroyMapping(t)
    \/ Reject(t)
    \/ Enter(t)
    \/ Return(t)
    \/ Throw(t)

RunStep ==
    \/ AgendaCall
    \/ Watch
    \/ PluginsInitialized
    \/ PluginFails
    \/ EventsListen
    \/ Interrupt
    \/ EventHandled
    \/ BugCheck
    \/ LoopEnds
    \/ UnloadPlugins
    \/ NothingToUnload
    \/ StartScans
    \/ EndScans
    \/ Drain
    \/ DrainEnds
    \/ DrainFails
    \/ WaitForItself
    \/ Unloaded
    \/ ClearInterruptEventHandling
    \/ RunReturns
    \/ Destroy

Next ==
    \/ \E t \in Threads : ThreadStep(t)
    \/ RunStep
    \/ \E c \in Caches, p \in Pages : GuestChanges(c, p)
    \/ Stopped

Spec == Init /\ [][Next]_vars

\* Threads run, and libvmi answers.
FairSpec == Spec /\ WF_vars(RunStep) /\ \A t \in Threads : WF_vars(ThreadStep(t))

-----------------------------------------------------------------------------
Operations ==
    [uses : SUBSET Caches, fails : BOOLEAN, locked : BOOLEAN, checked : BOOLEAN,
     does : {"nothing", "init", "pause", "resume", "flush v2p", "flush page", "map", "free"}]

TypeOK ==
    /\ stage \in Stages /\ agenda \in Seq(Operations)
    /\ listener \in {"loop", "unloading", "teardown"} /\ unload \in {"due", "begun", "done"}
    /\ vmi \in {"none", "open", "destroyed"} /\ paused \in BOOLEAN
    /\ call \in [Threads -> [op : Operations, page : Pages \cup {None}]]
    /\ at \in [Threads -> {"idle", "waiting", "inside"}]
    /\ left \in [Threads -> Nat]
    /\ libvmiLock \in Threads \cup {None} /\ eventsListenLock \in {None, EventThread}
    /\ cache \in [Caches -> [Pages -> {"empty", "valid", "stale"}]]
    /\ mapping \in [Threads -> {"none", "mapped", "unmapped"}]
    /\ held \in [Threads -> Int]

\* InterruptEventSupervisor.cpp:210, PluginSystem.cpp:206: what a callback, or a scan of the unload,
\* learns while the guest stands still is never made from an entry that the guest has outdated.
ReadsFresh ==
    \A t \in Threads :
        stage \in {"handling", "unloading", "scanning"} /\ at[t] = "inside"
        /\ call[t].page # None /\ ~GuestRuns
        => \A c \in call[t].op.uses : cache[c][call[t].page] # "stale"

\* libvmi is never entered by two threads at once; only regions are freed beside other calls.
\* eventsListen does not take libvmiLock, and the destructor does not either: whenever a scanner is in
\* a call, the instance is open and the event thread does not poll for events, whether run waits for
\* the scanners or a bug check in the middle of an event.  And no thread waits for one that has left:
\* whoever holds libvmiLock is inside of libvmi, also after an exception.
OneAtATime ==
    /\ \A t, u \in Threads :
          t # u /\ at[t] = "inside" /\ at[u] = "inside" =>
              "free" \in {call[t].op.does, call[u].op.does}
    /\ \A s \in Scanners : at[s] # "idle" => vmi = "open" /\ stage # "listening"
    /\ libvmiLock # None => at[libvmiLock] = "inside" /\ call[libvmiLock].op.locked

\* Every mapping is given back exactly once, whatever fails, and none is left in the end.  A run that
\* returns, on whichever way, has resumed the guest; behind an exception it is only the destructor
\* that does, if that call succeeds.
LeftAsFound ==
    /\ \A t \in Threads : held[t] = IF mapping[t] = "mapped" THEN 1 ELSE 0
    /\ stage = "done" => ~paused
    /\ stage = "destroyed" => \A t \in Threads : held[t] = 0

\* An unload that has begun comes to the end of the program, whatever calls of its threads fail, or
\* to a thread that waits for itself over the breakpoints of a plugin.
UnloadEnds == stage = "unloading" ~> stage \in {"destroyed", "hung"}
=============================================================================
