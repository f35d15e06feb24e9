# TLA+ specifications of VMICore

Models of VMICore (`vmicore/`) and of two of its plugins (`plugins/apitracing`,
`plugins/inmemoryscanner`), checked with TLC and, where it says so, proved with TLAPS. Paths are
relative to the root of the repository; `PROJECT.json` holds the line ranges each definition
stands for.

VMICore attaches to a virtual machine through libvmi, writes INT3 instructions into the guest's
memory, and calls its own code and that of plugins whenever the guest runs into one. Most of what
can go wrong lies between the parts: guest memory that changes under the tables that describe it, a
second vCPU that runs while an event of the first is handled, events that are handled inside of
other events, and names (pids, `_EPROCESS` addresses) that the guest uses again.

## Contents

1. The system
2. The modules and the code
3. Runs
4. Theorems
5. Where the code and its documentation disagree
6. What is not modelled
7. Plan

## 1. The system

### Actors

* **The event thread**: `VmiHub::run` sets everything up, calls `eventsListen` until `endVmi` is
  set, unloads the plugins and tears down. All event handlers, and the plugin code they call, run on
  this thread, inside of `eventsListen`.
* **The guest's vCPUs**, which run whenever the VM is not paused. A vCPU that causes an event stands
  still until its event is answered; the others go on.
* **The threads of the scanner**, one per process, started when the plugin is unloaded.
* **The user**, who sends SIGINT or SIGTERM.
* **The thread of the gRPC server** with a task per stream, and the clients at the other end.

### Components

| component | state | operations | what makes it correct |
|---|---|---|---|
| Breakpoint engine: `InterruptEventSupervisor`, `Breakpoint`, `InterruptGuard`, `SingleStepSupervisor`, `RegisterEventSupervisor` (`vmicore/src/lib/vmi`) | `breakpointsByGFN` (breakpoints and page guard of a frame), `originalValuesByTargetPA`, `paToBreakpointStatus`, the single-step callback of each vCPU, and bytes in guest memory | createBreakpoint, remove, the interrupt, single-step and context-switch handlers, teardown | a placed INT3 is known, invisible and reversible; no hit is missed; no vCPU waits forever |
| Process tracking on Windows (`os/windows/ActiveProcessesSupervisor.cpp`, `SystemEventSupervisor.cpp`) | `processInformationByPid`, `pidsByEprocessBase` | walk over the process list, start and termination notifications, getActiveProcesses | both tables lead to every live process, and to no other |
| Process tracking on Linux (`os/linux`, same names) | `processInformationByPid`, `pidsByTaskStruct` | walk over the task list, fork, exec and exit reports | a report that is missed or fails harms no task but those with its pid |
| Memory regions (`VadTreeWin10.cpp`, `MMExtractor.cpp`, `PageProtection.cpp`) and kernel access (`KernelAccess.cpp`) | the stack and the visited set of a walk, the cached table of protections | a walk over a tree or a list that the guest may rewrite | each region once, no region without a reason to leave it out, and an end |
| libvmi binding (`LibvmiInterface.cpp`, `MemoryMapping.cpp`) | `vmiInstance`, `libvmiLock`, `eventsListenLock`, mappings; in libvmi: caches and the pause | reads, translations, flushes, events, pause and resume, mappings | one thread at a time, nothing stale is read while the guest stands still, everything is given back |
| Run of VMICore and plugin system (`VmiHub.cpp`, `plugins/PluginSystem.cpp`, `GlobalControl.cpp`) | `endVmi`, `postRunPluginAction`, the plugins and their callbacks | setup, event loop, signals, bug check, unload, teardown | plugins are unloaded once, callbacks do not outlive them, the VM is left running and clean |
| Configuration, `main`, gRPC server (`Cmdline.cpp`, `ConfigYAMLParser.cpp`, `main.cpp`, `rust_src`) | three channels of messages, the streams of clients, the thread of the server | log, save a file, send an event, connect, stop | each message to one client, in order; what was sent last is received; the program ends |
| ApiTracing: tracer (`plugins/apitracing/src/lib/Tracer.cpp`, `TracedProcess.cpp`) | `tracedProcesses` by pid, and hooks in the guest | trace and untrace a process, teardown | each traced process lives, each hook has an owner |
| ApiTracing: hooks, configuration and parameters (`TracedProcess.cpp`, `FunctionHook.cpp`, `config`, `os/Extractor.cpp`) | the loaded modules and the hooks of a process | look up the profile, hook its functions, extract the parameters of a call | each function that is listed and mapped is hooked, each traced value is its own argument |
| InMemoryScanner: scanner and Yara binding (`plugins/inmemoryscanner/src/lib`) | counter and list of dumps, results, a semaphore | scan at termination, scan of all at unload, report | bounded parallel scans, unique and faithful dumps, a complete report |

### How they interact

* `SystemEventSupervisor` places two breakpoints, on the kernel's process notification and on its
  bug check. Their callbacks update the process tables and call the callbacks of the plugins: at a
  termination the plugins first, then the tables; at a start the other way round.
* The callbacks of ApiTracing create and remove breakpoints, that is, `createBreakpoint` and
  `deleteBreakpoint` run inside of an event. `deleteBreakpoint` handles pending events itself
  (`eventsListen(0)`, called a *drain* in the modules) while it holds the mutex of the supervisor;
  and `eventsListen` holds a mutex of its own while it calls the handlers.
* The bug check callback unloads the plugins, so they remove their breakpoints inside of an event.
* `VmiHub::run` is called by `main`, which starts the gRPC server before and stops it after it. Logs,
  files and events of all components go through the server's channels; nothing comes back.
* ApiTracing and InMemoryScanner read the memory regions of a process; the first to find the
  libraries whose functions it hooks, the second to scan them. Both get to the guest through
  `LibvmiInterface`, the second from several threads.
* Shared between all of these are the bytes of the guest. The hypervisor keeps nothing back: if the
  guest runs while the supervisor writes, it sees the intermediate states.

### What is hard

`PROJECT.json` lists 40 hazards with their lines. The main families:
interleavings of a second vCPU with a handler (single step against removal, address space switches
of another vCPU); nested handling of events with two plain mutexes; saved copies of guest memory
that may be stale; reuse of pids and addresses; exceptions that skip the second half of an
operation; caches of libvmi and structures of the guest that change while they are walked; messages
that are under way when the program ends; and the end of a run, which several actors may start at
any time.

## 2. The modules and the code

### InterruptEventSupervisor

The breakpoint engine with the vCPUs. Guest memory is one byte per physical address that may be
breakpointed, out of `code`, `patched` (the guest has overwritten its code), `int3` and `zero`;
`guestByte` is what memory would hold without VMICore and exists only for the properties. A vCPU's
`mode` is both what it does and whether it has an event in the ring. `shadow` is the copy each page
guard has made of its page and of the first 16 bytes of the page behind it. The second part is read
as it is, with the INT3s that other breakpoints have put there, or stays zero if that page cannot be
read (`InterruptGuard.cpp:49-66`). Which addresses these are depends on the address space of the
breakpoint, so it is a constant: `Following[b]`. `ReadsWithin` is what a read within a page finds,
`ReadsAcross` what a read that starts in a guarded page and ends in the next one may find
(`InterruptGuard.cpp:123-126`).

| code | module |
|---|---|
| `createBreakpoint` | `CreateBegin` (`CreatePageGuard` with its copy, `ShadowPage`), `CreateFinish` (save the byte, write the INT3; `storeOriginalValue` may throw). The guest runs between the two. |
| `deleteBreakpoint` | `DeleteBegin` (forget the breakpoint, begin a drain if events are pending), `DrainEnd`, `DeleteFinish` (`removeInterrupt` and the page guard) |
| `_defaultInterruptCallback`, `interruptCallback` | `Reinject`, `BeginCallbacks`, `EndCallbacks`. Between the last two plugin code runs and may create and remove breakpoints. |
| `singleStepCallback` | `HandleStep` |
| `contextSwitchCallback` | `HandleContextSwitch` |
| `VmiHub::run`, as far as it drives the engine | `Start`, `AbortSetup`, `Stop`, `Teardown` |
| vCPUs | `GuestExecute`, `GuestStep`, `GuestSwitch`, `GuestWrite` |
| self-deadlock on `lock` or `eventsListenLock` | `hung` |

Simplifications. An instruction at a breakpointed address is one step and does not change CR3: a
breakpoint on a `mov cr3` is outside the model. A callback does not create or remove breakpoints at
the address it was called for, because that changes the vector `interruptCallback` iterates over
and its outcome is undefined (`ThreadInv` states that the code relies on this). `remove` is called
at most once per breakpoint. A page guard that cannot read its own page throws before anything has
changed; this is left out as a step without effect.

### VmiHub

A run from `initializeVmi` to the return of `run`, with the flags of `GlobalControl`, the plugins in
the order of their names, their registered callbacks, and whether they have INT3s in the guest.
Events are reduced to what they do to the run: a process notification (`process`), one that makes a
plugin create or remove breakpoints (`traced`), and a `bugcheck`.

| code | module |
|---|---|
| `VmiHub::run`, up to the loop | `Initialize`, `WatchSystem`, `InitializePlugin`, `PluginNotLoaded` (PluginException, the one that is caught), `PluginThrows`, `Resume`, `SetupSignalHandling` |
| `waitForEvents` | `HandleProcess`, `HandleTraced`, `HandleBugCheck`, `ListenFails`, `LeaveLoop` |
| `keBugCheck2Callback` | `HandleBugCheck` with `UnloadAll`, the nested `unloadPlugins` |
| end of `run`, `unloadPlugins` | `Pause`, `AfterRun`, `UnloadPlugin`, `UnloadEnd`, `Teardown` |
| drains while hooks are removed | `RemoveHooks`, `DrainHangs` |
| exceptions that leave `run` | `CallFails`, `PluginThrows`: `pc = "failed"` |
| SIGINT, SIGTERM | `Signal`; before the handlers are installed it kills the process |

### ActiveProcessesSupervisor and ApiTracing

The first is the process tracking of Windows. `guest[x]` is the life of a process object: `none`,
`inserted` into the kernel's list, `running` (its start has been announced), `exiting`,
`terminated`, `deleted`. A process object has a pid and an address (`PidOf`, `BaseOf`), both may be
those of an earlier, deleted one. The two tables are functions from pids and addresses. `kept` and
`unknown` record the two ways the code is known to lose track: a plugin that throws at a termination
(`SystemEventSupervisor.cpp:70`), and a start whose process information could not be read
(line 80).

ApiTracing extends it with the tracer. Each of its steps takes one of the process tracking along, as
the callbacks do: `ProcessStarts`, `ProcessTerminates`, `Initialize` and `TraceRunning` (the loop of
the plugin over the running processes, while the VM is paused), `Unload`. The module
`ActiveProcessesSupervisor` is thereby the abstract specification the composition implements
(`FollowsProcesses`, proved). A traced process is a record of process, profile and how it was found;
`hooked` is the set of objects with hooks in the guest.

Simplifications. Notifications are not missed: their breakpoint is global and the guest has one vCPU
(`NoMissedHit`, section 4; it does not hold with two, see section 3). The tracer's callback is
called before those of other plugins, because plugins are loaded in the order of their names and
`apitracing` is the first of those in the repository. Unload is one step; what events it may run into
is the subject of VmiHub. Process objects without threads are left out.

`Trusted(p)` in the properties: the termination of a process that was not recorded is reported by
whatever entry is left at its address. If that entry has the pid of a process that lives now, this
process loses its record, and its hooks. It takes both an unrecorded start and an entry left behind
with that pid (`kept`); a process whose pid is trusted is not harmed. That the tracer holds no dead
process, that every hook has its owner, and that nothing else is left in either table holds without
the condition: the record and the traced object of a process are lost together.

### Scanner and YaraInterface

The scanner of InMemoryScanner with its configuration (`Setting`, `dumpMemory`, `IgnoredProcesses`).
Each process has its own control state `at[p]`: `extract` the regions, take the `next`, `dump`,
`append` to the list of dumps, `acquire` a permit of the semaphore, `scan`, `record`. Scans run on
the event thread when a process terminates (one at a time), and on a thread each when the plugin is
unloaded. A region has an owner, a base and the chunks of it that are in memory (`Chunks`). A dump is
a file with a name, made of the process, the base and the id of the region
(`createMemoryRegionInformation`), and with the addresses of its pages, one padding page for each
gap. The file transport may not take it (`Unwritable`); the region is listed all the same.

`YaraInterface` is one scan as pure operators: the blocks made of the chunks, the iterator over them
(`FirstBlock`, `NextBlock`), and the record of each rule that matches (`ScanMemory`). What Yara finds
in a block is a constant (`YaraMatches`); that a scan throws is an action of Scanner.

| code | module |
|---|---|
| `scanProcess` | `ProcessTerminates`, `ExtractRegions`, `NextRegion`, `NoRegionLeft` |
| `scanMemoryRegion`, `Dumping` | `GetNextRegionId`, `AppendRegionInfo` (`PaddedRegion`), `Acquire`, `ScanSucceeds`, `ScanThrows`, `AddResult` (`Reported`) |
| `scanAllProcesses`, `saveOutput` | `Unload`, `UnloadFails`, `SaveOutput` |

### BreakpointService

What the engine promises, without its tables: which breakpoints are placed, what each address does
when it is executed (`traps`) and what it shows when it is read (`reads`). `GuestIsServed` is the
promise: while the guest runs, every breakpoint due in its address space traps, nothing else traps
but the guest's own INT3s, no read shows a breakpoint, and in the end the guest is as it was. The
engine may do what it likes while the guest stands still (`Tidy`). `InterruptEventSupervisor`
instantiates it (`Service`): `placed` is the set of breakpoints in `breakpointsByGFN`, `traps` are
the addresses whose byte is an INT3, `reads` is what the page guard answers. `ImplementsService` is
checked in `one_vcpu` and proved in `InterruptEventSupervisor_proofs`. It is stated for one vCPU and callbacks that
answer Continue; section 5 says what happens otherwise.

### LinuxProcesses

Process tracking on Linux. `guest[x]` is the life of a task (`none`, `live`, `exited`, `reaped`) and
`image[x]` what it executes. As the three breakpoints are created for the address space of pid 0 and
are not global, whether a report is seen is a choice of the guest: each of fork, exec and exit has
an action for the case that it is seen, one for the case that it is missed (`...Unseen`), and one
for each way in which the callback fails (`ForkNotRecorded`, `ExecuteNotRecorded`, `ExecuteInVain`,
`ExitThrows`, `ExitOfUnknown`). `missed` and `kept` are the tasks with which this has happened.
A record is the task and the image it was made for.

### KernelAccess and MemoryRegions

`KernelAccess` says which objects of the kernel the description of a memory area is read from, and
hence when it throws. `MemoryRegions` is the walk: on Windows over the tree of `_MMVAD`s with
`nextVadEntries` and `visitedVadVAs` (`VisitNode`, `SkipVisited`, `SkipUnreadable`), on Linux over
the list of areas (`VisitArea`, `ListFails`). The guest rewrites one link at a time (`Rewrite`);
`Below(n)` is the reference definition of what can be reached. `ReadProtections` and
`ReadProtectionsFails` are the table `mmProtectToValue`, which is read once for all processes and
counts as read even if a read failed on the way.

Left out: the addresses and the size of a region, so also that `end - start + 1` makes a Linux
region one byte too long (`MMExtractor.cpp:33`); how a path is composed across mounts.

### TracingConfig and FunctionHooks

`TracingConfig` is the lookup of a profile as pure operators over the mappings of the file, which
are sequences, as keys may be written twice: the last profile of a name counts, the first entry of a
process, and a name that does not exist gives an empty profile.

`FunctionHooks` extends it and MemoryRegions with one process: the modules found in its regions
(`InitLoadedModules`), its hooks (`SkipModule`, `HookFunction`, `HookFails`, `DefinitionEndless`),
and a call that is traced (`HookCallback`). A value is a function from 0..7 to bytes, and a byte is
named by the place it was read from, so that a wrong slot or a wrong shift shows. The resolution of
types (`BasicType`, `Definable`) uses recursive functions with a bound on their depth: whatever
exceeds the number of types is a cycle. `ParametersOwn` compares the values with the calling
convention (`Argument`).

### Configuration and GRPCServer

`Configuration` are the command line and the file as pure operators, up to the exit code of the
setup. `GRPCServer` is `main` around `VmiHub::run` and everything that is sent: `main` with the calls
of `stop_server` in their order (`CloseChannels`, `Drained` or `DrainTimedOut`, `Join`), the thread
of the server, and a state for each stream. The messages of a channel are numbered, so those in the
channel are `taken + 1 .. sent`; `held[s]` are the ones under way to a client (at most `Window`),
`got[s]` those received.

### LibvmiInterface

Every call of libvmi is a record: the caches it goes through, whether it takes `libvmiLock`, how it
fails and what it changes. The event thread makes the calls of each stage of a run in their order
(`agenda`) and any others in between; the scanner's threads make theirs during the unload. `cache` is
what libvmi has cached of each page, `stale` once the guest has changed it (`GuestChanges`);
`mapping` and `held` are a MemoryMapping and what libvmi holds for it. Caches and mappings in
libvmi are external, as are its failures.

| code | module |
|---|---|
| `VmiHub::run` | `Watch`, `PluginsInitialized`, `PluginFails`, `EventsListen`, `LoopEnds`, `UnloadPlugins` or `NothingToUnload` (`postRunPluginAction` is off after a bug check), `RunReturns` |
| a callback | `Interrupt`, `EventHandled`: an event is a stage (`handling`) in which it makes calls |
| `keBugCheck2Callback` | `BugCheck`: the unload begins inside of the event, with `eventsListenLock` held |
| `unloadPlugins` | stage `unloading`; `Unloaded` returns to `run`, or to the event |
| `scanAllProcesses` | `StartScans`, `EndScans` |
| removal of breakpoints in the unload and the teardown | calls of the event thread, and `Drain` (`eventsListen(0)`) with `DrainEnds` and `DrainFails` |
| self-deadlock on `lock` or `eventsListenLock` | `WaitForItself`: stage `hung` |
| `clearInterruptEventHandling`, the destructor | `ClearInterruptEventHandling`, `Destroy` |

`listener` says who called `eventsListen`: the loop of `run`, or a drain of the unload or the
teardown. Events are handled in a drain as in the loop, a bug check among them. Which breakpoints
there are is the subject of InterruptEventSupervisor and VmiHub; here the event thread may make any
calls during the unload and the teardown that these removals make (`AreEventsPending`, `Write8PA`,
`ClearEvent`), and may hang wherever a breakpoint of a plugin can be created or removed in the wrong
place. The writes of `clearInterruptEventHandling` are among the free calls in front of it.

## 3. Runs

All bounds are in the `.cfg` files and the MC modules. Counters of the models are bounded by
constants in the guards (`MaxCalls`, `MaxChanges`, `MaxRegions`, `MaxSent`, `Window`) or by what
there is to count, so there are no state constraints.

| run | instance | what it shows |
|---|---|---|
| `one_vcpu` | 1 vCPU, 2 frames, 3 addresses, 4 breakpoints, 2 address spaces | `NoStrayInt3`, `ReadsHideInt3`, `NoMissedHit`, `NoHangWhileRunning`, every event is answered, and the engine implements BreakpointService |
| `two_vcpus` | the same with 2 interchangeable vCPUs, code that the guest patches, and Deactivate | what holds under every interleaving: `SavedByteIsGuestByte`, `StatusTellsMemory`, `StepCallbackMatchesVcpu`, `ThreadInv` |
| `lifecycle` | 3 plugins, the first and the last with breakpoints, 2 vCPUs | `CallbacksAlive`, `UnloadedOnce`, `HangsOverHooks`, `ShutdownEnds` |
| `tracing` | 4 processes, 3 pids, 2 addresses | both tables and the tracer keep up with pids and addresses that are used again |
| `scanner` | 5 processes, 8 regions, 2 permits, one region that makes Yara throw | bounded scans, unique and faithful dumps, complete report, and the unload ends |
| `linux` | 4 tasks, 3 pids, 3 addresses, 3 images | `HarmIsLocal` and `NoEntryLeaks`, with any report missed |
| `hooking` | every tree and list of 3 nodes, 1 rewritten link, 4 process names, both widths | `RegionsOnce`, `WalkComplete`, `WalkEnds`, `LibrariesHooked`, `ParametersOwn` |
| `shutdown` | 2 clients of one channel, 3 channels, 4 command lines, 3 files | `EachMessageOnce`, `NothingLeftBehind`, `ProgramEnds` |
| `libvmi` | 3 threads, 1 vCPU, 1 page, 4 calls per handler, unload, teardown and scan | `ReadsFresh`, `OneAtATime`, `LeftAsFound`, `UnloadEnds` |
| `stray_int3`, `linux_unseen`, `linux_regions` | | section 5 |

Why the instances are large enough.

* Breakpoint engine: two processes with a breakpoint at the same address (`b1`, `b2`: a shared
  library), a global one (`b3`) at another address of the same frame, so that a page guard has to
  outlive one address and go with the last, and one (`b4`) in a frame of its own at an INT3 of the
  guest, where creation fails after the guard has been registered. In the process of `b4` the page
  behind its own is that of `b1`, whose address is among the 16 bytes that the guard of `b4` copies,
  with or without the INT3 of `b1`, or as zero. Two vCPUs suffice for one to be
  inside any operation while the other does anything; the vCPUs are symmetric.
* Tracing: `parent` (pid 2, address A) and its `child` (pid 1, address B); `next` gets the pid of the
  first and the address of the second, `last` the address of `parent`. So a pid is used again at
  another address, and an address under another pid. One process is unreadable, one makes a plugin
  throw, a child has a lower pid than its parent.
* Scanner: three processes compete for two permits; one has a region in two chunks with a gap, one
  that is skipped, one a region that is not in memory; one process is excluded, the regions of one
  cannot be extracted. One scan that throws leaves one permit, with which the unload still ends.
* Linux: `first` leaves its pid to `heir` and its address to `tenant`, a thread, so that each table
  can be spoilt without the other. Of the images one cannot be recorded, one makes a plugin throw.
* Lifecycle: with plugin 2 between two that have breakpoints, an unload may get stuck before, between
  and after others; a second vCPU gives a second event to be handled in the same `eventsListen`.
* Hooking: with three nodes a rewritten link can give a cycle, a node met twice and a part that is
  cut off; one node cannot be read, one cannot be named. The parameters of the traced function fill
  the registers and go on to the stack, with sizes of 2, 4 and 8 bytes, a string and a structure.
* Shutdown: two clients share a channel, which one could not tell; nobody listens to the others, so
  the wait for empty channels times out. A window of one lets a stream hold a message when it is told
  to end.
* Libvmi: two scanners and the event thread compete for the lock. Four calls suffice for a mapping,
  a read and a failure in any order, and for an unload that starts its scans, drains, and meets in
  the drain an event whose callback makes a call. Entries of different pages do not depend on each
  other, so that one page shows all that can become of an entry.

What does *not* hold with two vCPUs and is therefore not checked there: `NoMissedHit`
(`contextSwitchCallback` sets all breakpoints for the address space of the vCPU that switched last,
`InterruptEventSupervisor.cpp:254`, and a vCPU that steps over a breakpoint has it disabled for the
others), `NoStrayInt3` (section 5), `NoHangWhileRunning` (a callback that removes a breakpoint while
another vCPU has an event pending), and with them `ImplementsService`. `ReadsFresh` says nothing of
callbacks there, since the guest runs on while a callback reads. With code that is patched while
breakpoints are set, `ReadsHideInt3` does not hold: a guarded page answers reads from the copy made
at registration.

### Type invariants

Each module with state has one. Those of the breakpoint engine and of FunctionHooks (which includes
that of MemoryRegions) are checked in `two_vcpus` and `hooking`. Those of all modules with state
are proved (section 4).

### Fairness

* `InterruptEventSupervisor`: the loop of `waitForEvents` calls `eventsListen` again and again, and
  libvmi hands over every request in the ring, so the handler of each vCPU's event is fair (strongly,
  as the thread may do other things in between); plugin callbacks return; `createBreakpoint` and
  `deleteBreakpoint` go on; the hypervisor runs a vCPU that single-steps. Nothing forces the guest to
  execute a breakpoint, or the run to end.
* `VmiHub`: `run` goes on wherever it can, and the event of each vCPU is handed over. `ShutdownEnds`
  allows for a thread that hangs, since the code may hang (`DrainHangs`).
* `Scanner`: each scanning thread goes on where it can, a Yara scan ends (it has a timeout), and
  `saveOutput` follows.
* `MemoryRegions`: the loop of a walk goes on; the guest may do nothing. A walk over a list that the
  guest has bent to a cycle never ends on Linux, which `WalkEnds` allows for.
* `GRPCServer`: `main`, the thread of the server and the tasks of the streams run, and a client
  reads what it is sent or its connection is lost (`Deliver` is fair as long as there is something to
  deliver). The code has no timeout of its own for a client that neither reads nor goes: the join
  waits for it, whatever was given to `stop`.
* `LibvmiInterface`: threads run, a call of libvmi answers. Weak fairness suffices, since whoever
  holds the mutex gives it back and the threads make a bounded number of calls. The loop may handle
  any number of events; those handled after a bug check, or in a drain, are in the ring already and
  count as calls. `UnloadEnds` allows for a thread that waits for itself over the breakpoints of a
  plugin (`WaitForItself`), as `ShutdownEnds` of VmiHub does.
* `ApiTracing` and `LinuxProcesses` have no liveness properties: they react to the guest only.

Deadlock is checked except in `tracing`, `linux`, `hooking` and `shutdown` (with the violation runs
of their modules), where the run, the walk or the program ends. The other specifications have a
stuttering step for their end (`Halted`, `Unloaded`, `Stopped`).

## 4. Theorems

TLC checks the instances above; TLAPS proves the following for every value of the constants that
satisfies the assumptions of the module (`ConstantsAssumption`, `HubAssumption`,
`ProcessAssumption`, `TracingAssumption`, `ScannerAssumption`, `TasksAssumption`,
`ConfigurationAssumption`, `ServerAssumption`, `LibvmiAssumption`: what the constants are, that distinct names do not
coincide, and that a process has a pid and an address). No theorem needs a finite number of
addresses, breakpoints, processes or plugins, unless the property counts them. Each module of proofs
has the theorem that its variables keep their types.

A few theorems are about what the code computes, and rest on assumptions about its data:

* `YaraAssumption` and `RegionsAssumption` of Scanner: pages have a size, addresses are numbers, and
  the chunks of a region follow each other, as `mmapGuest` returns them.
* `RegionsAssumption` of MemoryRegions: there are finitely many nodes, no more than `MaxRegions`,
  since a list that has no cycle is to be kept in full.
* `ConfigAssumption`, `DefinitionsAssumption`: the configuration and the definitions are sequences, as
  the YAML file has them; there are finitely many types, and a basic type has 1 to 8 bytes.
* `HandleAssumption`: with 64 bits a handle is backed by eight bytes, and no name stands both for a
  structure or a handle and for a basic type. So it is in `functionDefinitions.yaml`. A parameter that
  is a structure has the size of a handle by the definitions and the width of the process in
  `getShallowExtractedParams`: that both are the same is what `ParametersOwn` needs of it.

### Breakpoint engine, any number of vCPUs (`InterruptEventSupervisor_proofs`)

`ThreadInv` says that the thread's own position fits the tables, `StepCallbackMatchesVcpu` that a
vCPU has a single-step callback exactly while it steps. Both are inductive given the types.
`SavedByteIsGuestByte` and `StatusTellsMemory` are so only together: `disableEvent` restores the
byte in memory from the saved one, and whether a saved byte is right depends on what was in memory
when it was read, which the status tells.

### Breakpoint engine, one vCPU, no patched code (`InterruptEventSupervisor_proofs`)

The theorems are stated for `OneVcpu(v)`: `VCPUs = {v}` and `Patchable = {}`. All rest on
`OneAtATime(v)`: while the vCPU steps over an instruction the thread does nothing else, and the
stepped address remains breakpointed until the INT3 is back, or its removal waits for that. From it
follow that no INT3 is left (`NoInt3Left`), that no read within a page shows one (`BreakpointsAreInvisible`, with
`GuardsInv`: a page is guarded before its first INT3 is written and until its last is gone; reads
across the end of a guarded page are excepted, section 5), that
no hit is missed (`NoHitMissed`, with `HitInv`: the status of each address is the one for the
current address space, but for the address that is stepped over), and that the thread does not wait
for itself (`NoSelfDeadlock`, with `HangInv`: in a callback no other event can be pending).

`EngineImplementsService` is the refinement, for callbacks that answer Continue: `ServiceInv` says
where breakpoints may be placed and events pending in each stage, `GuestServed` derives the promise
`GuestIsServed` in every state from the invariants above, and the theorem maps each action to one of
the service or to a stutter.

### Run (`VmiHub_proofs`)

`CallbacksAlive` is inductive. For `UnloadedOnce` the invariant `OnceInv` distinguishes, from the
event loop to the end, states in which nothing has been unloaded and `postRunPluginAction` is set
from those in which a bug check has unloaded everything and has reset it; `current` tells how far the
unload by `run` is.

`RunHangsOverHooks` says what may keep a run from its end, and so is the part of `ShutdownEnds` that
is not about fairness: the thread waits for itself only over breakpoints of a plugin, with an event
pending, in the loop or in the unload. That `Teardown` has no such case is derived, not assumed: by
`OnceInv` a run that was in its loop has no plugin left there, and by `QuietInv` one that was not has
no event pending, because the VM is paused from before the first breakpoint on.

### Process tracking and tracer (`ApiTracing_proofs`)

That the processes in the guest's list have distinct pids and addresses (`Distinct`) is an invariant
of the model of the guest. The inductive invariant of the tables is `Tracked`: records lie under the
pid of their process (`RecordsByPid`), the address of a recorded live process leads to its pid
(`BasesLead`), an address that does so leads to its record unless an entry with the pid was left
behind (`BasesAgree`, `RecordsAgree`), and every entry by address has a reason (`BasesOwned`). Both
`LiveProcessesKnown` and `NoEntryLeaks` follow from it. `TrustedIsReported` is the lemma that a
termination is reported as its own where the pid is trusted.

`FollowsProcesses` shows that the composition with the tracer implements `PsSpec` (initial states and
each step), so that these invariants carry over. `TracerInv` adds what holds while the plugin runs
through the processes (`WhileInitializing`): nothing is traced yet under the pids still to come; and
that a traced process is recorded, and known to be early if it was traced before its announcement
(`TracedRecorded`). `TracedToTheEnd` is an action property: no step takes a process out of the tracer
before it terminates.

### Process tracking on Linux (`LinuxProcesses_proofs`)

`HarmIsLocal` and `NoEntryLeaks` are inductive only together, as `Tracked`, with the types, that
tasks present in the guest have names of their own (`NamesUnique`), that a record lies under the pid
of its task (`RecordsByPid`), and that the address of a recorded task leads to its pid
(`AddressesKnown`). The lemmas
`TablesKept`, `TablesAdded`, `TablesRemoved`, `TablesReplaced` and `TablesAttached` are the five
things that an action can do to the tables.

### gRPC server (`GRPCServer_proofs`)

The invariant has two halves. `Dealt` says of single messages what `EachMessageOnce` says of sets:
each taken message is with exactly one stream. `Progress` relates the states of the streams, of the
server and of `main`: a stream is complete only when its channel was closed and empty, after which
nothing is sent, and a server that has stopped has no stream with anything under way.

### Scanner (`Scanner_proofs`)

`DumpIdsUnique` needs `IdInv`: ids given out are below the counter. `OutputHasEveryRegion` is the
part of `SavedOutputComplete` that depends on the interleaving: `ProgressInv` says where the thread of
each process may be, and `ReportInv` that the results are those of the regions behind a thread that
did not fail, and the list of dumps those behind the listing.

`ScansAreBounded` accounts for every permit: `PermitInv` is the equation that each is free, with a
scan, or lost with a scan that has thrown. `PermitStep` needs `ProgressInv` and `ReportInv`, as a
region that failed twice would cost two permits and count once. With more permits than regions whose
scan may throw, none waits for a permit that nobody will give back.

`OutputComplete` adds what a scan finds. The blocks that the iterator hands to Yara are the chunks in
their order (`IteratedAll`, an induction over the blocks), so that the matches a scan reports are all
those in the chunks of the region, each at the address of its chunk plus its offset
(`ReportedMatches`). `DumpsAreFaithful` is about the files: `PaddedRegionFaithful` shows, by
induction over the chunks, that the dump of a region has the addresses of all its pages in their
order, with padding in between and no other pages; `DumpInv` that the file an entry names was made of
the region of that entry, unless it could not be written, and that no other file lies there. It is
inductive only with `IdInv`: `NamesDiffer` needs that an id is not given out twice.

### Memory regions (`FunctionHooks_proofs`)

The theorems are about the walk as the hooks use it; `StepsOfWalk` shows that hooking never touches
it. `RegionsOnce` follows from `VisitedInv`, that only visited nodes have regions.
`WalkReturnsReachable` is `WalkComplete` for Windows, with reachability stated by sets that no link
leaves instead of by the recursive function `Below`: `WalkInv` says that the links of a visited node
were visited or wait on the stack, and that every such set holds what was visited or waits. At the
end the stack is empty, so the visited nodes are themselves such a set, and the least one.

`WalkIsComplete` is `WalkComplete` for both systems and with `Below`. `BelowIsReachable` shows that the
recursive function reaches the least such set: it grows by at least a node with each step until it
is closed, so it is closed after as many steps as there are nodes. On Linux `ListInv` says that
the regions are a path along the links of the list, in which no area comes twice
(`NextAreaIsNew`, because no two areas link the same one), and `ListReturnsReachable` that the path
has ended at a null pointer, so that its areas are a closed set.

`WalkMakesProgress` is the part of `WalkEnds` that is not about fairness, on Windows: three times the
nodes that were not seen yet plus the length of the stack decreases with each step but the last, and
no rewrite of the guest changes it.

### Hooks and parameters (`FunctionHooks_proofs`)

`HooksInvariant` gathers what holds of the hooks: which modules are loaded is what the finished walk
has returned, and every entry of the profile that was passed over is hooked or failed if its module is
loaded. `LibrariesAreHooked` needs two things besides. What the configuration computes is stated by
`ProfileOfProcess`, `ListedIsTraced` and `ProfileIsSequence`: the profile that the folds over the
mappings find has each function that the file lists for the process. And by `WalkIsComplete` a library
that can be read is among the regions, which `RegionsDescribed` says are those `createVadt` makes.

`ParametersAreOwn` is about the extraction of parameters. `BasicTypeOrFails` shows that the recursive
function that resolves a type ends at a basic type or fails, `DefinableHasBasicType` that a function
that was hooked has only parameters that resolve, `OneSlotEach` that with 32 bits the arguments in
front of the first wide one take one slot each, and `BytesKept` with `LowOfLow` that the shifts keep
the bytes of the argument, with 64 bits no others.

### libvmi (`LibvmiInterface_proofs`)

The invariant `IInv` says in which stages a thread may be busy, what the event thread may be
doing there and where `eventsListen` is entered (`RunInv`), what that means for the instance and the
VM (`VmInv`: an unload outside of an event, with its drains, finds the VM paused), what a call in
progress says of the lock and of the mapping of its thread (`CallInv`), how often a mapping is held
(`HeldInv`), that the owner of the lock is inside of libvmi (`LockInv`), and that a stale entry waits
for its flush (`FreshInv`: also behind a drain of the unload, which comes back to fresh caches because
the guest stands still during it). `AgendaFacts` is the lemma that the rest of an agenda is an agenda
of the same stage.

`OneCallAtATime` follows because the only unlocked call that is not a free is made by the event
thread, in stages without scanners, and because whoever waits for the scanners, `run` or a bug
check inside of an event, neither polls nor leaves before they are done. It says also that no exception
leaves the lock behind, the part of `UnloadEnds` that is not about fairness. `GuestLeftAsFound` holds
because only stages with an owner of a mapping have one, and because whatever came before, a run
returns through the agenda that ends with `resumeVm`. `CallbacksReadFresh` holds because a call to a
page is not made before the agenda of the stage is empty.

### Only model-checked

Every invariant and every action property that a passing run checks is stated by a theorem. What is
left to TLC is liveness (`EventsAnswered`, `ShutdownEnds`, `UnloadFinishes`, `WalkEnds`,
`ProgramEnds`, `UnloadEnds`), because fairness and ENABLED are beyond the prover. Of `WalkEnds`,
`UnloadFinishes`, `ShutdownEnds` and `UnloadEnds` the part that is not about fairness is proved, as
said above; so is `NoSelfDeadlock` for `EventsAnswered`.

The library's theorems on induction cannot be used, as they take an operator. The proofs by induction
go through `LeastElement` instead: a nonempty set of numbers has a least element
(`NatLessThanWellFounded`, `WFMin`), from which `SetInduction` follows, and from it that a function
defined by recursion exists and satisfies its equation (`RecursiveFunction`, `RecursiveSequence`).

## 5. Where the code and its documentation disagree

Each of these runs checks one sentence of the documentation or a comment and ends in a
counterexample. `PROJECT.json` quotes the sentences.

* `stray_int3`: the physical breakpoint is to go with the last object. With two vCPUs, a single step
  that is under way when the last breakpoint is removed writes the INT3 back. Callbacks that remove
  breakpoints are needed for this; `BpResponse.h` advises against them, ApiTracing does it.
* `linux_unseen`: `getRunningProcesses` is to return all running processes. On Linux a process that
  is forked while an address space other than that of pid 0 is loaded is not reported.
* `linux_regions`: a representation of all regions is promised. On Linux one area whose flags exceed
  a byte ends the extraction with an exception.

The following were seen in counterexamples of the same models and have no run of their own:

* `BpResponse::Deactivate` is documented to remove the breakpoint. The handler only disables the
  INT3; the next context switch that finds the breakpoint's address space enables it again.
* `deleteBreakpoint` processes pending events so that no interrupt arrives for a removed breakpoint,
  after it has erased the breakpoint's address from the map: with two vCPUs the pending hit is
  reinjected into a guest that has no INT3 there.
* A scan that throws does not release its permit; after YR_MAX_THREADS of them every scan waits, and
  so does the unload.
* On Windows a process that was terminated but still listed when VMICore attached is returned as
  running as soon as its address is used by another.
* A profile can ask for children to be traced. A running child with a lower pid than its parent is
  looked at before the parent is traced.

Met while modelling:

* A page guard answers a read that crosses the end of its page from a copy of the next 16 bytes, made
  with the INT3s that were in them then, and never renewed; if the next page could not be read, the
  answer is zeros (`InterruptGuard.cpp:49-66`, `123-126`). So the guest may see a breakpoint of the
  next page, although that page has a guard of its own. `ReadsHideInt3` and BreakpointService except
  these reads and no others.
* An unload of plugins that hangs: a bug check that is handled in a drain of the unload unloads the
  plugins within their unload, and a plugin that creates or removes a breakpoint in such a drain
  waits for the mutex of the `deleteBreakpoint` around it. `HangsOverHooks` and `UnloadEnds` say
  where this may happen.
* An exception of `eventsListen` within `deleteBreakpoint` leaves an INT3 of which no table knows
  (`forgotten` in VmiHub). A plugin that throws anything but PluginException while it is initialized
  leaves `run` without teardown, and so does a signal before line 194 of `VmiHub.cpp`. After a
  PluginException the plugins that were loaded are destroyed without `unload`, which
  `plugins/Readme.md:76` announces. The exit code `run` returns is dropped by `main.cpp:114`.
* The position of a match in the report is its address plus the base of its region
  (`OutputXML.cpp:43`); `SavedOutputComplete` reads it this way.
* gRPC: the timeout given to `stop` does not bound the join; an address that cannot be bound ends the
  program by `std::terminate`, since the error leaves the function of a thread; an error of Rust in
  the setup ends `main` with 2 and without a message; loggers keep the level they were made with;
  messages under way are lost with a connection; two listeners of one channel share its messages.
* Plugin arguments for a plugin that is not configured are ignored without a word, and a value on the
  command line does not help a file that lacks the key.
* `IIntrospectionAPI.h:16` says thread-safe; `getWindowsBuild`, `freeMappedRegions`, `eventsListen` and
  the destructor do not take `libvmiLock`. `OneAtATime` shows that, but for freed mappings, this does
  no harm as the code stands, although a bug check runs the scans of the unload while
  `eventsListen` is entered: its thread does not poll but waits for them. The destructor ignores the
  status of `vmi_resume_vm` (line 33): after an exception the VM may stay paused. `extractWStringAtVA` returns a string after freeing it
  (`LibvmiInterface.cpp:417`). `createBreakpoint` translates before it flushes.
* A table of protections that was read in part is kept for all later processes
  (`KernelAccess.cpp:291`): nodes whose protection lies beyond it are left out.
* With 32 bits, arguments of eight bytes and those behind them are read from the wrong slots
  (`ParametersOwn` leaves them out). A type that is defined by itself ends the program.

## 6. What is not modelled

| part | why |
|---|---|
| paths across mounts (`PathExtractor.cpp`), sizes of regions | a path is a file or what could not be read of it; no property distinguishes more |
| strings, objects behind pointers, the JSON of a trace (`Extractor.cpp`, second half) | data without control of its own, apart from a string that cannot be read |
| single fields in `KernelAccess`, `KernelOffsets`, `VmiInitData` | one read each, without state or decisions |
| console and legacy file logging | output that nothing reads back |
| YAML, tokio, tonic, async_channel, libvmi, Yara | external; modelled by how the code uses them |
| rapidxml (`inmemoryscanner/src/lib/rapidxml`) | vendored |
| template plugin, tests, build files | no behaviour of their own |
| a read that starts in a page without a guard and ends in one with a guard | how libvmi reports it, with which offset, is not to be seen from the code |
| a hang within libvmi calls with two vCPUs | `WaitForItself` in the loop takes a second vCPU; the run `libvmi` has one, and the hang of two is checked in `lifecycle` |
| the content of guest memory | what the guest writes between a dump and the scan of the same region is not told apart |

## 7. Plan

Done: all components with state. What is left, in this order:

1. **Two vCPUs**: an abstract service that says what plugins may still rely on, weaker than
   BreakpointService, and the proof that the engine implements it.
2. **Measures** like the one of the walk for the unload of Scanner and for the end of `main`.
3. **The content of memory** in Scanner, so that a dump and a scan that differ can be told apart.
