------------------------------- MODULE VmiHub -------------------------------
(***************************************************************************)
(* One run of VMICore: VmiHub::run (vmicore/src/lib/VmiHub.cpp) with the   *)
(* loading and unloading of plugins (plugins/PluginSystem.cpp) and the     *)
(* bug check callback of os/windows/SystemEventSupervisor.cpp.             *)
(*                                                                         *)
(* Actors are the thread that executes run, the guest, whose vCPUs raise   *)
(* events while the VM runs, and the user, who sends signals.  Of an event *)
(* only its effect on the run counts; how it gets from an INT3 to its      *)
(* callback is the subject of InterruptEventSupervisor.                    *)
(***************************************************************************)
EXTENDS Naturals, FiniteSets

CONSTANTS
    NumPlugins,   \* configured plugins; they are loaded and unloaded in the order of their names
    Hooking,      \* the plugins that place breakpoints of their own, as ApiTracing does
    VCPUs,        \* the virtual CPUs of the guest
    None          \* no event

Plugins == 1 .. NumPlugins

\* A process starts or ends; it does so and a plugin creates or removes breakpoints because of it;
\* the guest crashes.
Kinds == {"process", "traced", "bugcheck"}

Places == {"initialize", "plugins", "ready", "loop", "pause", "afterRun", "unload", "teardown",
           "returned", "failed", "killed"}

ASSUME HubAssumption ==
    /\ NumPlugins \in Nat
    /\ Hooking \subseteq Plugins
    /\ None \notin Kinds

VARIABLES
    pc,                   \* where VmiHub::run is; "failed": left by an exception
    paused,               \* the VM is paused
    endVmi,               \* GlobalControl::endVmi
    postRunPluginAction,  \* GlobalControl::postRunPluginAction
    handlers,             \* the signal handlers are installed
    watching,             \* the breakpoints of SystemEventSupervisor are in the guest
    plugins,              \* PluginSystem::plugins
    registered,           \* the plugins whose callbacks are registered
    hooked,               \* the plugins that have breakpoints in the guest
    forgotten,            \* those of them of which InterruptEventSupervisor does not know any more
    unloads,              \* unloads[p]: how often unload of p was called
    current,              \* the plugin that unloadPlugins has reached
    event,                \* event[v]: the event of v in the ring
    hung                  \* the thread waits for a mutex it holds

switches == <<endVmi, postRunPluginAction, handlers>>
loaded   == <<plugins, registered, unloads>>
int3s    == <<watching, hooked, forgotten>>
vars == <<pc, paused, endVmi, postRunPluginAction, handlers, watching, plugins, registered,
          hooked, forgotten, unloads, current, event, hung>>

Init ==
    /\ pc = "initialize"
    /\ paused = FALSE
    /\ endVmi = FALSE /\ postRunPluginAction = FALSE /\ handlers = FALSE
    /\ watching = FALSE
    /\ plugins = {} /\ registered = {}
    /\ hooked = {} /\ forgotten = {}
    /\ unloads = [p \in Plugins |-> 0]
    /\ current = 1
    /\ event = [v \in VCPUs |-> None]
    /\ hung = FALSE

Ended == pc \in {"returned", "failed", "killed"} \/ hung

EventsPending == \E v \in VCPUs : event[v] # None

OthersPending(v) == \E u \in VCPUs \ {v} : event[u] # None

-----------------------------------------------------------------------------
(* Setup: the VM is paused from the first breakpoint to the last plugin. *)

Initialize ==
    /\ pc = "initialize" /\ ~paused
    /\ paused' = TRUE
    /\ UNCHANGED <<pc, switches, int3s, loaded, current, event, hung>>

\* Mutant: the breakpoints are placed before the VM is paused.
WatchUnpaused ==
    /\ pc = "initialize"
    /\ watching' = TRUE
    /\ pc' = "plugins"
    /\ UNCHANGED <<paused, switches, hooked, forgotten, loaded, current, event, hung>>

\* SystemEventSupervisor::initialize
WatchSystem ==
    /\ pc = "initialize" /\ paused
    /\ watching' = TRUE
    /\ pc' = "plugins"
    /\ UNCHANGED <<paused, switches, hooked, forgotten, loaded, current, event, hung>>

\* The init function of the next plugin registers callbacks, and may place breakpoints.
InitializePlugin(p) ==
    /\ pc = "plugins" /\ p = Cardinality(plugins) + 1
    /\ plugins' = plugins \cup {p}
    /\ registered' \in {registered, registered \cup {p}}
    /\ hooked' \in {hooked, hooked \cup ({p} \cap Hooking)}
    /\ UNCHANGED <<pc, paused, switches, watching, forgotten, unloads, current, event, hung>>

\* PluginException, the one exception that run catches: the plugin cannot be loaded.
PluginNotLoaded ==
    /\ pc = "plugins" /\ plugins # Plugins
    /\ pc' = "afterRun"
    /\ UNCHANGED <<paused, switches, int3s, loaded, current, event, hung>>

\* Any other exception leaves run; this one after the plugin has registered its callbacks.
PluginThrows(p) ==
    /\ pc = "plugins" /\ p = Cardinality(plugins) + 1
    /\ registered' = registered \cup {p}
    /\ pc' = "failed"
    /\ UNCHANGED <<paused, switches, int3s, plugins, unloads, current, event, hung>>

Resume ==
    /\ pc = "plugins" /\ plugins = Plugins
    /\ paused' = FALSE
    /\ pc' = "ready"
    /\ UNCHANGED <<switches, int3s, loaded, current, event, hung>>

\* setupSignalHandling and the first line of waitForEvents
SetupSignalHandling ==
    /\ pc = "ready"
    /\ handlers' = TRUE
    /\ postRunPluginAction' = TRUE
    /\ pc' = "loop"
    /\ UNCHANGED <<paused, endVmi, int3s, loaded, current, event, hung>>

-----------------------------------------------------------------------------
(* The event loop.  Once it is in eventsListen it handles what is in the ring, also if endVmi has *)
(* been set meanwhile.                                                                            *)

Answer(v) == event' = [event EXCEPT ![v] = None]

\* A process starts or ends, and the callbacks do not touch breakpoints.
HandleProcess(v) ==
    /\ pc = "loop" /\ event[v] = "process"
    /\ Answer(v)
    /\ UNCHANGED <<pc, paused, switches, int3s, loaded, current, hung>>

\* A plugin follows the process: it creates its breakpoints, or removes them.  deleteBreakpoint
\* handles pending events first, and eventsListen is not reentrant.
HandleTraced(v) ==
    /\ pc = "loop" /\ event[v] = "traced"
    /\ \/ \E p \in Hooking \cap registered : hooked' = hooked \cup {p} /\ hung' = hung
       \/ \E p \in hooked \cap registered :
            /\ hooked' = IF OthersPending(v) THEN hooked ELSE hooked \ {p}
            /\ hung' = OthersPending(v)
       \/ hooked' = hooked /\ hung' = hung
    /\ Answer(v)
    /\ UNCHANGED <<pc, paused, switches, watching, forgotten, loaded, current>>

\* Mutant: the plugins are unloaded, and kept.
UnloadAndKeep ==
    /\ unloads' = [p \in Plugins |-> IF p \in plugins THEN unloads[p] + 1 ELSE unloads[p]]
    /\ UNCHANGED <<plugins, registered>>

\* Mutant: the callbacks of the plugins stay registered.
UnloadKeepingCallbacks ==
    /\ unloads' = [p \in Plugins |-> IF p \in plugins THEN unloads[p] + 1 ELSE unloads[p]]
    /\ plugins' = {}
    /\ UNCHANGED registered

\* PluginSystem::unloadPlugins inside the callback of a bug check
UnloadAll ==
    /\ unloads' = [p \in Plugins |-> IF p \in plugins THEN unloads[p] + 1 ELSE unloads[p]]
    /\ plugins' = {}
    /\ registered' = {}

\* Mutant: the bug check does not end the run.
BugCheckGoesOn(v) ==
    /\ pc = "loop" /\ event[v] = "bugcheck"
    /\ postRunPluginAction' = FALSE
    /\ UnloadAll
    /\ hooked' = hooked \ plugins
    /\ Answer(v)
    /\ UNCHANGED <<pc, paused, endVmi, handlers, watching, forgotten, current, hung>>

\* keBugCheck2Callback.  A thread that hangs never leaves the first unload that removes breakpoints.
HandleBugCheck(v) ==
    /\ pc = "loop" /\ event[v] = "bugcheck"
    /\ endVmi' = TRUE
    /\ postRunPluginAction' = FALSE
    /\ hung' = (OthersPending(v) /\ hooked \cap plugins # {})
    /\ IF hung'
       THEN UNCHANGED <<loaded, hooked>>
       ELSE UnloadAll /\ hooked' = hooked \ plugins
    /\ Answer(v)
    /\ UNCHANGED <<pc, paused, handlers, watching, forgotten, current>>

\* eventsListen throws
ListenFails ==
    /\ pc = "loop" /\ ~endVmi
    /\ endVmi' = TRUE
    /\ UNCHANGED <<pc, paused, postRunPluginAction, handlers, int3s, loaded, current, event, hung>>

LeaveLoop ==
    /\ pc = "loop" /\ endVmi
    /\ pc' = "pause"
    /\ UNCHANGED <<paused, switches, int3s, loaded, current, event, hung>>

-----------------------------------------------------------------------------
(* The end of run *)

Pause ==
    /\ pc = "pause"
    /\ paused' = TRUE
    /\ pc' = "afterRun"
    /\ UNCHANGED <<switches, int3s, loaded, current, event, hung>>

AfterRun ==
    /\ pc = "afterRun"
    /\ pc' = IF postRunPluginAction THEN "unload" ELSE "teardown"
    /\ UNCHANGED <<paused, switches, int3s, loaded, current, event, hung>>

\* A callback that a drain of deleteBreakpoint calls creates or removes breakpoints, or unloads the
\* plugins: it waits for the mutex that deleteBreakpoint holds.
DrainHangs == \E v \in VCPUs : event[v] \in {"traced", "bugcheck"}

\* The plugin removes its breakpoints, if it has any, and deleteBreakpoint handles the pending
\* events first.  If eventsListen fails in there, the INT3 stays and is forgotten.
RemoveHooks(p) ==
    IF p \in hooked /\ EventsPending
    THEN \/ DrainHangs /\ hung' = TRUE /\ UNCHANGED <<event, hooked, forgotten>>
         \/ ~DrainHangs /\ event' = [v \in VCPUs |-> None] /\ hooked' = hooked \ {p}
            /\ UNCHANGED <<hung, forgotten>>
         \/ forgotten' = forgotten \cup {p} /\ UNCHANGED <<hung, event, hooked>>
    ELSE hooked' = hooked \ {p} /\ UNCHANGED <<hung, event, forgotten>>

UnloadPlugin(p) ==
    /\ pc = "unload" /\ p \in plugins /\ p = current
    /\ unloads' = [unloads EXCEPT ![p] = @ + 1]
    /\ current' = current + 1
    /\ RemoveHooks(p)
    /\ UNCHANGED <<pc, paused, switches, watching, plugins, registered>>

\* The last lines of unloadPlugins
UnloadEnd ==
    /\ pc = "unload" /\ current \notin plugins
    /\ registered' = {}
    /\ plugins' = {}
    /\ pc' = "teardown"
    /\ UNCHANGED <<paused, switches, int3s, unloads, current, event, hung>>

\* SystemEventSupervisor::teardown, resumeVm and return.  The removal of its own two breakpoints
\* handles pending events: the hit of a removed one is reinjected, a bug check unloads the plugins.
\* Nothing that is left then has breakpoints and callbacks, so nothing hangs here.
Teardown ==
    /\ pc = "teardown"
    /\ IF \E v \in VCPUs : event[v] = "bugcheck"
       THEN UnloadAll /\ endVmi' = TRUE /\ postRunPluginAction' = FALSE
       ELSE UNCHANGED <<loaded, endVmi, postRunPluginAction>>
    /\ event' = [v \in VCPUs |-> None]
    /\ watching' = FALSE
    /\ hooked' = hooked \cap forgotten
    /\ paused' = FALSE
    /\ pc' = "returned"
    /\ UNCHANGED <<handlers, forgotten, current, hung>>

\* A call to libvmi fails outside of the loop and of unload: its exception leaves run.
CallFails ==
    /\ pc \in {"initialize", "pause", "teardown"}
    /\ pc' = "failed"
    /\ UNCHANGED <<paused, switches, int3s, loaded, current, event, hung>>

-----------------------------------------------------------------------------
(* The guest and the user *)

GuestEvent(v, kind) ==
    /\ ~Ended /\ watching /\ ~paused
    /\ event[v] = None
    /\ event' = [event EXCEPT ![v] = kind]
    /\ UNCHANGED <<pc, paused, switches, int3s, loaded, current, hung>>

\* SIGINT or SIGTERM: the default action of both ends the process.
Signal ==
    /\ ~Ended
    /\ IF handlers
       THEN endVmi' = TRUE /\ pc' = pc
       ELSE endVmi' = endVmi /\ pc' = "killed"
    /\ UNCHANGED <<paused, postRunPluginAction, handlers, int3s, loaded, current, event, hung>>

-----------------------------------------------------------------------------
Handle(v) == ~Ended /\ (HandleProcess(v) \/ HandleTraced(v) \/ HandleBugCheck(v))

RunStep ==
    /\ ~Ended
    /\ \/ Initialize \/ WatchSystem
       \/ \E p \in Plugins : InitializePlugin(p) \/ PluginThrows(p) \/ UnloadPlugin(p)
       \/ PluginNotLoaded
       \/ Resume \/ SetupSignalHandling
       \/ LeaveLoop \/ Pause \/ AfterRun \/ UnloadEnd \/ Teardown \/ CallFails

Halted == Ended /\ UNCHANGED vars

Next ==
    \/ RunStep
    \/ ~Ended /\ ListenFails
    \/ \E v \in VCPUs : Handle(v) \/ \E kind \in Kinds : GuestEvent(v, kind)
    \/ Signal
    \/ Halted

(***************************************************************************)
(* Fairness: run goes on wherever it can, and eventsListen hands over the  *)
(* event of each vCPU.  The guest need not raise events, and nobody needs  *)
(* to send a signal.                                                       *)
(***************************************************************************)
Spec == Init /\ [][Next]_vars /\ WF_vars(RunStep) /\ \A v \in VCPUs : WF_vars(Handle(v))

-----------------------------------------------------------------------------
(* Properties *)

TypeOK ==
    /\ pc \in Places
    /\ {paused, endVmi, postRunPluginAction, handlers, watching, hung} \subseteq BOOLEAN
    /\ plugins \in {1 .. n : n \in 0 .. NumPlugins}
    /\ registered \subseteq Plugins
    /\ hooked \subseteq Hooking /\ forgotten \subseteq Hooking
    /\ unloads \in [Plugins -> Nat]
    /\ current \in 1 .. NumPlugins + 1
    /\ event \in [VCPUs -> Kinds \cup {None}]

\* The callbacks capture the this pointer of a plugin (VMICORE_SETUP_MEMBER_CALLBACK): as long as
\* an event may be handled, the plugins behind the registered callbacks must not be destroyed.  A
\* bug check unloads them in the middle of eventsListen, which may have more events to hand over.
CallbacksAlive == pc \notin {"failed", "killed"} => registered \subseteq plugins

\* plugins/IPlugin.h: a run that got into its event loop and comes to its end has unloaded every
\* plugin, whether run did it or a bug check, and none of them twice, whether or not a second bug
\* check or a signal arrived meanwhile.
UnloadedOnce == pc = "returned" /\ handlers => \A p \in Plugins : unloads[p] = 1

\* InterruptEventSupervisor.cpp:117-144, SystemEventSupervisor.cpp:100-105: the thread waits for
\* itself only in the event loop or in the unload, over breakpoints of a plugin and with an event
\* pending.  The teardown removes breakpoints as well, and its drains never do: if an event is left
\* for them, no plugin is loaded any more whose callbacks could touch a breakpoint, however the run
\* has come there, also without its event loop.
HangsOverHooks ==
    /\ hung => pc \in {"loop", "unload"} /\ EventsPending /\ hooked # {}
    /\ pc = "teardown" /\ EventsPending => plugins = {} /\ registered = {}

\* A signal, an error of the event loop or a bug check of the guest brings the run to an end,
\* or to a thread that waits for itself over the breakpoints of a plugin.
ShutdownEnds == (endVmi \/ \E v \in VCPUs : event[v] = "bugcheck") ~> Ended
=============================================================================
