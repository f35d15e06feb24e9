---------------------------- MODULE VmiHub_proofs ----------------------------
(***************************************************************************)
(* For any number of plugins and vCPUs: callbacks never outlive their      *)
(* plugin, a run that leaves its event loop and returns has unloaded every *)
(* plugin exactly once, and one that returns leaves the guest clean.  What *)
(* keeps a run from its end is an event that meets a plugin's breakpoints. *)
(***************************************************************************)
EXTENDS VmiHub, FiniteSetTheorems, TLAPS

-----------------------------------------------------------------------------
(* CallbacksAlive is inductive: the one action that registers a callback without a plugin leaves *)
(* run, and the others change both sets together.                                                *)

LEMMA CallbacksAliveStep == CallbacksAlive /\ [Next]_vars => CallbacksAlive'
<1> SUFFICES ASSUME CallbacksAlive, [Next]_vars
             PROVE  CallbacksAlive'
  OBVIOUS
<1>1. CASE RunStep
  <2>1. CASE \E p \in Plugins : InitializePlugin(p) \/ PluginThrows(p) \/ UnloadPlugin(p)
    BY <1>1, <2>1 DEF RunStep, Ended, CallbacksAlive, InitializePlugin, PluginThrows, UnloadPlugin
  <2>2. CASE UnloadEnd \/ Teardown
    BY <1>1, <2>2 DEF RunStep, Ended, CallbacksAlive, UnloadEnd, Teardown, UnloadAll, loaded
  <2>3. CASE \/ Initialize \/ WatchSystem \/ PluginNotLoaded \/ Resume \/ SetupSignalHandling
             \/ LeaveLoop \/ Pause \/ AfterRun \/ CallFails
    BY <1>1, <2>3 DEF RunStep, Ended, CallbacksAlive, Initialize, WatchSystem, PluginNotLoaded,
       Resume, SetupSignalHandling, LeaveLoop, Pause, AfterRun, CallFails, loaded
  <2> QED
    BY <1>1, <2>1, <2>2, <2>3 DEF RunStep
<1>2. CASE ListenFails
  BY <1>2 DEF ListenFails, CallbacksAlive, loaded
<1>3. ASSUME NEW v \in VCPUs, Handle(v)
      PROVE  CallbacksAlive'
  <2>1. CASE HandleProcess(v) \/ HandleTraced(v)
    BY <2>1 DEF HandleProcess, HandleTraced, CallbacksAlive, loaded
  <2>2. CASE HandleBugCheck(v)
    BY <2>2 DEF HandleBugCheck, UnloadAll, CallbacksAlive, loaded
  <2> QED
    BY <1>3, <2>1, <2>2 DEF Handle
<1>4. ASSUME NEW v \in VCPUs, NEW kind \in Kinds, GuestEvent(v, kind)
      PROVE  CallbacksAlive'
  BY <1>4 DEF GuestEvent, CallbacksAlive, loaded
<1>5. CASE Signal
  BY <1>5 DEF Signal, CallbacksAlive, loaded
<1>6. CASE Halted \/ UNCHANGED vars
  BY <1>6 DEF Halted, CallbacksAlive, vars
<1> QED
  BY <1>1, <1>2, <1>3, <1>4, <1>5, <1>6 DEF Next

\* PluginSystem.cpp:204: whenever an event may be handled, the plugins behind the registered
\* callbacks still exist.
THEOREM CallbacksStayAlive == Spec => []CallbacksAlive
<1>1. Init => CallbacksAlive
  BY DEF Init, CallbacksAlive
<1> QED
  BY <1>1, CallbacksAliveStep, PTL DEF Spec

-----------------------------------------------------------------------------
(* UnloadedOnce.  Up to the unload of the plugins there are two kinds of states: nothing has been *)
(* unloaded yet and run is going to do it, or a bug check has unloaded everything and run is not. *)

Untouched == plugins = Plugins /\ (\A p \in Plugins : unloads[p] = 0) /\ current = 1

DoneWith == plugins = {} /\ \A p \in Plugins : unloads[p] = 1

OnceInv ==
    /\ unloads \in [Plugins -> Nat]
    /\ current \in 1 .. NumPlugins + 1
    /\ pc \in {"initialize", "plugins"} =>
         /\ ~handlers /\ ~postRunPluginAction
         /\ current = 1
         /\ \A p \in Plugins : unloads[p] = 0
    /\ pc = "ready" => ~handlers /\ Untouched
    /\ pc \in {"loop", "pause"} => handlers
    /\ pc \in {"loop", "pause", "afterRun"} /\ handlers /\ ~hung =>
         IF postRunPluginAction THEN Untouched ELSE DoneWith
    /\ pc = "afterRun" /\ ~handlers => ~postRunPluginAction
    /\ pc = "unload" =>
         /\ handlers
         /\ plugins = Plugins
         /\ \A p \in Plugins : unloads[p] = IF p < current THEN 1 ELSE 0
    /\ pc \in {"teardown", "returned"} /\ handlers => DoneWith

\* Nothing is loaded or unloaded when the program starts.
LEMMA OnceInit == Init => OnceInv
BY HubAssumption DEF Init, OnceInv, Plugins

\* OnceInv, in every step
LEMMA OnceStep == OnceInv /\ [Next]_vars => OnceInv'
<1> SUFFICES ASSUME OnceInv, [Next]_vars
             PROVE  OnceInv'
  OBVIOUS
<1> USE HubAssumption
<1>1. CASE RunStep
  <2>1. CASE Initialize \/ WatchSystem \/ PluginNotLoaded \/ CallFails
    BY <1>1, <2>1 DEF RunStep, Ended, OnceInv, Untouched, DoneWith, Initialize, WatchSystem,
       PluginNotLoaded, CallFails, switches, loaded
  <2>2. ASSUME NEW p \in Plugins, InitializePlugin(p) \/ PluginThrows(p)
        PROVE  OnceInv'
    BY <1>1, <2>2 DEF RunStep, Ended, OnceInv, Untouched, DoneWith, InitializePlugin,
       PluginThrows, switches
  <2>3. CASE Resume \/ SetupSignalHandling
    BY <1>1, <2>3 DEF RunStep, Ended, OnceInv, Untouched, DoneWith, Resume, SetupSignalHandling,
       switches, loaded
  <2>4. CASE LeaveLoop \/ Pause
    BY <1>1, <2>4 DEF RunStep, Ended, OnceInv, Untouched, DoneWith, LeaveLoop, Pause,
       switches, loaded
  <2>5. CASE AfterRun
    BY <1>1, <2>5 DEF RunStep, Ended, OnceInv, Untouched, DoneWith, AfterRun, Plugins,
       switches, loaded
  <2>6. ASSUME NEW p \in Plugins, UnloadPlugin(p)
        PROVE  OnceInv'
    <3>1. pc = "unload" /\ pc' = "unload" /\ handlers' /\ plugins' = Plugins
      BY <2>6 DEF UnloadPlugin, OnceInv, switches
    <3>2. p = current /\ current' = current + 1 /\ unloads' = [unloads EXCEPT ![p] = @ + 1]
      BY <2>6 DEF UnloadPlugin
    <3>3. unloads' \in [Plugins -> Nat] /\ current' \in 1 .. NumPlugins + 1
      BY <3>2 DEF OnceInv, Plugins
    <3>4. \A q \in Plugins : unloads'[q] = IF q < current' THEN 1 ELSE 0
      BY <3>1, <3>2 DEF OnceInv, Plugins
    <3> QED
      BY <3>1, <3>3, <3>4 DEF OnceInv
  <2>7. CASE UnloadEnd
    <3>1. current = NumPlugins + 1
      BY <2>7 DEF UnloadEnd, OnceInv, Plugins
    <3>2. DoneWith'
      BY <2>7, <3>1 DEF UnloadEnd, OnceInv, DoneWith, Plugins
    <3> QED
      BY <2>7, <3>2 DEF UnloadEnd, OnceInv, switches
  <2>8. CASE Teardown
    <3>1. unloads' \in [Plugins -> Nat]
      BY <2>8 DEF Teardown, UnloadAll, OnceInv, loaded
    <3>2. handlers => DoneWith'
      BY <2>8 DEF Teardown, UnloadAll, OnceInv, DoneWith, loaded
    <3> QED
      BY <2>8, <3>1, <3>2 DEF Teardown, OnceInv
  <2> QED
    BY <1>1, <2>1, <2>2, <2>3, <2>4, <2>5, <2>6, <2>7, <2>8 DEF RunStep
<1>2. CASE ListenFails
  BY <1>2 DEF ListenFails, OnceInv, Untouched, DoneWith, loaded
<1>3. ASSUME NEW v \in VCPUs, Handle(v)
      PROVE  OnceInv'
  <2>1. CASE HandleProcess(v)
    BY <2>1 DEF HandleProcess, OnceInv, Untouched, DoneWith, switches, loaded
  <2>2. CASE HandleTraced(v)
    BY <1>3, <2>2 DEF Handle, Ended, HandleTraced, OnceInv, Untouched, DoneWith, switches, loaded
  <2>3. CASE HandleBugCheck(v)
    <3>1. unloads' \in [Plugins -> Nat]
      BY <2>3 DEF HandleBugCheck, UnloadAll, OnceInv, loaded
    <3>2. ~hung' => DoneWith'
      BY <1>3, <2>3 DEF Handle, Ended, HandleBugCheck, UnloadAll, OnceInv, Untouched, DoneWith
    <3> QED
      BY <2>3, <3>1, <3>2 DEF HandleBugCheck, OnceInv
  <2> QED
    BY <1>3, <2>1, <2>2, <2>3 DEF Handle
<1>4. ASSUME NEW v \in VCPUs, NEW kind \in Kinds, GuestEvent(v, kind)
      PROVE  OnceInv'
  BY <1>4 DEF GuestEvent, OnceInv, Untouched, DoneWith, switches, loaded
<1>5. CASE Signal
  BY <1>5 DEF Signal, OnceInv, Untouched, DoneWith, loaded
<1>6. CASE Halted \/ UNCHANGED vars
  BY <1>6 DEF Halted, OnceInv, Untouched, DoneWith, vars
<1> QED
  BY <1>1, <1>2, <1>3, <1>4, <1>5, <1>6 DEF Next

\* VmiHub.cpp:205, SystemEventSupervisor.cpp:95: a run that was in its event loop and returns has
\* called unload of every plugin exactly once, whoever did it.
THEOREM PluginsUnloadedOnce == Spec => []UnloadedOnce
<1>1. OnceInv => UnloadedOnce
  BY DEF OnceInv, DoneWith, UnloadedOnce
<1> QED
  BY <1>1, OnceInit, OnceStep, PTL DEF Spec

-----------------------------------------------------------------------------
(* Types.  Plugins are loaded in their order, so that the number of those loaded names the next one. *)

\* The plugins that are loaded stay an initial part of all plugins.
LEMMA NextPlugin ==
  ASSUME plugins \in {1 .. n : n \in 0 .. NumPlugins}, NEW p \in Plugins, p = Cardinality(plugins) + 1
  PROVE  plugins \cup {p} \in {1 .. n : n \in 0 .. NumPlugins}
<1> USE HubAssumption
<1>1. PICK n \in 0 .. NumPlugins : plugins = 1 .. n
  OBVIOUS
<1>2. Cardinality(plugins) = n
  BY <1>1, FS_Interval
<1>3. p = n + 1 /\ n + 1 \in 0 .. NumPlugins
  BY <1>1, <1>2 DEF Plugins
<1>4. plugins \cup {p} = 1 .. (n + 1)
  BY <1>1, <1>3
<1> QED
  BY <1>3, <1>4

\* Type correctness, in every step
LEMMA TypeStep == TypeOK /\ [Next]_vars => TypeOK'
<1> SUFFICES ASSUME TypeOK, [Next]_vars
             PROVE  TypeOK'
  OBVIOUS
<1> USE HubAssumption DEF TypeOK, Places, switches, loaded, int3s
<1>0. {} \in {1 .. n : n \in 0 .. NumPlugins}
  <2>1. 1 .. 0 = {} /\ 0 \in 0 .. NumPlugins
    OBVIOUS
  <2> QED
    BY <2>1
<1>1. CASE RunStep
  <2>1. CASE Initialize \/ WatchSystem \/ PluginNotLoaded \/ CallFails
    BY <2>1 DEF Initialize, WatchSystem, PluginNotLoaded, CallFails
  <2>2. ASSUME NEW p \in Plugins, InitializePlugin(p)
        PROVE  TypeOK'
    <3>1. plugins' \in {1 .. n : n \in 0 .. NumPlugins}
      BY <2>2, NextPlugin DEF InitializePlugin
    <3>2. hooked' \subseteq Hooking /\ registered' \subseteq Plugins
      BY <2>2 DEF InitializePlugin
    <3> QED
      BY <2>2, <3>1, <3>2 DEF InitializePlugin
  <2>3. ASSUME NEW p \in Plugins, PluginThrows(p)
        PROVE  TypeOK'
    BY <2>3 DEF PluginThrows
  <2>4. CASE Resume \/ LeaveLoop \/ Pause
    BY <2>4 DEF Resume, LeaveLoop, Pause
  <2>8. CASE SetupSignalHandling
    <3>1. pc' \in Places /\ {paused', endVmi', postRunPluginAction', handlers', watching', hung'} \subseteq BOOLEAN
      BY <2>8 DEF SetupSignalHandling
    <3>2. UNCHANGED <<plugins, registered, hooked, forgotten, unloads, current, event>>
      BY <2>8 DEF SetupSignalHandling
    <3> QED
      BY <3>1, <3>2
  <2>9. CASE AfterRun
    BY <2>9 DEF AfterRun
  <2>5. ASSUME NEW p \in Plugins, UnloadPlugin(p)
        PROVE  TypeOK'
    <3>1. current' \in 1 .. NumPlugins + 1 /\ unloads' \in [Plugins -> Nat]
      BY <2>5 DEF UnloadPlugin, Plugins
    <3>2. /\ event' \in [VCPUs -> Kinds \cup {None}]
          /\ hooked' \subseteq Hooking /\ forgotten' \subseteq Hooking /\ hung' \in BOOLEAN
      BY <2>5 DEF UnloadPlugin, RemoveHooks
    <3> QED
      BY <2>5, <3>1, <3>2 DEF UnloadPlugin
  <2>6. CASE UnloadEnd
    BY <1>0, <2>6 DEF UnloadEnd
  <2>7. CASE Teardown
    <3>1. /\ plugins' \in {1 .. n : n \in 0 .. NumPlugins}
          /\ registered' \subseteq Plugins /\ unloads' \in [Plugins -> Nat]
      <4>1. CASE UnloadAll
        <5>1. unloads' \in [Plugins -> Nat]
          BY <4>1 DEF UnloadAll
        <5> QED
          BY <1>0, <4>1, <5>1 DEF UnloadAll
      <4>2. CASE UNCHANGED loaded
        BY <4>2
      <4> QED
        BY <2>7, <4>1, <4>2 DEF Teardown
    <3>2. event' \in [VCPUs -> Kinds \cup {None}]
      BY <2>7 DEF Teardown
    <3>3. {endVmi', postRunPluginAction'} \subseteq BOOLEAN
      BY <2>7 DEF Teardown
    <3> QED
      BY <2>7, <3>1, <3>2, <3>3 DEF Teardown
  <2> QED
    BY <1>1, <2>1, <2>2, <2>3, <2>4, <2>5, <2>6, <2>7, <2>8, <2>9 DEF RunStep
<1>2. CASE ListenFails
  BY <1>2 DEF ListenFails
<1>3. ASSUME NEW v \in VCPUs, Handle(v)
      PROVE  TypeOK'
  <2>1. CASE HandleProcess(v) \/ HandleTraced(v)
    <3>1. event' \in [VCPUs -> Kinds \cup {None}]
      BY <2>1 DEF HandleProcess, HandleTraced, Answer
    <3>2. hooked' \subseteq Hooking /\ hung' \in BOOLEAN
      BY <2>1 DEF HandleProcess, HandleTraced, OthersPending
    <3> QED
      BY <2>1, <3>1, <3>2 DEF HandleProcess, HandleTraced
  <2>2. CASE HandleBugCheck(v)
    <3>1. event' \in [VCPUs -> Kinds \cup {None}]
      BY <2>2 DEF HandleBugCheck, Answer
    <3>2. hooked' \subseteq Hooking /\ hung' \in BOOLEAN
      BY <2>2 DEF HandleBugCheck, OthersPending
    <3>3. /\ plugins' \in {1 .. n : n \in 0 .. NumPlugins}
          /\ registered' \subseteq Plugins /\ unloads' \in [Plugins -> Nat]
      <4>1. CASE UnloadAll
        <5>1. unloads' \in [Plugins -> Nat]
          BY <4>1 DEF UnloadAll
        <5> QED
          BY <1>0, <4>1, <5>1 DEF UnloadAll
      <4>2. CASE UNCHANGED loaded
        BY <4>2
      <4> QED
        BY <2>2, <4>1, <4>2 DEF HandleBugCheck
    <3> QED
      BY <2>2, <3>1, <3>2, <3>3 DEF HandleBugCheck
  <2> QED
    BY <1>3, <2>1, <2>2 DEF Handle
<1>4. ASSUME NEW v \in VCPUs, NEW kind \in Kinds, GuestEvent(v, kind)
      PROVE  TypeOK'
  BY <1>4 DEF GuestEvent
<1>5. CASE Signal
  BY <1>5 DEF Signal
<1>6. CASE Halted \/ UNCHANGED vars
  BY <1>6 DEF Halted, vars
<1> QED
  BY <1>1, <1>2, <1>3, <1>4, <1>5, <1>6 DEF Next

\* Every variable keeps its type, and the plugins that are loaded are the first ones of the
\* configuration.
THEOREM HubTypes == Spec => []TypeOK
<1>1. Init => TypeOK
  <2>1. 1 .. 0 = {} /\ 0 \in 0 .. NumPlugins
    BY HubAssumption
  <2>2. Init => plugins \in {1 .. n : n \in 0 .. NumPlugins}
    BY <2>1 DEF Init
  <2>3. Init => unloads \in [Plugins -> Nat] /\ event \in [VCPUs -> Kinds \cup {None}]
    BY DEF Init
  <2>4. 1 \in 1 .. NumPlugins + 1
    BY HubAssumption
  <2> QED
    BY <2>2, <2>3, <2>4 DEF Init, TypeOK, Places
<1> QED
  BY <1>1, TypeStep, PTL DEF Spec

-----------------------------------------------------------------------------
(* Where a run hangs.  No event is pending before the first resume: the VM is paused from before *)
(* the first breakpoint on.                                                                      *)

QuietInv ==
    /\ pc = "initialize" => ~watching /\ ~EventsPending
    /\ pc = "plugins" => paused /\ ~EventsPending
    /\ pc \in {"afterRun", "teardown"} /\ ~handlers => paused /\ ~EventsPending
    /\ hung => pc \in {"loop", "unload"} /\ EventsPending /\ hooked # {}

\* QuietInv, in every step
LEMMA QuietStep == TypeOK /\ OnceInv /\ QuietInv /\ [Next]_vars => QuietInv'
<1> SUFFICES ASSUME TypeOK, OnceInv, QuietInv, [Next]_vars
             PROVE  QuietInv'
  OBVIOUS
<1> USE HubAssumption DEF QuietInv, EventsPending, switches, loaded, int3s
<1>1. CASE RunStep
  <2>0. ~hung
    BY <1>1 DEF RunStep, Ended
  <2>1. CASE Initialize \/ WatchSystem \/ PluginNotLoaded \/ CallFails
    BY <2>0, <2>1 DEF Initialize, WatchSystem, PluginNotLoaded, CallFails
  <2>2. ASSUME NEW p \in Plugins, InitializePlugin(p) \/ PluginThrows(p)
        PROVE  QuietInv'
    BY <2>0, <2>2 DEF InitializePlugin, PluginThrows
  <2>3. CASE Resume \/ SetupSignalHandling \/ LeaveLoop \/ AfterRun
    BY <2>0, <2>3 DEF Resume, SetupSignalHandling, LeaveLoop, AfterRun
  <2>4. CASE Pause
    BY <2>0, <2>4 DEF Pause, OnceInv
  <2>5. ASSUME NEW p \in Plugins, UnloadPlugin(p)
        PROVE  QuietInv'
    BY <2>0, <2>5 DEF UnloadPlugin, RemoveHooks, DrainHangs, Kinds
  <2>6. CASE UnloadEnd
    BY <2>0, <2>6 DEF UnloadEnd, OnceInv
  <2>7. CASE Teardown
    BY <2>0, <2>7 DEF Teardown
  <2> QED
    BY <1>1, <2>1, <2>2, <2>3, <2>4, <2>5, <2>6, <2>7 DEF RunStep
<1>2. CASE ~Ended /\ ListenFails
  BY <1>2 DEF Ended, ListenFails
<1>3. ASSUME NEW v \in VCPUs, Handle(v)
      PROVE  QuietInv'
  <2>1. pc = "loop" /\ pc' = "loop" /\ ~hung
    BY <1>3 DEF Handle, Ended, HandleProcess, HandleTraced, HandleBugCheck
  <2>2. OthersPending(v) => EventsPending'
    BY <1>3 DEF Handle, HandleProcess, HandleTraced, HandleBugCheck, Answer, OthersPending, TypeOK
  <2>3. hung' => OthersPending(v) /\ hooked' # {}
    BY <1>3, <2>1 DEF Handle, HandleProcess, HandleTraced, HandleBugCheck
  <2> QED
    BY <2>1, <2>2, <2>3
<1>4. ASSUME NEW v \in VCPUs, NEW kind \in Kinds, GuestEvent(v, kind)
      PROVE  QuietInv'
  BY <1>4 DEF GuestEvent, Ended
<1>5. CASE Signal
  BY <1>5 DEF Signal, Ended
<1>6. CASE Halted \/ UNCHANGED vars
  BY <1>6 DEF Halted, vars
<1> QED
  BY <1>1, <1>2, <1>3, <1>4, <1>5, <1>6 DEF Next

\* InterruptEventSupervisor.cpp:117-144, SystemEventSupervisor.cpp:100-105: the thread of a run waits
\* for itself only in the event loop or in the unload, over breakpoints of a plugin and with an event
\* pending.  The teardown never does: if events are pending there, no plugin is left to touch
\* breakpoints, also if the run has not come to its event loop.
THEOREM RunHangsOverHooks == Spec => []HangsOverHooks
<1>1. Init => QuietInv
  BY HubAssumption DEF Init, QuietInv, EventsPending
<1>2. QuietInv /\ OnceInv /\ CallbacksAlive => HangsOverHooks
  BY DEF QuietInv, OnceInv, DoneWith, CallbacksAlive, HangsOverHooks
<1> QED
  BY <1>1, <1>2, QuietStep, OnceInit, OnceStep, HubTypes, CallbacksStayAlive, PTL DEF Spec
=============================================================================
