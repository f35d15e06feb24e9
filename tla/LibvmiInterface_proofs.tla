------------------------ MODULE LibvmiInterface_proofs ------------------------
(***************************************************************************)
(* The discipline of the calls of libvmi, for every number of pages, vCPUs *)
(* and scanners, and for every bound on their calls.                       *)
(***************************************************************************)
EXTENDS LibvmiInterface, SequenceTheorems, TLAPS

(* What is left of the agenda of a stage, and what its calls may do.       *)
AgendaOf(st, a) ==
    \/ a = <<>>
    \/ st = "starting" /\ a \in {StartAgenda, <<GetOsType, PauseVm>>, <<PauseVm>>}
    \/ st = "resuming" /\ a = <<ResumeVm>>
    \/ st \in {"handling", "unloading"} /\ a \in {HitAgenda, <<FlushPageCache>>}
    \/ st = "stopping" /\ a = <<PauseVm>>
    \/ st = "clearing" /\ a \in {TeardownAgenda, <<ClearEvent, ResumeVm, ResumeVm>>,
                                 <<ResumeVm, ResumeVm>>, <<ResumeVm>>}

EffectIn(st, d) ==
    \/ st = "starting" /\ d \in {"init", "nothing", "pause"}
    \/ st = "watching" /\ d = "nothing"
    \/ st = "resuming" /\ d = "resume"
    \/ st = "handling" /\ d \in {"nothing", "flush v2p", "flush page", "map", "free"}
    \/ st = "stopping" /\ d = "pause"
    \/ st = "unloading" /\ d \in {"nothing", "flush v2p", "flush page"}
    \/ st = "teardown" /\ d = "nothing"
    \/ st = "clearing" /\ d \in {"pause", "nothing", "resume"}

\* A call that changes nothing but the caches
Plain(op) == op \in Operations /\ op.does = "nothing"

\* The effects of the calls a callback, a scanner or a mapping makes
LEMMA CallFacts ==
  /\ \A op \in FreeCalls : Plain(op)
  /\ \A op \in ScannerCalls : Plain(op) /\ op.locked
  /\ Plain(GetIds)
  /\ MmapGuest \in Operations /\ MmapGuest.does = "map" /\ MmapGuest.locked
  /\ FreeMappedRegions \in Operations /\ FreeMappedRegions.does = "free"
  /\ ~FreeMappedRegions.locked /\ ~FreeMappedRegions.fails /\ ~FreeMappedRegions.checked
<1> USE DEF Locked, Checked, Unlocked, Operations, Caches, ByPageTable, ByPhysicalAddress
<1>1. Plain(ReadPA) /\ Plain(ReadVA) /\ Plain(ReadVaTyped) /\ Plain(ReadSized) /\ Plain(ReadXVA)
  BY DEF Plain, ReadPA, ReadVA, ReadVaTyped, ReadSized, ReadXVA
<1>2. Plain(Write8PA) /\ Plain(TranslateKernelSymbol) /\ Plain(TranslateUserlandSymbol)
      /\ Plain(ConvertVAToPA) /\ Plain(ConvertPidOrDtb)
  BY DEF Plain, Write8PA, TranslateKernelSymbol, TranslateUserlandSymbol, ConvertVAToPA,
         ConvertPidOrDtb
<1>3. Plain(TryExtractString) /\ Plain(ExtractUnicodeString) /\ Plain(ExtractString)
      /\ Plain(RegisterEvent) /\ Plain(StopSingleStepForVcpu)
  BY DEF Plain, TryExtractString, ExtractUnicodeString, ExtractString, RegisterEvent,
         StopSingleStepForVcpu
<1>4. Plain(AreEventsPending) /\ Plain(GetIds) /\ Plain(GetWindowsBuild) /\ Plain(LookUpOffset)
      /\ Plain(LookUpBitfield) /\ Plain(ClearEvent)
  BY DEF Plain, AreEventsPending, GetIds, GetWindowsBuild, LookUpOffset, LookUpBitfield, ClearEvent
<1>5. ReadVA.locked /\ ReadSized.locked /\ ReadXVA.locked /\ TryExtractString.locked
      /\ LookUpBitfield.locked
  BY DEF ReadVA, ReadSized, ReadXVA, TryExtractString, LookUpBitfield
<1>6. \A op \in FreeCalls : Plain(op)
  BY <1>1, <1>2, <1>3, <1>4, Zenon DEF FreeCalls
<1>7. \A op \in ScannerCalls : Plain(op) /\ op.locked
  BY <1>1, <1>3, <1>4, <1>5, Zenon DEF ScannerCalls
<1>8. QED BY <1>4, <1>6, <1>7 DEF MmapGuest, FreeMappedRegions

\* The first call of an agenda is one of its stage, and the rest is an agenda of the same stage.
LEMMA AgendaFacts ==
  ASSUME NEW st, NEW a, AgendaOf(st, a), a # <<>>
  PROVE  /\ AgendaOf(st, Tail(a))
         /\ Head(a) \in Operations /\ EffectIn(st, Head(a).does) /\ Head(a).locked
         /\ Head(a).does \in {"flush v2p", "flush page"} => ~Head(a).fails /\ ~Head(a).checked
         /\ Head(a).does \notin {"map", "free"}
         /\ a = StartAgenda => Head(a).does = "init"
         /\ a = <<ResumeVm>> => Head(a).does = "resume"
         /\ a = <<PauseVm>> => Head(a).does = "pause"
         /\ a = HitAgenda => Head(a).does = "flush v2p" /\ Tail(a) = <<FlushPageCache>>
         /\ a = <<FlushPageCache>> => Head(a).does = "flush page"
         /\ st = "clearing" /\ Tail(a) = <<>> => Head(a).does = "resume"
<1> DEFINE Fact(op, d) == /\ op \in Operations /\ op.does = d /\ op.locked
                          /\ d \in {"flush v2p", "flush page"} => ~op.fails /\ ~op.checked
<1>1. /\ Fact(InitializeVmi, "init") /\ Fact(GetOsType, "nothing") /\ Fact(PauseVm, "pause")
      /\ Fact(ResumeVm, "resume") /\ Fact(ClearEvent, "nothing")
      /\ Fact(FlushV2PCache, "flush v2p") /\ Fact(FlushPageCache, "flush page")
  BY DEF Locked, Checked, Operations, Caches, InitializeVmi, GetOsType, PauseVm, ResumeVm,
         ClearEvent, FlushV2PCache, FlushPageCache
<1>2. \A w, x, y, z :
        /\ Head(<<x>>) = x /\ Head(<<x, y>>) = x /\ Head(<<x, y, z>>) = x
        /\ Head(<<w, x, y, z>>) = w
        /\ Tail(<<x, y>>) = <<y>> /\ Tail(<<x, y, z>>) = <<y, z>>
        /\ Tail(<<w, x, y, z>>) = <<x, y, z>>
        /\ <<x>> # <<>> /\ <<x, y>> # <<>> /\ <<x, y, z>> # <<>>
  OBVIOUS
<1>3. \A x : Tail(<<x>>) = <<>>
  <2>1. SUFFICES ASSUME NEW x PROVE Tail(<<x>>) = <<>>
    OBVIOUS
  <2>2. <<x>> \in Seq({x}) /\ <<x>> # <<>> /\ Len(<<x>>) = 1
    OBVIOUS
  <2>3. Tail(<<x>>) \in Seq({x}) /\ Len(Tail(<<x>>)) = 0
    BY <2>2, HeadTailProperties
  <2>4. QED BY <2>3, EmptySeq
<1>4. PICK op \in {InitializeVmi, GetOsType, PauseVm, ResumeVm, ClearEvent, FlushV2PCache,
                  FlushPageCache} :
        /\ Head(a) = op /\ AgendaOf(st, Tail(a)) /\ EffectIn(st, op.does)
        /\ st = "clearing" /\ Tail(a) = <<>> => op = ResumeVm
  <2>1. CASE st = "starting" /\ a = StartAgenda
    <3>1. Head(a) = InitializeVmi /\ Tail(a) = <<GetOsType, PauseVm>>
      BY <1>2, <1>3, <2>1 DEF StartAgenda
    <3>2. QED BY <1>1, <2>1, <3>1 DEF AgendaOf, EffectIn
  <2>2. CASE st = "starting" /\ a = <<GetOsType, PauseVm>>
    <3>1. Head(a) = GetOsType /\ Tail(a) = <<PauseVm>>
      BY <1>2, <1>3, <2>2
    <3>2. QED BY <1>1, <2>2, <3>1 DEF AgendaOf, EffectIn
  <2>3. CASE st = "starting" /\ a = <<PauseVm>>
    <3>1. Head(a) = PauseVm /\ Tail(a) = <<>>
      BY <1>2, <1>3, <2>3
    <3>2. QED BY <1>1, <2>3, <3>1 DEF AgendaOf, EffectIn
  <2>4. CASE st = "resuming" /\ a = <<ResumeVm>>
    <3>1. Head(a) = ResumeVm /\ Tail(a) = <<>>
      BY <1>2, <1>3, <2>4
    <3>2. QED BY <1>1, <2>4, <3>1 DEF AgendaOf, EffectIn
  <2>5. CASE st \in {"handling", "unloading"} /\ a = HitAgenda
    <3>1. Head(a) = FlushV2PCache /\ Tail(a) = <<FlushPageCache>>
      BY <1>2, <1>3, <2>5 DEF HitAgenda
    <3>2. QED BY <1>1, <2>5, <3>1 DEF AgendaOf, EffectIn
  <2>6. CASE st \in {"handling", "unloading"} /\ a = <<FlushPageCache>>
    <3>1. Head(a) = FlushPageCache /\ Tail(a) = <<>>
      BY <1>2, <1>3, <2>6
    <3>2. QED BY <1>1, <2>6, <3>1 DEF AgendaOf, EffectIn
  <2>7. CASE st = "stopping" /\ a = <<PauseVm>>
    <3>1. Head(a) = PauseVm /\ Tail(a) = <<>>
      BY <1>2, <1>3, <2>7
    <3>2. QED BY <1>1, <2>7, <3>1 DEF AgendaOf, EffectIn
  <2>8. CASE st = "clearing" /\ a = TeardownAgenda
    <3>1. Head(a) = PauseVm /\ Tail(a) = <<ClearEvent, ResumeVm, ResumeVm>>
      BY <1>2, <1>3, <2>8 DEF TeardownAgenda
    <3>2. Tail(a) # <<>>
      BY <1>2, <3>1, Zenon
    <3>3. QED BY <1>1, <2>8, <3>1, <3>2 DEF AgendaOf, EffectIn
  <2>9. CASE st = "clearing" /\ a = <<ClearEvent, ResumeVm, ResumeVm>>
    <3>1. Head(a) = ClearEvent /\ Tail(a) = <<ResumeVm, ResumeVm>>
      BY <1>2, <1>3, <2>9
    <3>2. Tail(a) # <<>>
      BY <1>2, <3>1, Zenon
    <3>3. QED BY <1>1, <2>9, <3>1, <3>2 DEF AgendaOf, EffectIn
  <2>10. CASE st = "clearing" /\ a = <<ResumeVm, ResumeVm>>
    <3>1. Head(a) = ResumeVm /\ Tail(a) = <<ResumeVm>>
      BY <1>2, <1>3, <2>10
    <3>2. Tail(a) # <<>>
      BY <1>2, <3>1, Zenon
    <3>3. QED BY <1>1, <2>10, <3>1, <3>2 DEF AgendaOf, EffectIn
  <2>11. CASE st = "clearing" /\ a = <<ResumeVm>>
    <3>1. Head(a) = ResumeVm /\ Tail(a) = <<>>
      BY <1>2, <1>3, <2>11
    <3>2. QED BY <1>1, <2>11, <3>1 DEF AgendaOf, EffectIn
  <2>12. QED BY <2>1, <2>2, <2>3, <2>4, <2>5, <2>6, <2>7, <2>8, <2>9, <2>10, <2>11 DEF AgendaOf,
                HitAgenda
<1>5. /\ Head(a) \in Operations /\ Head(a).locked
      /\ Head(a).does \in {"flush v2p", "flush page"} => ~Head(a).fails /\ ~Head(a).checked
      /\ Head(a).does \notin {"map", "free"}
  BY <1>1, <1>4
<1>6. /\ a = StartAgenda => Head(a).does = "init"
      /\ a = <<ResumeVm>> => Head(a).does = "resume"
      /\ a = <<PauseVm>> => Head(a).does = "pause"
      /\ a = HitAgenda => Head(a).does = "flush v2p" /\ Tail(a) = <<FlushPageCache>>
      /\ a = <<FlushPageCache>> => Head(a).does = "flush page"
  <2>1. Head(StartAgenda) = InitializeVmi
    BY <1>2 DEF StartAgenda
  <2>2. Head(HitAgenda) = FlushV2PCache /\ Tail(HitAgenda) = <<FlushPageCache>>
    BY <1>2 DEF HitAgenda
  <2>3. /\ Head(<<ResumeVm>>) = ResumeVm /\ Head(<<PauseVm>>) = PauseVm
        /\ Head(<<FlushPageCache>>) = FlushPageCache
    BY <1>2
  <2>4. QED BY <1>1, <2>1, <2>2, <2>3, Zenon
<1>7. st = "clearing" /\ Tail(a) = <<>> => Head(a).does = "resume"
  BY <1>1, <1>4
<1>8. QED BY <1>4, <1>5, <1>6, <1>7

\* Every agenda is a sequence of calls.
LEMMA AgendaTyped ==
  ASSUME NEW st, NEW a, AgendaOf(st, a) PROVE a \in Seq(Operations)
<1>1. /\ InitializeVmi \in Operations /\ GetOsType \in Operations /\ PauseVm \in Operations
      /\ ResumeVm \in Operations /\ ClearEvent \in Operations
      /\ FlushV2PCache \in Operations /\ FlushPageCache \in Operations
  BY DEF Locked, Checked, Operations, Caches, InitializeVmi, GetOsType, PauseVm, ResumeVm,
         ClearEvent, FlushV2PCache, FlushPageCache
<1>2. /\ <<>> \in Seq(Operations)
      /\ \A w, x, y, z \in Operations :
            /\ <<x>> \in Seq(Operations) /\ <<x, y>> \in Seq(Operations)
            /\ <<x, y, z>> \in Seq(Operations) /\ <<w, x, y, z>> \in Seq(Operations)
  OBVIOUS
<1>3. \A x \in {StartAgenda, HitAgenda, TeardownAgenda, <<GetOsType, PauseVm>>, <<PauseVm>>,
              <<ResumeVm>>, <<FlushPageCache>>, <<ClearEvent, ResumeVm, ResumeVm>>,
              <<ResumeVm, ResumeVm>>} :
        x \in Seq(Operations)
  <2>1. StartAgenda \in Seq(Operations)
    BY <1>1, <1>2 DEF StartAgenda
  <2>2. HitAgenda \in Seq(Operations)
    BY <1>1, <1>2 DEF HitAgenda
  <2>3. TeardownAgenda \in Seq(Operations)
    BY <1>1, <1>2 DEF TeardownAgenda
  <2>4. /\ <<GetOsType, PauseVm>> \in Seq(Operations) /\ <<PauseVm>> \in Seq(Operations)
        /\ <<ResumeVm>> \in Seq(Operations) /\ <<FlushPageCache>> \in Seq(Operations)
    BY <1>1, <1>2, Zenon
  <2>5. /\ <<ClearEvent, ResumeVm, ResumeVm>> \in Seq(Operations)
        /\ <<ResumeVm, ResumeVm>> \in Seq(Operations)
    BY <1>1, <1>2, Zenon
  <2>6. QED BY <2>1, <2>2, <2>3, <2>4, <2>5, Zenon
<1>4. QED BY <1>2, <1>3 DEF AgendaOf

-----------------------------------------------------------------------------
(* The inductive invariant                                                 *)

\* Where the threads may be busy, what the event thread may be doing there, and where eventsListen
\* is entered
RunInv ==
    /\ AgendaOf(stage, agenda)
    /\ at[EventThread] # "idle" => EffectIn(stage, call[EventThread].op.does)
    /\ mapping[EventThread] # "none" => stage = "handling"
    /\ stage \in {"listening", "handling"} => eventsListenLock # None
    /\ eventsListenLock # None =>
          stage \in {"listening", "handling", "unloading", "scanning", "hung"}
    /\ listener # "loop" => eventsListenLock # None
    /\ \A s \in Scanners :
          at[s] # "idle" \/ left[s] > 0 \/ mapping[s] # "none" => stage = "scanning"

Doing(d) == at[EventThread] # "idle" /\ call[EventThread].op.does = d

\* The instance is open, and the VM stands still or runs, where the run relies on it: an unload
\* outside of an event, and its drains, find the VM paused.
VmInv ==
    /\ stage \notin {"starting", "failed", "destroyed"} => vmi = "open"
    /\ stage = "starting" => agenda = StartAgenda \/ Doing("init") \/ vmi = "open"
    /\ stage = "stopping" => agenda = <<PauseVm>> \/ Doing("pause") \/ paused
    /\ stage \in {"unloading", "scanning"} /\ eventsListenLock = None => paused
    /\ listener = "unloading" => paused
    /\ stage = "clearing" =>
          agenda # <<>> \/ Doing("resume") \/ (at[EventThread] = "idle" /\ ~paused)
    /\ stage = "done" => ~paused

\* What a call in progress says of the lock and of the mapping of its thread
CallIs(t) ==
    /\ at[t] = "waiting" => call[t].op.locked
    /\ at[t] = "inside" /\ call[t].op.locked => libvmiLock = t
    /\ t \in Scanners =>
          /\ call[t].op.locked \/ call[t].op.does = "free"
          /\ call[t].op.does \in {"nothing", "map", "free"}
    /\ call[t].op.does = "map" => mapping[t] = "none"
    /\ call[t].op.does = "free" => mapping[t] = "mapped"
    /\ call[t].op.does \in {"flush v2p", "flush page", "free"} =>
          ~call[t].op.fails /\ ~call[t].op.checked
    /\ call[t].page # None => call[t].op.does \in {"nothing", "map"}
    /\ call[t].page # None /\ t = EventThread => agenda = <<>>

CallInv == \A t \in Threads : at[t] # "idle" => CallIs(t)

HeldInv == \A t \in Threads : held[t] = IF mapping[t] = "mapped" THEN 1 ELSE 0

\* The owner of the lock is in a call that gives it back, whether it returns or throws.
LockInv == libvmiLock # None => at[libvmiLock] = "inside" /\ call[libvmiLock].op.locked

NoStale(c) == \A p \in Pages : cache[c][p] # "stale"

\* While the guest stands still, a cache holds a stale entry only until its flush, and a drain of the
\* unload comes back to caches as fresh as it has left them.
FreshInv ==
    /\ stage \in {"handling", "unloading"} /\ ~GuestRuns =>
          /\ agenda = HitAgenda \/ Doing("flush v2p") \/ NoStale("v2p")
          /\ agenda \in {HitAgenda, <<FlushPageCache>>} \/ Doing("flush page") \/ NoStale("page")
    /\ stage = "scanning" /\ ~GuestRuns => NoStale("v2p") /\ NoStale("page")
    /\ stage = "listening" /\ listener = "unloading" => NoStale("v2p") /\ NoStale("page")

IInv == TypeOK /\ RunInv /\ VmInv /\ CallInv /\ HeldInv /\ LockInv /\ FreshInv

\* Who the threads are
LEMMA ThreadFacts ==
  /\ EventThread \in Threads /\ Scanners \subseteq Threads /\ None \notin Threads
  /\ EventThread \notin Scanners /\ None \notin Pages
  /\ \A t \in Threads : t # EventThread => t \in Scanners
BY LibvmiAssumption DEF LibvmiAssumption, Threads

\* The stages and their agendas, in every step
LEMMA RunInvStep ==
  IInv /\ [Next]_vars => RunInv'
<1> SUFFICES ASSUME IInv, [Next]_vars PROVE RunInv'
  OBVIOUS
<1> USE ThreadFacts, CallFacts DEF IInv, runVars, endVars, libvmiVars, Idle
<1>1. ASSUME NEW t \in Threads, FreeCall(t) PROVE RunInv'
  <2>1. /\ MayCall(t)
        /\ left' = [left EXCEPT ![t] = @ - 1]
        /\ UNCHANGED <<stage, agenda, listener, eventsListenLock, mapping>>
    BY <1>1 DEF FreeCall
  <2>2. PICK op \in (IF t = EventThread THEN FreeCalls ELSE ScannerCalls) :
          \E p \in Targets(op) : Begin(t, op, p)
    BY <1>1 DEF FreeCall
  <2>3. /\ call'[t].op = op /\ op.does = "nothing"
        /\ \A u \in Threads \ {t} : at'[u] = at[u] /\ call'[u] = call[u]
    BY <2>2 DEF Begin, Plain, TypeOK
  <2>4. CASE t = EventThread
    <3>1. stage \in {"watching", "handling", "unloading", "teardown"} /\ UNCHANGED stage
      BY <2>1, <2>4 DEF MayCall
    <3>2. EffectIn(stage', call'[EventThread].op.does)
      BY <2>1, <2>3, <2>4, <3>1 DEF EffectIn
    <3>3. \A s \in Scanners : at'[s] = at[s] /\ left'[s] = left[s] /\ mapping'[s] = mapping[s]
      BY <2>1, <2>3, <2>4 DEF TypeOK
    <3>4. QED BY <2>1, <3>1, <3>2, <3>3 DEF RunInv
  <2>5. CASE t \in Scanners
    BY <2>1, <2>3, <2>5 DEF MayCall, RunInv, TypeOK, EffectIn
  <2>6. QED BY <2>4, <2>5
<1>2. ASSUME NEW t \in Threads, MapRegion(t) PROVE RunInv'
  <2>1. /\ MayCall(t) /\ stage \in {"handling", "scanning"}
        /\ left' = [left EXCEPT ![t] = @ - 1]
        /\ UNCHANGED <<stage, agenda, listener, eventsListenLock, mapping>>
    BY <1>2 DEF MapRegion
  <2>2. /\ call'[t].op.does = "map"
        /\ \A u \in Threads \ {t} : at'[u] = at[u] /\ call'[u] = call[u]
    BY <1>2 DEF MapRegion, Begin, TypeOK
  <2>3. CASE t = EventThread
    <3>1. stage = "handling" /\ UNCHANGED stage
      BY <2>1, <2>3 DEF MayCall
    <3>2. EffectIn(stage', call'[EventThread].op.does)
      BY <2>1, <2>2, <2>3, <3>1 DEF EffectIn
    <3>3. \A s \in Scanners : at'[s] = at[s] /\ left'[s] = left[s] /\ mapping'[s] = mapping[s]
      BY <2>1, <2>2, <2>3 DEF TypeOK
    <3>4. QED BY <2>1, <3>1, <3>2, <3>3 DEF RunInv
  <2>4. CASE t \in Scanners
    BY <2>1, <2>2, <2>4 DEF MayCall, RunInv, TypeOK, EffectIn
  <2>5. QED BY <2>3, <2>4
<1>3. ASSUME NEW t \in Threads, Unmap(t) PROVE RunInv'
  BY <1>3 DEF Unmap, Begin, EffectIn, RunInv, AgendaOf, TypeOK
<1>4. ASSUME NEW t \in Threads, DestroyMapping(t) PROVE RunInv'
  BY <1>4 DEF DestroyMapping, RunInv, AgendaOf, TypeOK
<1>5. ASSUME NEW t \in Threads, Reject(t) PROVE RunInv'
  <2>1. /\ at[t] # "idle" /\ at'[t] = "idle"
        /\ UNCHANGED <<left, mapping, listener, eventsListenLock>>
        /\ \A u \in Threads \ {t} : at'[u] = at[u] /\ call'[u] = call[u]
    BY <1>5 DEF Reject, TypeOK
  <2>2. CASE UNCHANGED <<stage, agenda>>
    BY <2>1, <2>2 DEF RunInv
  <2>3. CASE /\ t = EventThread /\ stage \notin {"handling", "unloading"}
             /\ stage' = "failed" /\ agenda' = <<>>
    <3>1. stage \notin {"listening", "handling", "unloading", "scanning", "hung"}
      BY <2>1, <2>3 DEF RunInv, EffectIn
    <3>2. AgendaOf(stage', agenda')
      BY <2>3 DEF AgendaOf
    <3>3. QED BY <2>1, <2>3, <3>1, <3>2 DEF RunInv
  <2>4. QED BY <1>5, <2>2, <2>3 DEF Reject, Raise
<1>6. ASSUME NEW t \in Threads, Enter(t) PROVE RunInv'
  BY <1>6 DEF Enter, RunInv, AgendaOf, TypeOK
<1>7. ASSUME NEW t \in Threads, Return(t) PROVE RunInv'
  <2>1. /\ at[t] = "inside" /\ at'[t] = "idle"
        /\ UNCHANGED <<stage, agenda, left, listener, eventsListenLock>>
        /\ \A u \in Threads \ {t} :
              at'[u] = at[u] /\ call'[u] = call[u] /\ mapping'[u] = mapping[u]
    BY <1>7 DEF Return, TypeOK
  <2>2. t = EventThread /\ mapping'[t] # "none" => stage = "handling"
    BY <1>7, <2>1 DEF Return, RunInv, EffectIn, TypeOK
  <2>3. QED BY <2>1, <2>2 DEF RunInv
<1>8. ASSUME NEW t \in Threads, Throw(t) PROVE RunInv'
  <2>1. /\ at[t] # "idle" /\ at'[t] = "idle"
        /\ UNCHANGED <<left, mapping, listener, eventsListenLock>>
        /\ \A u \in Threads \ {t} : at'[u] = at[u] /\ call'[u] = call[u]
    BY <1>8 DEF Throw, TypeOK
  <2>2. CASE UNCHANGED <<stage, agenda>>
    BY <2>1, <2>2 DEF RunInv
  <2>3. CASE /\ t = EventThread /\ stage \notin {"handling", "unloading"}
             /\ stage' = "failed" /\ agenda' = <<>>
    <3>1. stage \notin {"listening", "handling", "unloading", "scanning", "hung"}
      BY <2>1, <2>3 DEF RunInv, EffectIn
    <3>2. AgendaOf(stage', agenda')
      BY <2>3 DEF AgendaOf
    <3>3. QED BY <2>1, <2>3, <3>1, <3>2 DEF RunInv
  <2>4. QED BY <1>8, <2>2, <2>3 DEF Throw, Raise
<1>9. ASSUME AgendaCall PROVE RunInv'
  <2>1. AgendaOf(stage, agenda) /\ agenda # <<>>
    BY <1>9 DEF AgendaCall, RunInv
  <2>2. AgendaOf(stage, Tail(agenda)) /\ EffectIn(stage, Head(agenda).does)
    BY <2>1, AgendaFacts
  <2>3. QED BY <1>9, <2>2 DEF AgendaCall, Begin, RunInv, TypeOK
<1>10. ASSUME Watch PROVE RunInv'
  BY <1>10 DEF Watch, Between, GoTo, RunInv, AgendaOf, TypeOK
<1>11. ASSUME PluginsInitialized PROVE RunInv'
  BY <1>11 DEF PluginsInitialized, Between, GoTo, RunInv, AgendaOf, TypeOK
<1>12. ASSUME PluginFails PROVE RunInv'
  BY <1>12 DEF PluginFails, Between, GoTo, RunInv, AgendaOf, TypeOK
<1>13. ASSUME EventsListen PROVE RunInv'
  BY <1>13 DEF EventsListen, Between, GoTo, RunInv, AgendaOf, TypeOK
<1>14. ASSUME Interrupt PROVE RunInv'
  BY <1>14 DEF Interrupt, Between, GoTo, RunInv, AgendaOf, TypeOK
<1>15. ASSUME EventHandled PROVE RunInv'
  BY <1>15 DEF EventHandled, Between, GoTo, RunInv, AgendaOf, TypeOK
<1>16. ASSUME LoopEnds PROVE RunInv'
  BY <1>16 DEF LoopEnds, Between, GoTo, RunInv, AgendaOf, TypeOK
<1>17. ASSUME UnloadPlugins PROVE RunInv'
  BY <1>17 DEF UnloadPlugins, Between, GoTo, UnloadAgenda, HitAgenda, RunInv, AgendaOf, TypeOK
<1>18. ASSUME StartScans PROVE RunInv'
  BY <1>18 DEF StartScans, Between, GoTo, RunInv, AgendaOf, TypeOK
<1>19. ASSUME Unloaded PROVE RunInv'
  BY <1>19 DEF Unloaded, Between, GoTo, RunInv, AgendaOf, TypeOK
<1>20. ASSUME RunReturns PROVE RunInv'
  BY <1>20 DEF RunReturns, Between, GoTo, RunInv, AgendaOf, TypeOK
<1>21. ASSUME Destroy PROVE RunInv'
  BY <1>21 DEF Destroy, Between, RunInv, AgendaOf, TypeOK
<1>22. ASSUME BugCheck PROVE RunInv'
  BY <1>22 DEF BugCheck, Between, GoTo, UnloadAgenda, HitAgenda, RunInv, AgendaOf, TypeOK
<1>23. ASSUME NothingToUnload PROVE RunInv'
  BY <1>23 DEF NothingToUnload, Between, GoTo, RunInv, AgendaOf, TypeOK
<1>24. ASSUME EndScans PROVE RunInv'
  BY <1>24 DEF EndScans, ScansOver, Between, GoTo, RunInv, AgendaOf, TypeOK
<1>25. ASSUME Drain PROVE RunInv'
  BY <1>25 DEF Drain, Between, GoTo, RunInv, AgendaOf, TypeOK
<1>26. ASSUME DrainEnds PROVE RunInv'
  BY <1>26 DEF DrainEnds, Between, GoTo, RunInv, AgendaOf, TypeOK
<1>27. ASSUME DrainFails PROVE RunInv'
  BY <1>27 DEF DrainFails, Between, GoTo, RunInv, AgendaOf, TypeOK
<1>28. ASSUME WaitForItself PROVE RunInv'
  BY <1>28 DEF WaitForItself, Between, GoTo, RunInv, AgendaOf, TypeOK
<1>29. ASSUME ClearInterruptEventHandling PROVE RunInv'
  BY <1>29 DEF ClearInterruptEventHandling, Between, GoTo, RunInv, AgendaOf, TypeOK
<1>30. ASSUME NEW c \in Caches, NEW p \in Pages, GuestChanges(c, p) PROVE RunInv'
  BY <1>30 DEF GuestChanges, RunInv, AgendaOf, TypeOK
<1>31. ASSUME UNCHANGED vars PROVE RunInv'
  BY <1>31 DEF vars, RunInv, AgendaOf, TypeOK
<1>32. QED BY <1>1, <1>2, <1>3, <1>4, <1>5, <1>6, <1>7, <1>8, <1>9, <1>10, <1>11, <1>12, <1>13,
              <1>14, <1>15, <1>16, <1>17, <1>18, <1>19, <1>20, <1>21, <1>22, <1>23, <1>24, <1>25,
              <1>26, <1>27, <1>28, <1>29, <1>30, <1>31 DEF Next, ThreadStep, RunStep, Stopped

\* The types, in every step
LEMMA TypeOKStep ==
  IInv /\ RunInv' /\ [Next]_vars => TypeOK'
<1> SUFFICES ASSUME IInv, RunInv', [Next]_vars PROVE TypeOK'
  OBVIOUS
<1> USE ThreadFacts, CallFacts, LibvmiAssumption DEF IInv, runVars, endVars, libvmiVars, Idle
<1>0. agenda' \in Seq(Operations)
  BY AgendaTyped DEF RunInv
<1>1. ASSUME NEW t \in Threads, FreeCall(t) PROVE TypeOK'
  BY <1>0, <1>1 DEF FreeCall, MayCall, Begin, Targets, Plain, Stages, LibvmiAssumption, TypeOK
<1>2. ASSUME NEW t \in Threads, MapRegion(t) PROVE TypeOK'
  BY <1>0, <1>2 DEF MapRegion, MayCall, Begin, Stages, LibvmiAssumption, TypeOK
<1>3. ASSUME NEW t \in Threads, Unmap(t) PROVE TypeOK'
  BY <1>0, <1>3 DEF Unmap, Begin, Stages, LibvmiAssumption, TypeOK
<1>4. ASSUME NEW t \in Threads, DestroyMapping(t) PROVE TypeOK'
  BY <1>0, <1>4 DEF DestroyMapping, Stages, LibvmiAssumption, TypeOK
<1>5. ASSUME NEW t \in Threads, Reject(t) PROVE TypeOK'
  <2>1. stage' \in Stages
    BY <1>0, <1>5 DEF Reject, Raise, Stages, Stages, LibvmiAssumption, TypeOK
  <2>2. /\ at' \in [Threads -> {"idle", "waiting", "inside"}]
        /\ call' \in [Threads -> [op : Operations, page : Pages \cup {None}]]
    BY <1>0, <1>5 DEF Reject, Plain, Stages, LibvmiAssumption, TypeOK
  <2>3. QED BY <1>0, <1>5, <2>1, <2>2 DEF Reject, Stages, LibvmiAssumption, TypeOK
<1>6. ASSUME NEW t \in Threads, Enter(t) PROVE TypeOK'
  BY <1>0, <1>6 DEF Enter, Stages, LibvmiAssumption, TypeOK
<1>7. ASSUME NEW t \in Threads, Return(t) PROVE TypeOK'
  <2>1. /\ at' \in [Threads -> {"idle", "waiting", "inside"}]
        /\ call' \in [Threads -> [op : Operations, page : Pages \cup {None}]]
        /\ libvmiLock' \in Threads \cup {None}
    BY <1>0, <1>7 DEF Return, Unlock, Plain, Stages, LibvmiAssumption, TypeOK
  <2>2. /\ mapping' \in [Threads -> {"none", "mapped", "unmapped"}]
        /\ held' \in [Threads -> Int]
    BY <1>0, <1>7 DEF Return, Stages, LibvmiAssumption, TypeOK
  <2>3. cache' \in [Caches -> [Pages -> {"empty", "valid", "stale"}]]
    BY <1>0, <1>7 DEF Return, CacheAfter, Fill, Stages, LibvmiAssumption, TypeOK
  <2>4. QED BY <1>0, <1>7, <2>1, <2>2, <2>3 DEF Return, Stages, LibvmiAssumption, TypeOK
<1>8. ASSUME NEW t \in Threads, Throw(t) PROVE TypeOK'
  <2>1. stage' \in Stages
    BY <1>0, <1>8 DEF Throw, Raise, Stages, Stages, LibvmiAssumption, TypeOK
  <2>2. /\ at' \in [Threads -> {"idle", "waiting", "inside"}]
        /\ call' \in [Threads -> [op : Operations, page : Pages \cup {None}]]
        /\ libvmiLock' \in Threads \cup {None}
    BY <1>0, <1>8 DEF Throw, Unlock, Plain, Stages, LibvmiAssumption, TypeOK
  <2>3. QED BY <1>0, <1>8, <2>1, <2>2 DEF Throw, Stages, LibvmiAssumption, TypeOK
<1>9. ASSUME AgendaCall PROVE TypeOK'
  BY <1>0, <1>9 DEF AgendaCall, Begin, Stages, LibvmiAssumption, TypeOK
<1>10. ASSUME Watch PROVE TypeOK'
  BY <1>0, <1>10 DEF Watch, Between, GoTo, Stages, LibvmiAssumption, TypeOK
<1>11. ASSUME PluginsInitialized PROVE TypeOK'
  BY <1>0, <1>11 DEF PluginsInitialized, Between, GoTo, Stages, LibvmiAssumption, TypeOK
<1>12. ASSUME PluginFails PROVE TypeOK'
  BY <1>0, <1>12 DEF PluginFails, Between, GoTo, Stages, LibvmiAssumption, TypeOK
<1>13. ASSUME EventsListen PROVE TypeOK'
  BY <1>0, <1>13 DEF EventsListen, Between, GoTo, Stages, LibvmiAssumption, TypeOK
<1>14. ASSUME Interrupt PROVE TypeOK'
  BY <1>0, <1>14 DEF Interrupt, Between, GoTo, Stages, LibvmiAssumption, TypeOK
<1>15. ASSUME EventHandled PROVE TypeOK'
  BY <1>0, <1>15 DEF EventHandled, Between, GoTo, Stages, LibvmiAssumption, TypeOK
<1>16. ASSUME LoopEnds PROVE TypeOK'
  BY <1>0, <1>16 DEF LoopEnds, Between, GoTo, Stages, LibvmiAssumption, TypeOK
<1>17. ASSUME UnloadPlugins PROVE TypeOK'
  BY <1>0, <1>17 DEF UnloadPlugins, Between, GoTo, Stages, LibvmiAssumption, TypeOK
<1>18. ASSUME StartScans PROVE TypeOK'
  BY <1>0, <1>18 DEF StartScans, MayCall, Between, Stages, LibvmiAssumption, TypeOK
<1>19. ASSUME Unloaded PROVE TypeOK'
  <2>1. /\ at[EventThread] = "idle" /\ agenda' = <<>> /\ stage' \in {"teardown", "handling"}
        /\ UNCHANGED <<call, at, libvmiLock, libvmiVars, listener, eventsListenLock>>
        /\ unload' = "done"
    BY <1>19 DEF Unloaded, Between, GoTo
  <2>2. left' \in [Threads -> Nat]
    <3>1. PICK n \in Nat : left' = [left EXCEPT ![EventThread] = n]
      BY <1>19 DEF Unloaded, GoTo, LibvmiAssumption, TypeOK
    <3>2. QED BY <3>1 DEF TypeOK
  <2>3. QED BY <1>0, <2>1, <2>2 DEF Stages, LibvmiAssumption, TypeOK
<1>20. ASSUME RunReturns PROVE TypeOK'
  BY <1>0, <1>20 DEF RunReturns, Between, GoTo, Stages, LibvmiAssumption, TypeOK
<1>21. ASSUME Destroy PROVE TypeOK'
  BY <1>0, <1>21 DEF Destroy, Between, Stages, LibvmiAssumption, TypeOK
<1>22. ASSUME BugCheck PROVE TypeOK'
  BY <1>0, <1>22 DEF BugCheck, Between, GoTo, Stages, LibvmiAssumption, TypeOK
<1>23. ASSUME NothingToUnload PROVE TypeOK'
  BY <1>0, <1>23 DEF NothingToUnload, Between, GoTo, Stages, LibvmiAssumption, TypeOK
<1>24. ASSUME EndScans PROVE TypeOK'
  BY <1>0, <1>24 DEF EndScans, ScansOver, Between, GoTo, Stages, LibvmiAssumption, TypeOK
<1>25. ASSUME Drain PROVE TypeOK'
  BY <1>0, <1>25 DEF Drain, Between, GoTo, Stages, LibvmiAssumption, TypeOK
<1>26. ASSUME DrainEnds PROVE TypeOK'
  BY <1>0, <1>26 DEF DrainEnds, Between, GoTo, Stages, LibvmiAssumption, TypeOK
<1>27. ASSUME DrainFails PROVE TypeOK'
  BY <1>0, <1>27 DEF DrainFails, Between, GoTo, Stages, LibvmiAssumption, TypeOK
<1>28. ASSUME WaitForItself PROVE TypeOK'
  BY <1>0, <1>28 DEF WaitForItself, Between, GoTo, Stages, LibvmiAssumption, TypeOK
<1>29. ASSUME ClearInterruptEventHandling PROVE TypeOK'
  BY <1>0, <1>29 DEF ClearInterruptEventHandling, Between, GoTo, Stages, LibvmiAssumption,
     TypeOK
<1>30. ASSUME NEW c \in Caches, NEW p \in Pages, GuestChanges(c, p) PROVE TypeOK'
  BY <1>0, <1>30 DEF GuestChanges, Stages, LibvmiAssumption, TypeOK
<1>31. ASSUME UNCHANGED vars PROVE TypeOK'
  BY <1>0, <1>31 DEF vars, Stages, LibvmiAssumption, TypeOK
<1>32. QED BY <1>1, <1>2, <1>3, <1>4, <1>5, <1>6, <1>7, <1>8, <1>9, <1>10, <1>11, <1>12, <1>13,
              <1>14, <1>15, <1>16, <1>17, <1>18, <1>19, <1>20, <1>21, <1>22, <1>23, <1>24, <1>25,
              <1>26, <1>27, <1>28, <1>29, <1>30, <1>31 DEF Next, ThreadStep, RunStep, Stopped

\* The instance and the VM, in every step
LEMMA VmInvStep ==
  IInv /\ [Next]_vars => VmInv'
<1> SUFFICES ASSUME IInv, [Next]_vars PROVE VmInv'
  OBVIOUS
<1> USE ThreadFacts, CallFacts DEF IInv, runVars, endVars, libvmiVars, Idle
<1>1. ASSUME NEW t \in Threads, FreeCall(t) PROVE VmInv'
  BY <1>1 DEF FreeCall, MayCall, Begin, VmInv, RunInv, TypeOK, Doing
<1>2. ASSUME NEW t \in Threads, MapRegion(t) PROVE VmInv'
  BY <1>2 DEF MapRegion, Begin, VmInv, RunInv, TypeOK, Doing
<1>3. ASSUME NEW t \in Threads, Unmap(t) PROVE VmInv'
  BY <1>3 DEF Unmap, Begin, VmInv, RunInv, TypeOK, Doing
<1>4. ASSUME NEW t \in Threads, DestroyMapping(t) PROVE VmInv'
  BY <1>4 DEF DestroyMapping, VmInv, RunInv, TypeOK, Doing
<1>5. ASSUME NEW t \in Threads, Reject(t) PROVE VmInv'
  BY <1>5 DEF Reject, Raise, VmInv, RunInv, TypeOK, Doing
<1>6. ASSUME NEW t \in Threads, Enter(t) PROVE VmInv'
  BY <1>6 DEF Enter, VmInv, RunInv, TypeOK, Doing
<1>7. ASSUME NEW t \in Threads, Return(t) PROVE VmInv'
  <2>1. /\ at[t] = "inside" /\ at'[t] = "idle"
        /\ UNCHANGED <<stage, agenda, listener, eventsListenLock>>
        /\ \A u \in Threads \ {t} : at'[u] = at[u] /\ call'[u] = call[u]
        /\ vmi' = (IF call[t].op.does = "init" THEN "open" ELSE vmi)
        /\ paused' = (IF call[t].op.does = "pause" THEN TRUE
                      ELSE IF call[t].op.does = "resume" THEN FALSE ELSE paused)
    BY <1>7 DEF Return, TypeOK
  <2>2. CASE t \in Scanners
    <3>1. call[t].op.does \notin {"init", "pause", "resume"} /\ t # EventThread
      BY <2>1, <2>2 DEF CallInv, CallIs
    <3>2. QED BY <2>1, <3>1 DEF VmInv, Doing
  <2>3. CASE t = EventThread
    <3>1. EffectIn(stage, call[t].op.does)
      BY <2>1, <2>3 DEF RunInv
    <3>2. listener = "unloading" \/ stage \in {"unloading", "scanning"} => paused' = paused
      BY <2>1, <2>3, <3>1 DEF RunInv, EffectIn
    <3>3. /\ stage = "stopping" => call[t].op.does = "pause"
          /\ stage # "done"
      BY <3>1 DEF EffectIn
    <3>4. /\ stage = "clearing" /\ agenda = <<>> => ~paused'
          /\ stage = "stopping" => paused'
          /\ stage = "starting" /\ vmi' # "open" => agenda = StartAgenda
      BY <2>1, <2>3, <3>3 DEF VmInv, Doing
    <3>5. QED BY <2>1, <2>3, <3>2, <3>3, <3>4 DEF VmInv
  <2>4. QED BY <2>2, <2>3
<1>8. ASSUME NEW t \in Threads, Throw(t) PROVE VmInv'
  BY <1>8 DEF Throw, Raise, Unlock, VmInv, RunInv, TypeOK, Doing
<1>9. ASSUME AgendaCall PROVE VmInv'
  <2>1. AgendaOf(stage, agenda) /\ agenda # <<>>
    BY <1>9 DEF AgendaCall, RunInv
  <2>2. /\ agenda = StartAgenda => Head(agenda).does = "init"
        /\ agenda = <<ResumeVm>> => Head(agenda).does = "resume"
        /\ agenda = <<PauseVm>> => Head(agenda).does = "pause"
        /\ stage = "clearing" /\ Tail(agenda) = <<>> => Head(agenda).does = "resume"
    BY <2>1, AgendaFacts
  <2>3. at[EventThread] = "idle" /\ at'[EventThread] # "idle"
        /\ call'[EventThread].op = Head(agenda)
    BY <1>9 DEF AgendaCall, Begin, TypeOK
  <2>4. QED BY <1>9, <2>2, <2>3 DEF AgendaCall, VmInv, Doing
<1>10. ASSUME Watch PROVE VmInv'
  BY <1>10 DEF Watch, Between, GoTo, StartAgenda, VmInv, RunInv, TypeOK, Doing
<1>11. ASSUME PluginsInitialized PROVE VmInv'
  BY <1>11 DEF PluginsInitialized, Between, GoTo, VmInv, RunInv, TypeOK, Doing
<1>12. ASSUME PluginFails PROVE VmInv'
  BY <1>12 DEF PluginFails, Between, GoTo, VmInv, RunInv, TypeOK, Doing
<1>13. ASSUME EventsListen PROVE VmInv'
  BY <1>13 DEF EventsListen, Between, GoTo, VmInv, RunInv, TypeOK, Doing
<1>14. ASSUME Interrupt PROVE VmInv'
  BY <1>14 DEF Interrupt, Between, GoTo, VmInv, RunInv, TypeOK, Doing
<1>15. ASSUME EventHandled PROVE VmInv'
  BY <1>15 DEF EventHandled, Between, GoTo, VmInv, RunInv, TypeOK, Doing
<1>16. ASSUME LoopEnds PROVE VmInv'
  BY <1>16 DEF LoopEnds, Between, GoTo, VmInv, RunInv, TypeOK, Doing
<1>17. ASSUME UnloadPlugins PROVE VmInv'
  BY <1>17 DEF UnloadPlugins, Between, GoTo, VmInv, RunInv, TypeOK, Doing
<1>18. ASSUME StartScans PROVE VmInv'
  BY <1>18 DEF StartScans, Between, GoTo, VmInv, RunInv, TypeOK, Doing
<1>19. ASSUME Unloaded PROVE VmInv'
  BY <1>19 DEF Unloaded, Between, GoTo, VmInv, RunInv, TypeOK, Doing
<1>20. ASSUME RunReturns PROVE VmInv'
  BY <1>20 DEF RunReturns, Between, GoTo, VmInv, RunInv, TypeOK, Doing
<1>21. ASSUME Destroy PROVE VmInv'
  BY <1>21 DEF Destroy, Between, VmInv, RunInv, TypeOK, Doing
<1>22. ASSUME BugCheck PROVE VmInv'
  BY <1>22 DEF BugCheck, Between, GoTo, VmInv, RunInv, TypeOK, Doing
<1>23. ASSUME NothingToUnload PROVE VmInv'
  BY <1>23 DEF NothingToUnload, Between, GoTo, VmInv, RunInv, TypeOK, Doing
<1>24. ASSUME EndScans PROVE VmInv'
  BY <1>24 DEF EndScans, ScansOver, Between, GoTo, VmInv, RunInv, TypeOK, Doing
<1>25. ASSUME Drain PROVE VmInv'
  BY <1>25 DEF Drain, Between, GoTo, VmInv, RunInv, TypeOK, Doing
<1>26. ASSUME DrainEnds PROVE VmInv'
  BY <1>26 DEF DrainEnds, Between, GoTo, VmInv, RunInv, TypeOK, Doing
<1>27. ASSUME DrainFails PROVE VmInv'
  BY <1>27 DEF DrainFails, Between, GoTo, VmInv, RunInv, TypeOK, Doing
<1>28. ASSUME WaitForItself PROVE VmInv'
  BY <1>28 DEF WaitForItself, Between, GoTo, VmInv, RunInv, TypeOK, Doing
<1>29. ASSUME ClearInterruptEventHandling PROVE VmInv'
  <2>1. TeardownAgenda # <<>>
    BY DEF TeardownAgenda
  <2>2. QED BY <1>29, <2>1 DEF ClearInterruptEventHandling, Between, GoTo, VmInv, RunInv, Doing
<1>30. ASSUME NEW c \in Caches, NEW p \in Pages, GuestChanges(c, p) PROVE VmInv'
  BY <1>30 DEF GuestChanges, VmInv, RunInv, TypeOK, Doing
<1>31. ASSUME UNCHANGED vars PROVE VmInv'
  BY <1>31 DEF vars, VmInv, RunInv, TypeOK, Doing
<1>32. QED BY <1>1, <1>2, <1>3, <1>4, <1>5, <1>6, <1>7, <1>8, <1>9, <1>10, <1>11, <1>12, <1>13,
              <1>14, <1>15, <1>16, <1>17, <1>18, <1>19, <1>20, <1>21, <1>22, <1>23, <1>24, <1>25,
              <1>26, <1>27, <1>28, <1>29, <1>30, <1>31 DEF Next, ThreadStep, RunStep, Stopped

\* The calls in progress, the lock and the mappings, in every step
LEMMA CallInvStep ==
  IInv /\ [Next]_vars => CallInv'
<1> SUFFICES ASSUME IInv, [Next]_vars PROVE CallInv'
  OBVIOUS
<1> USE ThreadFacts, CallFacts DEF IInv, runVars, endVars, libvmiVars, Idle
<1>1. ASSUME NEW t \in Threads, FreeCall(t) PROVE CallInv'
  <2>1. agenda' = <<>> /\ UNCHANGED <<libvmiLock, mapping>>
    BY <1>1 DEF FreeCall, MayCall
  <2>2. PICK op \in (IF t = EventThread THEN FreeCalls ELSE ScannerCalls) :
          \E p \in Targets(op) : Begin(t, op, p)
    BY <1>1 DEF FreeCall
  <2>3. /\ call'[t].op = op /\ op.does = "nothing" /\ (t \in Scanners => op.locked)
        /\ at'[t] = IF op.locked THEN "waiting" ELSE "inside"
        /\ \A u \in Threads \ {t} : at'[u] = at[u] /\ call'[u] = call[u]
    BY <2>2 DEF Begin, Plain, TypeOK
  <2>4. CallIs(t)'
    BY <2>1, <2>3 DEF CallIs
  <2>5. ASSUME NEW u \in Threads \ {t}, CallIs(u) PROVE CallIs(u)'
    BY <2>1, <2>3, <2>5 DEF CallIs
  <2>6. QED BY <2>3, <2>4, <2>5 DEF CallInv
<1>2. ASSUME NEW t \in Threads, MapRegion(t) PROVE CallInv'
  <2>1. /\ agenda' = <<>> /\ mapping[t] = "none" /\ UNCHANGED <<libvmiLock, mapping>>
        /\ call'[t].op = MmapGuest /\ at'[t] = "waiting"
        /\ \A u \in Threads \ {t} : at'[u] = at[u] /\ call'[u] = call[u]
    BY <1>2 DEF MapRegion, MayCall, Begin, TypeOK
  <2>2. CallIs(t)'
    BY <2>1 DEF CallIs
  <2>3. ASSUME NEW u \in Threads \ {t}, CallIs(u) PROVE CallIs(u)'
    BY <2>1, <2>3 DEF CallIs
  <2>4. QED BY <2>1, <2>2, <2>3 DEF CallInv
<1>3. ASSUME NEW t \in Threads, Unmap(t) PROVE CallInv'
  <2>1. /\ mapping[t] = "mapped" /\ at'[t] = "inside" /\ call'[t].op = FreeMappedRegions
        /\ call'[t].page = None /\ UNCHANGED <<libvmiLock, mapping, agenda>>
        /\ \A u \in Threads \ {t} : at'[u] = at[u] /\ call'[u] = call[u]
    BY <1>3 DEF Unmap, Begin, TypeOK
  <2>2. CallIs(t)'
    BY <2>1 DEF CallIs
  <2>3. ASSUME NEW u \in Threads \ {t}, CallIs(u) PROVE CallIs(u)'
    BY <2>1, <2>3 DEF CallIs
  <2>4. QED BY <2>1, <2>2, <2>3 DEF CallInv
<1>4. ASSUME NEW t \in Threads, DestroyMapping(t) PROVE CallInv'
  BY <1>4 DEF DestroyMapping, CallInv, CallIs, TypeOK
<1>5. ASSUME NEW t \in Threads, Reject(t) PROVE CallInv'
  <2>1. /\ at'[t] = "idle" /\ UNCHANGED <<libvmiLock, mapping>>
        /\ agenda = <<>> => agenda' = <<>>
        /\ \A u \in Threads \ {t} : at'[u] = at[u] /\ call'[u] = call[u]
    BY <1>5 DEF Reject, Raise, TypeOK
  <2>2. ASSUME NEW u \in Threads \ {t}, CallIs(u) PROVE CallIs(u)'
    BY <2>1, <2>2 DEF CallIs
  <2>3. QED BY <2>1, <2>2 DEF CallInv
<1>6. ASSUME NEW t \in Threads, Enter(t) PROVE CallInv'
  <2>1. /\ at[t] = "waiting" /\ at'[t] = "inside" /\ libvmiLock = None /\ libvmiLock' = t
        /\ UNCHANGED <<call, mapping, agenda>>
        /\ \A u \in Threads \ {t} : at'[u] = at[u]
    BY <1>6 DEF Enter, TypeOK
  <2>2. CallIs(t) => CallIs(t)'
    BY <2>1 DEF CallIs
  <2>3. ASSUME NEW u \in Threads \ {t}, CallIs(u) PROVE CallIs(u)'
    BY <2>1, <2>3 DEF CallIs
  <2>4. QED BY <2>1, <2>2, <2>3 DEF CallInv
<1>7. ASSUME NEW t \in Threads, Return(t) PROVE CallInv'
  <2>1. /\ at[t] = "inside" /\ at'[t] = "idle" /\ UNCHANGED agenda
        /\ libvmiLock' = (IF call[t].op.locked THEN None ELSE libvmiLock)
        /\ \A u \in Threads \ {t} : at'[u] = at[u] /\ call'[u] = call[u]
        /\ \A u \in Threads \ {t} : mapping'[u] = mapping[u]
    BY <1>7 DEF Return, Unlock, TypeOK
  <2>2. ASSUME NEW u \in Threads \ {t}, at[u] # "idle", CallIs(u) PROVE CallIs(u)'
    BY <2>1, <2>2 DEF CallInv, CallIs
  <2>3. QED BY <2>1, <2>2 DEF CallInv
<1>8. ASSUME NEW t \in Threads, Throw(t) PROVE CallInv'
  <2>1. /\ at[t] = "inside" /\ at'[t] = "idle" /\ UNCHANGED mapping
        /\ libvmiLock' = (IF call[t].op.locked THEN None ELSE libvmiLock)
        /\ agenda = <<>> => agenda' = <<>>
        /\ \A u \in Threads \ {t} : at'[u] = at[u] /\ call'[u] = call[u]
    BY <1>8 DEF Throw, Unlock, Raise, TypeOK
  <2>2. ASSUME NEW u \in Threads \ {t}, at[u] # "idle", CallIs(u) PROVE CallIs(u)'
    BY <2>1, <2>2 DEF CallInv, CallIs
  <2>3. QED BY <2>1, <2>2 DEF CallInv
<1>9. ASSUME AgendaCall PROVE CallInv'
  <2>1. AgendaOf(stage, agenda) /\ agenda # <<>>
    BY <1>9 DEF AgendaCall, RunInv
  <2>2. /\ Head(agenda).locked /\ Head(agenda).does \notin {"map", "free"}
        /\ Head(agenda).does \in {"flush v2p", "flush page"} =>
             ~Head(agenda).fails /\ ~Head(agenda).checked
    BY <2>1, AgendaFacts
  <2>3. /\ at'[EventThread] = "waiting" /\ call'[EventThread].op = Head(agenda)
        /\ call'[EventThread].page = None
        /\ \A u \in Threads \ {EventThread} : at'[u] = at[u] /\ call'[u] = call[u]
        /\ UNCHANGED <<libvmiLock, mapping>>
    BY <1>9, <2>2 DEF AgendaCall, Begin, TypeOK, libvmiVars
  <2>4. CallIs(EventThread)'
    BY <2>2, <2>3 DEF CallIs
  <2>5. ASSUME NEW u \in Threads \ {EventThread}, CallIs(u) PROVE CallIs(u)'
    BY <2>3, <2>5 DEF CallIs
  <2>6. QED BY <2>3, <2>4, <2>5 DEF CallInv
<1>10. ASSUME Watch PROVE CallInv'
  BY <1>10 DEF Watch, Between, GoTo, CallInv, CallIs, TypeOK
<1>11. ASSUME PluginsInitialized PROVE CallInv'
  BY <1>11 DEF PluginsInitialized, Between, GoTo, CallInv, CallIs, TypeOK
<1>12. ASSUME PluginFails PROVE CallInv'
  BY <1>12 DEF PluginFails, Between, GoTo, CallInv, CallIs, TypeOK
<1>13. ASSUME EventsListen PROVE CallInv'
  BY <1>13 DEF EventsListen, Between, GoTo, CallInv, CallIs, TypeOK
<1>14. ASSUME Interrupt PROVE CallInv'
  BY <1>14 DEF Interrupt, Between, GoTo, CallInv, CallIs, TypeOK
<1>15. ASSUME EventHandled PROVE CallInv'
  BY <1>15 DEF EventHandled, Between, GoTo, CallInv, CallIs, TypeOK
<1>16. ASSUME LoopEnds PROVE CallInv'
  BY <1>16 DEF LoopEnds, Between, GoTo, CallInv, CallIs, TypeOK
<1>17. ASSUME UnloadPlugins PROVE CallInv'
  BY <1>17 DEF UnloadPlugins, Between, GoTo, CallInv, CallIs, TypeOK
<1>18. ASSUME StartScans PROVE CallInv'
  BY <1>18 DEF StartScans, Between, GoTo, CallInv, CallIs, TypeOK
<1>19. ASSUME Unloaded PROVE CallInv'
  <2>1. /\ at[EventThread] = "idle" /\ agenda' = <<>> /\ stage' \in {"teardown", "handling"}
        /\ UNCHANGED <<call, at, libvmiLock, libvmiVars, listener, eventsListenLock>>
    BY <1>19 DEF Unloaded, Between, GoTo
  <2>2. QED BY <2>1 DEF CallInv, CallIs, TypeOK
<1>20. ASSUME RunReturns PROVE CallInv'
  BY <1>20 DEF RunReturns, Between, GoTo, CallInv, CallIs, TypeOK
<1>21. ASSUME Destroy PROVE CallInv'
  BY <1>21 DEF Destroy, Between, CallInv, CallIs, TypeOK
<1>22. ASSUME BugCheck PROVE CallInv'
  BY <1>22 DEF BugCheck, Between, GoTo, CallInv, CallIs, TypeOK
<1>23. ASSUME NothingToUnload PROVE CallInv'
  BY <1>23 DEF NothingToUnload, Between, GoTo, CallInv, CallIs, TypeOK
<1>24. ASSUME EndScans PROVE CallInv'
  BY <1>24 DEF EndScans, ScansOver, Between, GoTo, CallInv, CallIs, TypeOK
<1>25. ASSUME Drain PROVE CallInv'
  BY <1>25 DEF Drain, Between, GoTo, CallInv, CallIs, TypeOK
<1>26. ASSUME DrainEnds PROVE CallInv'
  BY <1>26 DEF DrainEnds, Between, GoTo, CallInv, CallIs, TypeOK
<1>27. ASSUME DrainFails PROVE CallInv'
  BY <1>27 DEF DrainFails, Between, GoTo, CallInv, CallIs, TypeOK
<1>28. ASSUME WaitForItself PROVE CallInv'
  BY <1>28 DEF WaitForItself, Between, GoTo, CallInv, CallIs, TypeOK
<1>29. ASSUME ClearInterruptEventHandling PROVE CallInv'
  BY <1>29 DEF ClearInterruptEventHandling, Between, GoTo, CallInv, CallIs, TypeOK
<1>30. ASSUME NEW c \in Caches, NEW p \in Pages, GuestChanges(c, p) PROVE CallInv'
  BY <1>30 DEF GuestChanges, CallInv, CallIs, TypeOK
<1>31. ASSUME UNCHANGED vars PROVE CallInv'
  BY <1>31 DEF vars, CallInv, CallIs, TypeOK
<1>32. QED BY <1>1, <1>2, <1>3, <1>4, <1>5, <1>6, <1>7, <1>8, <1>9, <1>10, <1>11, <1>12, <1>13,
              <1>14, <1>15, <1>16, <1>17, <1>18, <1>19, <1>20, <1>21, <1>22, <1>23, <1>24, <1>25,
              <1>26, <1>27, <1>28, <1>29, <1>30, <1>31 DEF Next, ThreadStep, RunStep, Stopped

\* What libvmi holds of each mapping, in every step
LEMMA HeldInvStep ==
  IInv /\ [Next]_vars => HeldInv'
<1> SUFFICES ASSUME IInv, [Next]_vars PROVE HeldInv'
  OBVIOUS
<1> USE ThreadFacts, CallFacts DEF IInv, runVars, endVars, libvmiVars, Idle
<1>1. ASSUME NEW t \in Threads, FreeCall(t) PROVE HeldInv'
  BY <1>1 DEF FreeCall, Begin, HeldInv
<1>2. ASSUME NEW t \in Threads, MapRegion(t) PROVE HeldInv'
  BY <1>2 DEF MapRegion, Begin, HeldInv
<1>3. ASSUME NEW t \in Threads, Unmap(t) PROVE HeldInv'
  BY <1>3 DEF Unmap, Begin, HeldInv
<1>4. ASSUME NEW t \in Threads, DestroyMapping(t) PROVE HeldInv'
  BY <1>4 DEF DestroyMapping, HeldInv
<1>5. ASSUME NEW t \in Threads, Reject(t) PROVE HeldInv'
  BY <1>5 DEF Reject, Raise, HeldInv
<1>6. ASSUME NEW t \in Threads, Enter(t) PROVE HeldInv'
  BY <1>6 DEF Enter, HeldInv
<1>7. ASSUME NEW t \in Threads, Return(t) PROVE HeldInv'
  <2>1. /\ \A u \in Threads \ {t} : mapping'[u] = mapping[u] /\ held'[u] = held[u]
        /\ call[t].op.does = "map" =>
             mapping[t] = "none" /\ mapping'[t] = "mapped" /\ held'[t] = held[t] + 1
        /\ call[t].op.does = "free" =>
             mapping[t] = "mapped" /\ mapping'[t] = "unmapped" /\ held'[t] = held[t] - 1
        /\ call[t].op.does \notin {"map", "free"} =>
             mapping'[t] = mapping[t] /\ held'[t] = held[t]
    BY <1>7 DEF Return, CallInv, CallIs, TypeOK
  <2>2. QED BY <2>1 DEF HeldInv
<1>8. ASSUME NEW t \in Threads, Throw(t) PROVE HeldInv'
  BY <1>8 DEF Throw, Raise, Unlock, HeldInv
<1>9. ASSUME AgendaCall PROVE HeldInv'
  BY <1>9 DEF AgendaCall, Begin, HeldInv
<1>10. ASSUME Watch PROVE HeldInv'
  BY <1>10 DEF Watch, Between, GoTo, HeldInv
<1>11. ASSUME PluginsInitialized PROVE HeldInv'
  BY <1>11 DEF PluginsInitialized, Between, GoTo, HeldInv
<1>12. ASSUME PluginFails PROVE HeldInv'
  BY <1>12 DEF PluginFails, Between, GoTo, HeldInv
<1>13. ASSUME EventsListen PROVE HeldInv'
  BY <1>13 DEF EventsListen, Between, GoTo, HeldInv
<1>14. ASSUME Interrupt PROVE HeldInv'
  BY <1>14 DEF Interrupt, Between, GoTo, HeldInv
<1>15. ASSUME EventHandled PROVE HeldInv'
  BY <1>15 DEF EventHandled, Between, GoTo, HeldInv
<1>16. ASSUME LoopEnds PROVE HeldInv'
  BY <1>16 DEF LoopEnds, Between, GoTo, HeldInv
<1>17. ASSUME UnloadPlugins PROVE HeldInv'
  BY <1>17 DEF UnloadPlugins, Between, GoTo, HeldInv
<1>18. ASSUME StartScans PROVE HeldInv'
  BY <1>18 DEF StartScans, Between, GoTo, HeldInv
<1>19. ASSUME Unloaded PROVE HeldInv'
  BY <1>19 DEF Unloaded, Between, GoTo, HeldInv
<1>20. ASSUME RunReturns PROVE HeldInv'
  BY <1>20 DEF RunReturns, Between, GoTo, HeldInv
<1>21. ASSUME Destroy PROVE HeldInv'
  BY <1>21 DEF Destroy, Between, HeldInv
<1>22. ASSUME BugCheck PROVE HeldInv'
  BY <1>22 DEF BugCheck, Between, GoTo, HeldInv
<1>23. ASSUME NothingToUnload PROVE HeldInv'
  BY <1>23 DEF NothingToUnload, Between, GoTo, HeldInv
<1>24. ASSUME EndScans PROVE HeldInv'
  BY <1>24 DEF EndScans, ScansOver, Between, GoTo, HeldInv
<1>25. ASSUME Drain PROVE HeldInv'
  BY <1>25 DEF Drain, Between, GoTo, HeldInv
<1>26. ASSUME DrainEnds PROVE HeldInv'
  BY <1>26 DEF DrainEnds, Between, GoTo, HeldInv
<1>27. ASSUME DrainFails PROVE HeldInv'
  BY <1>27 DEF DrainFails, Between, GoTo, HeldInv
<1>28. ASSUME WaitForItself PROVE HeldInv'
  BY <1>28 DEF WaitForItself, Between, GoTo, HeldInv
<1>29. ASSUME ClearInterruptEventHandling PROVE HeldInv'
  BY <1>29 DEF ClearInterruptEventHandling, Between, GoTo, HeldInv
<1>30. ASSUME NEW c \in Caches, NEW p \in Pages, GuestChanges(c, p) PROVE HeldInv'
  BY <1>30 DEF GuestChanges, HeldInv
<1>31. ASSUME UNCHANGED vars PROVE HeldInv'
  BY <1>31 DEF vars, HeldInv
<1>32. QED BY <1>1, <1>2, <1>3, <1>4, <1>5, <1>6, <1>7, <1>8, <1>9, <1>10, <1>11, <1>12, <1>13,
              <1>14, <1>15, <1>16, <1>17, <1>18, <1>19, <1>20, <1>21, <1>22, <1>23, <1>24, <1>25,
              <1>26, <1>27, <1>28, <1>29, <1>30, <1>31 DEF Next, ThreadStep, RunStep, Stopped

\* The owner of the lock, in every step
LEMMA LockInvStep ==
  IInv /\ [Next]_vars => LockInv'
<1> SUFFICES ASSUME IInv, [Next]_vars PROVE LockInv'
  OBVIOUS
<1> USE ThreadFacts DEF IInv, LockInv, TypeOK, runVars, endVars, libvmiVars
<1>1. ASSUME NEW t \in Threads, at[t] = "idle", UNCHANGED libvmiLock,
             \A u \in Threads \ {t} : at'[u] = at[u] /\ call'[u] = call[u]
      PROVE LockInv'
  BY <1>1
<1>2. ASSUME NEW t \in Threads, FreeCall(t) \/ MapRegion(t) \/ Unmap(t) PROVE LockInv'
  BY <1>1, <1>2 DEF FreeCall, MapRegion, Unmap, Begin
<1>3. ASSUME NEW t \in Threads, Reject(t) PROVE LockInv'
  BY <1>3 DEF Reject
<1>4. ASSUME NEW t \in Threads, Enter(t) PROVE LockInv'
  <2>1. call[t].op.locked /\ UNCHANGED call /\ libvmiLock' = t /\ at'[t] = "inside"
    BY <1>4 DEF Enter, CallInv, CallIs
  <2>2. QED BY <2>1
<1>5. ASSUME NEW t \in Threads, Return(t) \/ Throw(t) PROVE LockInv'
  <2>1. /\ Unlock(t)
        /\ \A u \in Threads \ {t} : at'[u] = at[u] /\ call'[u] = call[u]
    BY <1>5 DEF Return, Throw
  <2>2. libvmiLock' \in {None, libvmiLock} \ {t}
    BY <2>1 DEF Unlock
  <2>3. QED BY <2>1, <2>2
<1>6. ASSUME AgendaCall PROVE LockInv'
  BY <1>1, <1>6 DEF AgendaCall, Begin
<1>7. ASSUME NEW t \in Threads, DestroyMapping(t) PROVE LockInv'
  BY <1>7 DEF DestroyMapping
<1>8. ASSUME RunStep, ~AgendaCall PROVE LockInv'
  <2>1. UNCHANGED <<libvmiLock, at, call>>
    BY <1>8 DEF RunStep, Watch, PluginsInitialized, PluginFails, EventsListen, Interrupt,
       EventHandled, BugCheck, LoopEnds, UnloadPlugins, NothingToUnload, StartScans, EndScans, Drain,
       DrainEnds, DrainFails, WaitForItself, Unloaded, ClearInterruptEventHandling, RunReturns,
       Destroy, GoTo
  <2>2. QED BY <2>1
<1>9. ASSUME NEW c \in Caches, NEW p \in Pages, GuestChanges(c, p) PROVE LockInv'
  BY <1>9 DEF GuestChanges
<1>10. ASSUME UNCHANGED vars PROVE LockInv'
  BY <1>10 DEF vars
<1>11. QED BY <1>2, <1>3, <1>4, <1>5, <1>6, <1>7, <1>8, <1>9, <1>10 DEF Next, ThreadStep, Stopped

\* The stale entries of the caches, in every step
LEMMA FreshInvStep ==
  IInv /\ [Next]_vars => FreshInv'
<1> SUFFICES ASSUME IInv, [Next]_vars PROVE FreshInv'
  OBVIOUS
<1> USE ThreadFacts, CallFacts DEF IInv, runVars, endVars, libvmiVars, Idle, GuestRuns, InEvent
<1>1. ASSUME NEW t \in Threads, FreeCall(t) PROVE FreshInv'
  BY <1>1 DEF FreeCall, Begin, FreshInv, NoStale, Doing, RunInv, TypeOK
<1>2. ASSUME NEW t \in Threads, MapRegion(t) PROVE FreshInv'
  BY <1>2 DEF MapRegion, Begin, FreshInv, NoStale, Doing, RunInv, TypeOK
<1>3. ASSUME NEW t \in Threads, Unmap(t) PROVE FreshInv'
  BY <1>3 DEF Unmap, Begin, FreshInv, NoStale, Doing, RunInv, TypeOK
<1>4. ASSUME NEW t \in Threads, DestroyMapping(t) PROVE FreshInv'
  BY <1>4 DEF DestroyMapping, FreshInv, NoStale, Doing, RunInv, TypeOK
<1>5. ASSUME NEW t \in Threads, Reject(t) PROVE FreshInv'
  BY <1>5 DEF Reject, Raise, CallInv, CallIs, EffectIn, FreshInv, NoStale, Doing,
     RunInv, TypeOK
<1>6. ASSUME NEW t \in Threads, Enter(t) PROVE FreshInv'
  BY <1>6 DEF Enter, FreshInv, NoStale, Doing, RunInv, TypeOK
<1>7. ASSUME NEW t \in Threads, Return(t) PROVE FreshInv'
  <2>1. /\ at[t] = "inside"
        /\ UNCHANGED <<stage, agenda, listener, eventsListenLock>>
        /\ \A u \in Threads \ {t} : at'[u] = at[u] /\ call'[u] = call[u]
        /\ paused' = (IF call[t].op.does = "pause" THEN TRUE
                      ELSE IF call[t].op.does = "resume" THEN FALSE ELSE paused)
    BY <1>7 DEF Return, TypeOK
  <2>2. \A c \in Caches : NoStale(c) => NoStale(c)'
    BY <1>7 DEF Return, CacheAfter, Fill, NoStale, TypeOK
  <2>3. /\ call[t].op.does = "flush v2p" => NoStale("v2p")'
        /\ call[t].op.does = "flush page" => NoStale("page")'
    BY <1>7 DEF Return, CacheAfter, Flushes, NoStale, Caches, TypeOK
  <2>4. /\ stage \in {"handling", "unloading"} => t = EventThread
        /\ stage = "scanning" => t \in Scanners
        /\ stage # "listening"
    BY <2>1 DEF RunInv, EffectIn
  <2>5. stage \in {"handling", "unloading", "scanning"} => paused' = paused
    BY <2>1, <2>4 DEF RunInv, EffectIn, CallInv, CallIs
  <2>6. QED BY <2>1, <2>2, <2>3, <2>4, <2>5 DEF FreshInv, Doing, Caches
<1>8. ASSUME NEW t \in Threads, Throw(t) PROVE FreshInv'
  BY <1>8 DEF Throw, Raise, Unlock, CallInv, CallIs, EffectIn, FreshInv, NoStale, Doing, RunInv, TypeOK
<1>9. ASSUME AgendaCall PROVE FreshInv'
  <2>1. AgendaOf(stage, agenda) /\ agenda # <<>>
    BY <1>9 DEF AgendaCall, RunInv
  <2>2. /\ agenda = HitAgenda =>
             Head(agenda).does = "flush v2p" /\ Tail(agenda) = <<FlushPageCache>>
        /\ agenda = <<FlushPageCache>> => Head(agenda).does = "flush page"
    BY <2>1, AgendaFacts
  <2>3. /\ at[EventThread] = "idle" /\ at'[EventThread] # "idle"
        /\ call'[EventThread].op = Head(agenda) /\ agenda' = Tail(agenda)
        /\ UNCHANGED <<stage, listener, eventsListenLock, paused, cache>>
    BY <1>9 DEF AgendaCall, Begin, TypeOK
  <2>4. QED BY <2>2, <2>3 DEF FreshInv, Doing, NoStale
<1>10. ASSUME Watch PROVE FreshInv'
  BY <1>10 DEF Watch, Between, GoTo, FreshInv, NoStale, Doing, RunInv, TypeOK
<1>11. ASSUME PluginsInitialized PROVE FreshInv'
  BY <1>11 DEF PluginsInitialized, Between, GoTo, FreshInv, NoStale, Doing, RunInv,
     TypeOK
<1>12. ASSUME PluginFails PROVE FreshInv'
  BY <1>12 DEF PluginFails, Between, GoTo, FreshInv, NoStale, Doing, RunInv, TypeOK
<1>13. ASSUME EventsListen PROVE FreshInv'
  BY <1>13 DEF EventsListen, Between, GoTo, FreshInv, NoStale, Doing, RunInv, TypeOK
<1>14. ASSUME Interrupt PROVE FreshInv'
  BY <1>14 DEF Interrupt, Between, GoTo, FreshInv, NoStale, Doing, RunInv, TypeOK
<1>15. ASSUME EventHandled PROVE FreshInv'
  <2>1. /\ Between /\ stage = "handling" /\ stage' = "listening" /\ UNCHANGED <<cache, listener>>
    BY <1>15 DEF EventHandled, GoTo
  <2>2. listener = "unloading" => ~GuestRuns
    BY DEF VmInv
  <2>3. ~GuestRuns => NoStale("v2p") /\ NoStale("page")
    BY <2>1 DEF Between, HitAgenda, FreshInv, Doing
  <2>4. QED BY <2>1, <2>2, <2>3 DEF FreshInv, NoStale
<1>16. ASSUME LoopEnds PROVE FreshInv'
  BY <1>16 DEF LoopEnds, Between, GoTo, FreshInv, NoStale, Doing, RunInv, TypeOK
<1>17. ASSUME UnloadPlugins PROVE FreshInv'
  BY <1>17 DEF UnloadPlugins, Between, GoTo, UnloadAgenda, HitAgenda, FreshInv, NoStale, Doing, RunInv, TypeOK
<1>18. ASSUME StartScans PROVE FreshInv'
  BY <1>18 DEF StartScans, Between, GoTo, HitAgenda, VmInv, FreshInv, NoStale, Doing,
     RunInv, TypeOK
<1>19. ASSUME Unloaded PROVE FreshInv'
  BY <1>19 DEF Unloaded, Between, GoTo, FreshInv, NoStale, Doing, RunInv,
     TypeOK
<1>20. ASSUME RunReturns PROVE FreshInv'
  BY <1>20 DEF RunReturns, Between, GoTo, FreshInv, NoStale, Doing, RunInv, TypeOK
<1>21. ASSUME Destroy PROVE FreshInv'
  BY <1>21 DEF Destroy, Between, FreshInv, NoStale, Doing, RunInv, TypeOK
<1>22. ASSUME BugCheck PROVE FreshInv'
  BY <1>22 DEF BugCheck, Between, GoTo, UnloadAgenda, HitAgenda, FreshInv, NoStale, Doing, RunInv, TypeOK
<1>23. ASSUME NothingToUnload PROVE FreshInv'
  BY <1>23 DEF NothingToUnload, Between, GoTo, FreshInv, NoStale, Doing, RunInv,
     TypeOK
<1>24. ASSUME EndScans PROVE FreshInv'
  BY <1>24 DEF EndScans, ScansOver, Between, GoTo, VmInv, FreshInv, NoStale, Doing, RunInv,
     TypeOK
<1>25. ASSUME Drain PROVE FreshInv'
  <2>1. /\ Between /\ stage \in {"unloading", "teardown"} /\ eventsListenLock = None
        /\ stage' = "listening" /\ listener' = stage /\ UNCHANGED cache
    BY <1>25 DEF Drain, GoTo
  <2>2. stage = "unloading" => ~GuestRuns
    BY <2>1 DEF VmInv
  <2>3. stage = "unloading" /\ ~GuestRuns => NoStale("v2p") /\ NoStale("page")
    BY <2>1 DEF Between, HitAgenda, FreshInv, Doing
  <2>4. QED BY <2>1, <2>2, <2>3 DEF FreshInv, NoStale
<1>26. ASSUME DrainEnds PROVE FreshInv'
  BY <1>26 DEF DrainEnds, Between, GoTo, VmInv, FreshInv, NoStale, Doing, RunInv, TypeOK
<1>27. ASSUME DrainFails PROVE FreshInv'
  BY <1>27 DEF DrainFails, Between, GoTo, FreshInv, NoStale, Doing, RunInv, TypeOK
<1>28. ASSUME WaitForItself PROVE FreshInv'
  BY <1>28 DEF WaitForItself, Between, GoTo, FreshInv, NoStale, Doing, RunInv, TypeOK
<1>29. ASSUME ClearInterruptEventHandling PROVE FreshInv'
  BY <1>29 DEF ClearInterruptEventHandling, Between, GoTo, FreshInv, NoStale, Doing,
     RunInv, TypeOK
<1>30. ASSUME NEW c \in Caches, NEW p \in Pages, GuestChanges(c, p) PROVE FreshInv'
  BY <1>30 DEF GuestChanges, VmInv, FreshInv, NoStale, Doing, RunInv, TypeOK
<1>31. ASSUME UNCHANGED vars PROVE FreshInv'
  BY <1>31 DEF vars, FreshInv, NoStale, Doing, RunInv, TypeOK
<1>32. QED BY <1>1, <1>2, <1>3, <1>4, <1>5, <1>6, <1>7, <1>8, <1>9, <1>10, <1>11, <1>12, <1>13,
              <1>14, <1>15, <1>16, <1>17, <1>18, <1>19, <1>20, <1>21, <1>22, <1>23, <1>24, <1>25,
              <1>26, <1>27, <1>28, <1>29, <1>30, <1>31 DEF Next, ThreadStep, RunStep, Stopped

\* The invariant holds in every state of every run.
LEMMA Invariant == Spec => []IInv
<1>1. Init => IInv
  <2> SUFFICES ASSUME Init PROVE IInv
    OBVIOUS
  <2> USE ThreadFacts, CallFacts, LibvmiAssumption
  <2>1. AgendaOf(stage, agenda) /\ agenda \in Seq(Operations)
    BY AgendaTyped DEF Init, AgendaOf
  <2>2. TypeOK
    <3>1. call \in [Threads -> [op : Operations, page : Pages \cup {None}]]
      BY DEF Init, Plain
    <3>2. /\ stage \in Stages /\ vmi = "none" /\ paused = FALSE
          /\ libvmiLock = None /\ eventsListenLock = None /\ listener = "loop" /\ unload = "due"
      BY DEF Init, Stages
    <3>3. /\ at \in [Threads -> {"idle", "waiting", "inside"}] /\ left \in [Threads -> Nat]
          /\ cache \in [Caches -> [Pages -> {"empty", "valid", "stale"}]]
          /\ mapping \in [Threads -> {"none", "mapped", "unmapped"}]
          /\ held \in [Threads -> Int]
      BY DEF Init
    <3>4. QED BY <2>1, <3>1, <3>2, <3>3 DEF TypeOK
  <2>3. RunInv /\ VmInv /\ CallInv /\ HeldInv /\ LockInv /\ FreshInv
    BY <2>1 DEF Init, RunInv, VmInv, CallInv, HeldInv, LockInv, FreshInv
  <2>4. QED BY <2>2, <2>3 DEF IInv
<1>2. IInv /\ [Next]_vars => IInv'
  BY RunInvStep, TypeOKStep, VmInvStep, CallInvStep, HeldInvStep, LockInvStep,
     FreshInvStep DEF IInv
<1>3. QED BY <1>1, <1>2, PTL DEF Spec

-----------------------------------------------------------------------------
\* Every variable of the binding keeps its type: no call goes into a stage that does not make it,
\* and no lock is held by anyone but a thread of the program.
THEOREM LibvmiTypes == Spec => []TypeOK
<1>1. IInv => TypeOK
  BY DEF IInv
<1>2. QED BY <1>1, Invariant, PTL

\* LibvmiInterface.cpp:87-97, :201-204, :235-243: two threads are never inside of libvmi at once, but
\* for the regions that a MemoryMapping frees.  The scanners of an unload call an open instance only,
\* and never while the event thread polls, also if a bug check unloads in an event.  Whoever holds
\* libvmiLock is inside, so that an exception leaves no lock behind.
THEOREM OneCallAtATime == Spec => []OneAtATime
<1>1. IInv => OneAtATime
  <2> SUFFICES ASSUME IInv PROVE OneAtATime
    OBVIOUS
  <2> USE ThreadFacts DEF IInv
  <2>1. ASSUME NEW s \in Scanners, at[s] # "idle" PROVE vmi = "open" /\ stage # "listening"
    BY <2>1 DEF RunInv, VmInv
  <2>2. ASSUME NEW t \in Threads, NEW u \in Threads, t # u, at[t] = "inside", at[u] = "inside",
               call[t].op.does # "free", call[u].op.does # "free"
        PROVE FALSE
    <3>1. \A s \in {t, u} \cap Scanners : libvmiLock = s /\ stage = "scanning"
      <4> SUFFICES ASSUME NEW s \in {t, u} \cap Scanners
                   PROVE libvmiLock = s /\ stage = "scanning"
        OBVIOUS
      <4>1. at[s] = "inside" /\ call[s].op.does # "free"
        BY <2>2
      <4>2. CallIs(s) /\ stage = "scanning"
        BY <4>1 DEF CallInv, RunInv
      <4>3. QED BY <4>1, <4>2 DEF CallIs
    <3>2. EventThread \in {t, u} => stage # "scanning"
      BY <2>2 DEF RunInv, EffectIn
    <3>3. QED BY <2>2, <3>1, <3>2
  <2>3. QED BY <2>1, <2>2 DEF LockInv, OneAtATime
<1>2. QED BY <1>1, Invariant, PTL

\* MemoryMapping.cpp:23-49, LibvmiInterface.cpp:31-36: a mapping is freed exactly once, on every
\* path, and none is left in the end; a run that returns, with or without an unload, on whichever way
\* it came to that, has resumed the guest.
THEOREM GuestLeftAsFound == Spec => []LeftAsFound
<1>1. IInv => LeftAsFound
  <2> SUFFICES ASSUME IInv PROVE LeftAsFound
    OBVIOUS
  <2>1. stage = "destroyed" => \A t \in Threads : mapping[t] = "none"
    BY ThreadFacts DEF IInv, RunInv
  <2>2. QED BY <2>1 DEF IInv, HeldInv, VmInv, LeftAsFound
<1>2. QED BY <1>1, Invariant, PTL

\* InterruptEventSupervisor.cpp:210, PluginSystem.cpp:206: with the guest standing still, no call
\* of a callback or of a scan is answered from a cached entry that the guest has outdated.
THEOREM CallbacksReadFresh == Spec => []ReadsFresh
<1>1. IInv => ReadsFresh
  <2> SUFFICES ASSUME IInv, NEW t \in Threads, at[t] = "inside", call[t].page # None, ~GuestRuns,
                      stage \in {"handling", "unloading", "scanning"}
               PROVE \A c \in call[t].op.uses : cache[c][call[t].page] # "stale"
    BY DEF ReadsFresh
  <2> USE ThreadFacts DEF IInv
  <2>1. call[t].op.uses \subseteq Caches /\ call[t].page \in Pages
    BY DEF TypeOK, Operations
  <2>2. CASE t \in Scanners
    BY <2>1, <2>2 DEF RunInv, FreshInv, NoStale, Caches
  <2>3. CASE t = EventThread
    <3>1. /\ agenda = <<>> /\ ~Doing("flush v2p") /\ ~Doing("flush page")
          /\ stage \in {"handling", "unloading"}
      BY <2>3 DEF CallInv, CallIs, Doing, RunInv, EffectIn
    <3>2. agenda \notin {HitAgenda, <<FlushPageCache>>}
      BY <3>1 DEF HitAgenda
    <3>3. QED BY <2>1, <3>1, <3>2 DEF FreshInv, NoStale, Caches
  <2>4. QED BY <2>2, <2>3
<1>2. QED BY <1>1, Invariant, PTL
=============================================================================
