------------------- MODULE InterruptEventSupervisor_proofs -------------------
(***************************************************************************)
(* Proofs about InterruptEventSupervisor for every number of vCPUs,        *)
(* addresses, pages, processes and breakpoints.                            *)
(***************************************************************************)
EXTENDS InterruptEventSupervisor, TLAPS

\* Every variable keeps its type: the typing that all other proofs rest on.
THEOREM Typing == Spec => []TypeOK
<1>1. Init => TypeOK
  <2> SUFFICES ASSUME Init PROVE TypeOK
    OBVIOUS
  <2>1. mem \in [PAs -> Bytes] /\ guestByte \in [PAs -> Bytes]
    BY DEF Init, NoCopy, NoCallbacks, Bytes, INT3
  <2>2. mode \in [VCPUs -> Modes] /\ phase \in Phases
    BY DEF Init, NoCopy, NoCallbacks, Modes, Phases
  <2>3. bps \in [PAs -> SUBSET Breakpoints]
    BY DEF Init, NoCopy, NoCallbacks
  <2>4. QED BY <2>1, <2>2, <2>3 DEF Init, NoCopy, NoCallbacks, TypeOK
<1>2. TypeOK /\ [Next]_vars => TypeOK'
  <2> SUFFICES ASSUME TypeOK, [Next]_vars PROVE TypeOK'
    OBVIOUS
  <2> USE ConstantsAssumption DEF ConstantsAssumption, TypeOK, guestVars, tables, thread
  <2>1. ASSUME NEW b \in Breakpoints, CreateBegin(b) PROVE TypeOK'
    <3>1. CreatePageGuard(b) => shadow' \in [GFNs -> [PAs -> Bytes \cup {None}]]
      <4>1. Zeros \in [PAs -> Bytes]
        BY DEF Zeros, Bytes
      <4>2. ASSUME NEW behind \in {mem, Zeros} PROVE ShadowPage(b, behind) \in [PAs -> Bytes \cup {None}]
        <5>1. behind \in [PAs -> Bytes]
          BY <4>1
        <5>2. QED BY <5>1 DEF ShadowPage
      <4>3. QED BY <4>2 DEF CreatePageGuard
    <3>2. CASE removing # None
      BY <2>1, <3>2 DEF CreateBegin, CreatePageGuard
    <3>3. CASE removing = None /\ GFN[TargetPA[b]] \in pages
      BY <2>1, <3>3 DEF CreateBegin, CreatePageGuard
    <3>4. CASE removing = None /\ GFN[TargetPA[b]] \notin pages
      <4>1. pages' \subseteq GFNs
        BY <2>1, <3>4 DEF CreateBegin, CreatePageGuard
      <4>2. QED BY <2>1, <3>1, <3>4, <4>1 DEF CreateBegin, CreatePageGuard
    <3>5. QED BY <3>2, <3>3, <3>4
  <2>2. ASSUME NEW b \in Breakpoints, CreateFinish(b) PROVE TypeOK'
    <3>1. CASE NewInt3(b, TargetPA[b])
      BY <2>2, <3>1 DEF CreateFinish, NewInt3, EnableEvent, Bytes, INT3, States
    <3>2. CASE AlreadyInt3(TargetPA[b])
      BY <2>2, <3>2 DEF CreateFinish, AlreadyInt3
    <3>3. CASE JoinInt3(b, TargetPA[b])
      BY <2>2, <3>3 DEF CreateFinish, JoinInt3, EnableEvent, Bytes, INT3, States
    <3>4. QED BY <2>2, <3>1, <3>2, <3>3 DEF CreateFinish
  <2>3. ASSUME NEW b \in Breakpoints, DeleteBegin(b) PROVE TypeOK'
    <3>1. CASE removing # None
      BY <2>3, <3>1 DEF DeleteBegin, EraseBreakpointAtAddress
    <3>2. CASE removing = None
      <4>5. bps' = [bps EXCEPT ![TargetPA[b]] = @ \ {b}]
        BY <2>3, <3>2 DEF DeleteBegin, EraseBreakpointAtAddress
      <4>1. bps' \in [PAs -> SUBSET Breakpoints]
        <5>1. bps \in [PAs -> SUBSET Breakpoints]
          OBVIOUS
        <5>2. QED BY ONLY <4>5, <5>1
      <4>2. draining' \in BOOLEAN /\ removing' \in PAs \cup {None}
        <5>1. \/ UNCHANGED <<removing, draining>>
              \/ removing' = TargetPA[b] /\ draining' = (AreEventsPending /\ handling = None)
          BY <2>3, <3>2 DEF DeleteBegin, EraseBreakpointAtAddress
        <5>2. CASE UNCHANGED <<removing, draining>>
          BY <5>2
        <5>3. CASE removing' = TargetPA[b] /\ draining' = (AreEventsPending /\ handling = None)
          BY <5>3
        <5>4. QED BY <5>1, <5>2, <5>3
      <4>4. hung' \in BOOLEAN
        BY <2>3, <3>2 DEF DeleteBegin, EraseBreakpointAtAddress
      <4>3. QED BY <2>3, <3>2, <4>1, <4>2, <4>4 DEF DeleteBegin, EraseBreakpointAtAddress
    <3>3. QED BY <3>1, <3>2
  <2>4. CASE DrainEnd
    BY <2>4 DEF DrainEnd
  <2>5. CASE DeleteFinish
    <3>1. mem' \in [PAs -> Bytes]
      BY <2>5 DEF DeleteFinish, RemoveInterrupt, SavedByte, Zero, Bytes
    <3>2. original' \in [PAs -> Bytes \cup {None}] /\ status' \in [PAs -> States \cup {None}]
      BY <2>5 DEF DeleteFinish, RemoveInterrupt
    <3>3. pages' \subseteq GFNs /\ shadow' \in [GFNs -> [PAs -> Bytes \cup {None}]]
      <4>1. NoCopy \in [PAs -> Bytes \cup {None}]
        BY DEF NoCopy
      <4>2. CASE PageIsEmpty(GFN[removing], bps)
        BY <2>5, <4>1, <4>2 DEF DeleteFinish, TeardownGuard
      <4>3. CASE ~PageIsEmpty(GFN[removing], bps)
        BY <2>5, <4>3 DEF DeleteFinish
      <4>4. QED BY <4>2, <4>3
    <3>4. QED BY <2>5, <3>1, <3>2, <3>3 DEF DeleteFinish
  <2>6. ASSUME NEW v \in VCPUs, Reinject(v) PROVE TypeOK'
    BY <2>6 DEF Reinject, Resumed, Modes
  <2>7. ASSUME NEW v \in VCPUs, BeginCallbacks(v) PROVE TypeOK'
    BY <2>7 DEF BeginCallbacks
  <2>8. ASSUME NEW v \in VCPUs, NEW answers \in Answers(v), EndCallbacks(v, answers) PROVE TypeOK'
    <3>1. answers \subseteq Breakpoints
      BY <2>8 DEF Answers, Invoked
    <3>2. mem' \in [PAs -> Bytes] /\ status' \in [PAs -> States \cup {None}]
      <4>1. DisableEvent(rip[v])
        BY <2>8 DEF EndCallbacks
      <4>2. \A pa \in PAs : SavedByte(pa) \in Bytes
        BY DEF SavedByte, Zero, Bytes
      <4>3. mem' = mem \/ rip[v] \in PAs
        BY <4>1 DEF DisableEvent
      <4>4. mem' \in [PAs -> Bytes]
        BY <4>1, <4>2, <4>3 DEF DisableEvent
      <4>5. status' \in [PAs -> States \cup {None}]
        BY <4>1 DEF DisableEvent, States
      <4>6. QED BY <4>4, <4>5
    <3>3. CASE StepAlreadySet(v)
      <4>1. /\ handling' = None
            /\ UNCHANGED <<guestByte, dtb, nextDtb, pages, shadow, bps, original, creating, hung>>
        BY <2>8 DEF EndCallbacks
      <4>2. mode' \in [VCPUs -> Modes] /\ rip' \in [VCPUs -> PAs \cup {None}]
        BY <2>8, <3>1, <3>3 DEF EndCallbacks, StepAlreadySet, Modes, Resumed
      <4>3. stepPA' \in [VCPUs -> PAs \cup {None}] /\ phase' \in Phases
        BY <2>8, <3>1, <3>3 DEF EndCallbacks, StepAlreadySet, Phases
      <4>4. removing' \in PAs \cup {None} /\ draining' \in BOOLEAN
        BY <2>8, <3>1, <3>3 DEF EndCallbacks, StepAlreadySet
      <4>5. QED BY <3>2, <4>1, <4>2, <4>3, <4>4
    <3>4. CASE SetSingleStep(v)
      <4>1. /\ handling' = None
            /\ UNCHANGED <<guestByte, dtb, nextDtb, pages, shadow, bps, original, creating, hung>>
            /\ UNCHANGED <<phase, removing, draining>>
        BY <2>8, <3>4 DEF EndCallbacks, SetSingleStep
      <4>2. mode' \in [VCPUs -> Modes] /\ rip' \in [VCPUs -> PAs \cup {None}]
        BY <2>8, <3>1, <3>4 DEF EndCallbacks, SetSingleStep, Modes, Resumed
      <4>3. stepPA' \in [VCPUs -> PAs \cup {None}]
        BY <2>8, <3>1, <3>4 DEF EndCallbacks, SetSingleStep
      <4>4. QED BY <3>2, <4>1, <4>2, <4>3
    <3>5. CASE answers # {}
      <4>1. /\ handling' = None
            /\ UNCHANGED <<guestByte, dtb, nextDtb, pages, shadow, bps, original, creating, hung>>
            /\ UNCHANGED <<stepPA, phase, removing, draining>>
        BY <2>8, <3>5 DEF EndCallbacks
      <4>2. mode' \in [VCPUs -> Modes]
        BY <2>8, <3>5 DEF EndCallbacks, Modes, Resumed
      <4>3. rip' \in [VCPUs -> PAs \cup {None}]
        <5>1. rip' = [rip EXCEPT ![v] = stepPA[v]]
          BY <2>8, <3>5 DEF EndCallbacks
        <5>2. QED BY <5>1
      <4>4. QED BY <3>2, <4>1, <4>2, <4>3
    <3>6. QED BY <2>8, <3>3, <3>4, <3>5 DEF EndCallbacks
  <2>9. ASSUME NEW v \in VCPUs, HandleStep(v) PROVE TypeOK'
    BY <2>9 DEF HandleStep, EnableEvent, Modes, Bytes, States, INT3
  <2>10. ASSUME NEW v \in VCPUs, HandleContextSwitch(v) PROVE TypeOK'
    BY <2>10 DEF HandleContextSwitch, ContextSwitchCallback, UpdatedByte, NewBreakpointState,
        SavedByte, Modes, Bytes, States, INT3, Zero
  <2>11. CASE Start
    BY <2>11 DEF Start, Phases
  <2>12. CASE AbortSetup \/ Stop
    BY <2>12 DEF AbortSetup, Stop, Phases
  <2>13. CASE Teardown
    <3>1. mem' \in [PAs -> Bytes]
      BY <2>13 DEF Teardown, RestoredMemory, SavedByte, Zero, Bytes
    <3>2. pages' \subseteq GFNs /\ shadow' \in [GFNs -> [PAs -> Bytes \cup {None}]]
      BY <2>13 DEF Teardown, NoCopy
    <3>3. QED BY <2>13, <3>1, <3>2 DEF Teardown, StopSteps, NoCallbacks, Modes, Phases
  <2>14. ASSUME NEW v \in VCPUs, GuestAct(v) PROVE TypeOK'
    <3>1. ASSUME NEW pa \in PAs, GuestExecute(v, pa) PROVE TypeOK'
      BY <3>1 DEF GuestExecute, Modes
    <3>2. ASSUME NEW pa \in PAs, GuestWrite(v, pa) PROVE TypeOK'
      BY <3>2 DEF GuestWrite, Bytes
    <3>3. CASE GuestStep(v)
      BY <3>3 DEF GuestStep, Modes
    <3>4. ASSUME NEW d \in DTBs, GuestSwitch(v, d) PROVE TypeOK'
      BY <3>4 DEF GuestSwitch, SwitchReported, Modes
    <3>5. QED BY <2>14, <3>1, <3>2, <3>3, <3>4 DEF GuestAct
  <2>15. CASE UNCHANGED vars
    BY <2>15 DEF vars
  <2>16. QED
    BY <2>1, <2>2, <2>3, <2>4, <2>5, <2>6, <2>7, <2>8, <2>9, <2>10, <2>11, <2>12, <2>13, <2>14,
       <2>15 DEF Next, ThreadStep, Halted
<1>3. QED BY <1>1, <1>2, PTL DEF Spec

-----------------------------------------------------------------------------
\* The supervisor thread stays consistent with the tables it works on: the callbacks of an INT3 run
\* at an address that remains breakpointed, and createBreakpoint and deleteBreakpoint never overlap.
THEOREM ThreadConsistent == Spec => []ThreadInv
<1>1. Init => ThreadInv
  BY DEF Init, NoCopy, NoCallbacks, ThreadInv
<1>2. TypeOK /\ ThreadInv /\ [Next]_vars => ThreadInv'
  <2> SUFFICES ASSUME TypeOK, ThreadInv, [Next]_vars PROVE ThreadInv'
    OBVIOUS
  <2> USE ConstantsAssumption DEF ConstantsAssumption, guestVars, tables, thread
  <2>1. ASSUME NEW b \in Breakpoints, CreateBegin(b) PROVE ThreadInv'
    BY <2>1 DEF CreateBegin, CreatePageGuard, InCallerCode, ThreadInv
  <2>2. ASSUME NEW b \in Breakpoints, CreateFinish(b) PROVE ThreadInv'
    <3>0. bps \in [PAs -> SUBSET Breakpoints]
      BY DEF TypeOK
    <3>1. creating # None /\ removing = None
      BY <2>2 DEF CreateFinish, ThreadInv
    <3>2. \A pa \in PAs : bps[pa] # {} => bps'[pa] # {}
      BY <3>0, <2>2 DEF CreateFinish, NewInt3, AlreadyInt3, JoinInt3
    <3>3. handling # None => rip[handling] \in PAs
      BY DEF ThreadInv, TypeOK
    <3>4. QED BY <2>2, <3>1, <3>2, <3>3 DEF CreateFinish, ThreadInv
  <2>3. ASSUME NEW b \in Breakpoints, DeleteBegin(b) PROVE ThreadInv'
    <3>1. handling # None => rip[handling] \in PAs /\ bps'[rip[handling]] = bps[rip[handling]]
      BY <2>3 DEF DeleteBegin, EraseBreakpointAtAddress, ThreadInv, TypeOK
    <3>2. creating' = None
      BY <2>3 DEF DeleteBegin, EraseBreakpointAtAddress, InCallerCode
    <3>3. /\ removing' # None => bps'[removing'] = {}
          /\ draining' => removing' # None
      BY <2>3 DEF DeleteBegin, EraseBreakpointAtAddress, ThreadInv, TypeOK
    <3>4. QED BY <2>3, <3>1, <3>2, <3>3 DEF DeleteBegin, EraseBreakpointAtAddress, ThreadInv
  <2>4. CASE DrainEnd
    BY <2>4 DEF DrainEnd, ThreadInv
  <2>5. CASE DeleteFinish
    BY <2>5 DEF DeleteFinish, TeardownGuard, RemoveInterrupt, ThreadInv
  <2>6. ASSUME NEW v \in VCPUs, Reinject(v) PROVE ThreadInv'
    BY <2>6 DEF Reinject, Listening, Resumed, ThreadInv, TypeOK
  <2>7. ASSUME NEW v \in VCPUs, BeginCallbacks(v) PROVE ThreadInv'
    BY <2>7 DEF BeginCallbacks, ThreadInv
  <2>8. ASSUME NEW v \in VCPUs, NEW answers \in Answers(v), EndCallbacks(v, answers)
        PROVE ThreadInv'
    <3>1. handling' = None /\ creating' = creating /\ bps' = bps
      BY <2>8 DEF EndCallbacks
    <3>2. \A w \in VCPUs \ {v} : mode'[w] = mode[w] /\ rip'[w] = rip[w]
      BY <2>8 DEF EndCallbacks, StepAlreadySet, SetSingleStep, TypeOK
    <3>3. mode'[v] # "int3"
      BY <2>8 DEF EndCallbacks, StepAlreadySet, SetSingleStep, Resumed, TypeOK
    <3>4. removing' \in {removing, None} /\ (draining' => draining /\ removing' = removing)
      BY <2>8 DEF EndCallbacks, StepAlreadySet, SetSingleStep
    <3>5. QED BY <3>1, <3>2, <3>3, <3>4 DEF ThreadInv
  <2>9. ASSUME NEW v \in VCPUs, HandleStep(v) PROVE ThreadInv'
    BY <2>9 DEF HandleStep, Listening, ThreadInv, TypeOK
  <2>10. ASSUME NEW v \in VCPUs, HandleContextSwitch(v) PROVE ThreadInv'
    BY <2>10 DEF HandleContextSwitch, ContextSwitchCallback, UpdatedByte, Listening, ThreadInv,
        TypeOK
  <2>11. CASE Start
    BY <2>11 DEF Start, ThreadInv
  <2>12. CASE AbortSetup \/ Stop
    BY <2>12 DEF AbortSetup, Stop, ThreadInv
  <2>13. CASE Teardown
    BY <2>13 DEF Teardown, StopSteps, NoCallbacks, InCallerCode, ThreadInv, TypeOK
  <2>14. ASSUME NEW v \in VCPUs, GuestAct(v) PROVE ThreadInv'
    <3>1. ASSUME NEW pa \in PAs, GuestExecute(v, pa) PROVE ThreadInv'
      BY <3>1 DEF GuestExecute, ThreadInv, TypeOK
    <3>2. ASSUME NEW pa \in PAs, GuestWrite(v, pa) PROVE ThreadInv'
      BY <3>2 DEF GuestWrite, ThreadInv
    <3>3. CASE GuestStep(v)
      BY <3>3 DEF GuestStep, ThreadInv, TypeOK
    <3>4. ASSUME NEW d \in DTBs, GuestSwitch(v, d) PROVE ThreadInv'
      BY <3>4 DEF GuestSwitch, SwitchReported, ThreadInv, TypeOK
    <3>5. QED BY <2>14, <3>1, <3>2, <3>3, <3>4 DEF GuestAct
  <2>15. CASE UNCHANGED vars
    BY <2>15 DEF vars, ThreadInv
  <2>16. QED
    BY <2>1, <2>2, <2>3, <2>4, <2>5, <2>6, <2>7, <2>8, <2>9, <2>10, <2>11, <2>12, <2>13, <2>14,
       <2>15 DEF Next, ThreadStep, Halted
<1>3. QED BY <1>1, <1>2, Typing, PTL DEF Spec

\* A single-step event finds the callback of its vCPU set, and a vCPU that runs freely has none.
THEOREM StepCallbacksMatch == Spec => []StepCallbackMatchesVcpu
<1>1. Init => StepCallbackMatchesVcpu
  BY DEF Init, NoCopy, NoCallbacks, StepCallbackMatchesVcpu
<1>2. TypeOK /\ ThreadInv /\ StepCallbackMatchesVcpu /\ [Next]_vars => StepCallbackMatchesVcpu'
  <2> SUFFICES ASSUME TypeOK, ThreadInv, StepCallbackMatchesVcpu, [Next]_vars
               PROVE StepCallbackMatchesVcpu'
    OBVIOUS
  <2> USE ConstantsAssumption DEF ConstantsAssumption, StepCallbackMatchesVcpu, guestVars, tables,
      thread
  <2>1. ASSUME NEW b \in Breakpoints, CreateBegin(b) \/ CreateFinish(b) \/ DeleteBegin(b)
        PROVE StepCallbackMatchesVcpu'
    BY <2>1 DEF CreateBegin, CreatePageGuard, CreateFinish, DeleteBegin, EraseBreakpointAtAddress
  <2>2. CASE DrainEnd \/ DeleteFinish \/ Start \/ AbortSetup \/ Stop
    BY <2>2 DEF DrainEnd, DeleteFinish, TeardownGuard, RemoveInterrupt, Start, AbortSetup, Stop
  <2>3. ASSUME NEW v \in VCPUs, Reinject(v) \/ BeginCallbacks(v)
        PROVE StepCallbackMatchesVcpu'
    BY <2>3 DEF Reinject, BeginCallbacks, Resumed, TypeOK
  <2>4. ASSUME NEW v \in VCPUs, NEW answers \in Answers(v), EndCallbacks(v, answers)
        PROVE StepCallbackMatchesVcpu'
    <3>1. rip[v] \in PAs
      BY <2>4 DEF EndCallbacks, ThreadInv, TypeOK
    <3>2. CASE StepAlreadySet(v)
      BY <2>4, <3>2 DEF EndCallbacks, StepAlreadySet, Resumed, TypeOK
    <3>3. CASE SetSingleStep(v)
      BY <2>4, <3>1, <3>3 DEF EndCallbacks, SetSingleStep, Resumed, TypeOK
    <3>4. CASE answers # {}
      BY <2>4, <3>4 DEF EndCallbacks, Resumed, TypeOK
    <3>5. QED BY <2>4, <3>2, <3>3, <3>4 DEF EndCallbacks
  <2>5. ASSUME NEW v \in VCPUs, HandleStep(v) \/ HandleContextSwitch(v)
        PROVE StepCallbackMatchesVcpu'
    BY <2>5 DEF HandleStep, HandleContextSwitch, ContextSwitchCallback, UpdatedByte, TypeOK
  <2>6. CASE Teardown
    BY <2>6 DEF Teardown, StopSteps, NoCallbacks
  <2>7. ASSUME NEW v \in VCPUs, GuestAct(v) PROVE StepCallbackMatchesVcpu'
    BY <2>7 DEF GuestAct, GuestExecute, GuestWrite, GuestStep, GuestSwitch, SwitchReported, TypeOK
  <2>8. CASE UNCHANGED vars
    BY <2>8 DEF vars
  <2>9. QED
    BY <2>1, <2>2, <2>3, <2>4, <2>5, <2>6, <2>7, <2>8 DEF Next, ThreadStep, Halted
<1>3. QED BY <1>1, <1>2, Typing, ThreadConsistent, PTL DEF Spec

-----------------------------------------------------------------------------
\* The two invariants about guest memory are inductive only together: what storeOriginalValue saves
\* is right because the status tells what is in memory, and what disableEvent writes agrees with the
\* status because the saved byte is right.
MemoryInv == SavedByteIsGuestByte /\ StatusTellsMemory

\* In every state in which an address is breakpointed, its saved byte is the guest's own byte, and
\* the recorded status of every address agrees with guest memory.
THEOREM MemoryIsAccountedFor == Spec => [](SavedByteIsGuestByte /\ StatusTellsMemory)
<1>1. Init => MemoryInv
  BY ConstantsAssumption
     DEF ConstantsAssumption, Init, NoCallbacks, MemoryInv, SavedByteIsGuestByte,
         StatusTellsMemory, Unpatched, States
<1>2. TypeOK /\ ThreadInv /\ StepCallbackMatchesVcpu /\ MemoryInv /\ [Next]_vars => MemoryInv'
  <2> SUFFICES ASSUME TypeOK, ThreadInv, StepCallbackMatchesVcpu, MemoryInv, [Next]_vars
               PROVE MemoryInv'
    OBVIOUS
  <2> USE ConstantsAssumption DEF ConstantsAssumption, MemoryInv, SavedByteIsGuestByte,
      StatusTellsMemory, Unpatched, guestVars, tables, thread, INT3, Zero, Bytes, States
  <2>1. ASSUME NEW b \in Breakpoints, CreateBegin(b) PROVE MemoryInv'
    BY <2>1 DEF CreateBegin, CreatePageGuard
  <2>2. ASSUME NEW b \in Breakpoints, CreateFinish(b) PROVE MemoryInv'
    <3> DEFINE target == TargetPA[b]
    <3>1. target \in PAs /\ removing' = removing /\ guestByte' = guestByte
      BY <2>2 DEF CreateFinish
    <3>2. CASE NewInt3(b, target)
      <4>1. \A pa \in PAs \ {target} : /\ mem'[pa] = mem[pa] /\ status'[pa] = status[pa]
                                       /\ bps'[pa] = bps[pa] /\ original'[pa] = original[pa]
        BY <3>2 DEF NewInt3, EnableEvent, TypeOK
      <4>2. mem'[target] = INT3 /\ status'[target] = "Enable" /\ original'[target] = mem[target]
        BY <3>1, <3>2 DEF NewInt3, EnableEvent, TypeOK
      <4>3. mem[target] \notin {None, INT3}
        BY <3>1, <3>2 DEF NewInt3, TypeOK
      <4>4. Unpatched(target) => mem[target] = guestByte[target]
        BY <3>1, <4>3
      <4>5. QED BY <3>1, <4>1, <4>2, <4>3, <4>4
    <3>3. CASE AlreadyInt3(target)
      BY <3>1, <3>3 DEF AlreadyInt3
    <3>4. CASE JoinInt3(b, target)
      <4>1. \A pa \in PAs \ {target} : /\ mem'[pa] = mem[pa] /\ status'[pa] = status[pa]
                                       /\ bps'[pa] = bps[pa]
        BY <3>4 DEF JoinInt3, EnableEvent, TypeOK
      <4>2. bps[target] # {} /\ original' = original
        BY <3>4 DEF JoinInt3
      <4>3. \/ mem'[target] = INT3 /\ status'[target] = "Enable"
            \/ mem'[target] = mem[target] /\ status'[target] = status[target]
        BY <3>1, <3>4 DEF JoinInt3, EnableEvent, TypeOK
      <4>4. QED BY <3>1, <4>1, <4>2, <4>3
    <3>5. QED BY <2>2, <3>2, <3>3, <3>4 DEF CreateFinish
  <2>3. ASSUME NEW b \in Breakpoints, DeleteBegin(b) PROVE MemoryInv'
    <3>0. bps \in [PAs -> SUBSET Breakpoints]
      BY DEF TypeOK
    <3>1. \A pa \in PAs : bps'[pa] # {} \/ removing' = pa => bps[pa] # {} \/ removing = pa
      BY <3>0, <2>3 DEF DeleteBegin, EraseBreakpointAtAddress
    <3>2. UNCHANGED <<mem, guestByte, original, status>>
      BY <2>3 DEF DeleteBegin, EraseBreakpointAtAddress
    <3>3. QED BY <3>1, <3>2
  <2>4. CASE DrainEnd \/ Start \/ AbortSetup \/ Stop
    BY <2>4 DEF DrainEnd, Start, AbortSetup, Stop
  <2>5. CASE DeleteFinish
    <3>1. removing \in PAs /\ original[removing] \notin {None, INT3} /\ bps[removing] = {}
      BY <2>5 DEF DeleteFinish, TeardownGuard, RemoveInterrupt, ThreadInv, TypeOK
    <3>2. /\ mem'[removing] = original[removing] /\ status'[removing] = None
          /\ removing' = None /\ bps' = bps /\ guestByte' = guestByte
      BY <2>5, <3>1 DEF DeleteFinish, TeardownGuard, RemoveInterrupt, SavedByte, TypeOK
    <3>3. \A pa \in PAs \ {removing} : /\ mem'[pa] = mem[pa] /\ status'[pa] = status[pa]
                                       /\ original'[pa] = original[pa]
      BY <2>5 DEF DeleteFinish, TeardownGuard, RemoveInterrupt, TypeOK
    <3>4. QED BY <3>1, <3>2, <3>3
  <2>6. ASSUME NEW v \in VCPUs, Reinject(v) \/ BeginCallbacks(v) PROVE MemoryInv'
    BY <2>6 DEF Reinject, BeginCallbacks
  <2>7. ASSUME NEW v \in VCPUs, NEW answers \in Answers(v), EndCallbacks(v, answers)
        PROVE MemoryInv'
    <3>1. rip[v] \in PAs /\ bps[rip[v]] # {} /\ original[rip[v]] \notin {None, INT3}
      BY <2>7 DEF EndCallbacks, ThreadInv, TypeOK
    <3>2. mem'[rip[v]] = original[rip[v]] /\ status'[rip[v]] = "Disable"
      BY <2>7, <3>1 DEF EndCallbacks, DisableEvent, SavedByte, TypeOK
    <3>3. \A pa \in PAs \ {rip[v]} : mem'[pa] = mem[pa] /\ status'[pa] = status[pa]
      BY <2>7 DEF EndCallbacks, DisableEvent, TypeOK
    <3>4. /\ guestByte' = guestByte /\ bps' = bps /\ original' = original
          /\ removing' \in {removing, None}
      BY <2>7 DEF EndCallbacks, StepAlreadySet, SetSingleStep
    <3>5. QED BY <3>1, <3>2, <3>3, <3>4
  <2>8. ASSUME NEW v \in VCPUs, HandleStep(v) PROVE MemoryInv'
    <3>1. stepPA[v] \in PAs
      BY <2>8 DEF HandleStep, StepCallbackMatchesVcpu, TypeOK
    <3>2. mem'[stepPA[v]] = INT3 /\ status'[stepPA[v]] = "Enable"
      BY <2>8, <3>1 DEF HandleStep, EnableEvent, TypeOK
    <3>3. \A pa \in PAs \ {stepPA[v]} : mem'[pa] = mem[pa] /\ status'[pa] = status[pa]
      BY <2>8 DEF HandleStep, EnableEvent, TypeOK
    <3>4. UNCHANGED <<guestByte, bps, original, removing>>
      BY <2>8 DEF HandleStep
    <3>5. QED BY <3>1, <3>2, <3>3, <3>4
  <2>9. ASSUME NEW v \in VCPUs, HandleContextSwitch(v) PROVE MemoryInv'
    <3>1. UNCHANGED <<guestByte, bps, original, removing>>
      BY <2>9 DEF HandleContextSwitch, ContextSwitchCallback, UpdatedByte
    <3>2. ASSUME NEW pa \in PAs, pa \notin Changed(nextDtb[v])
          PROVE mem'[pa] = mem[pa] /\ status'[pa] = status[pa]
      BY <2>9, <3>2 DEF HandleContextSwitch, ContextSwitchCallback, UpdatedByte
    <3>3. ASSUME NEW pa \in PAs, pa \in Changed(nextDtb[v])
          PROVE /\ bps[pa] # {}
                /\ \/ mem'[pa] = INT3 /\ status'[pa] = "Enable"
                   \/ mem'[pa] = original[pa] /\ status'[pa] = "Disable"
      BY <2>9, <3>3 DEF HandleContextSwitch, ContextSwitchCallback, UpdatedByte, Changed,
          NewBreakpointState, SavedByte
    <3>4. QED BY <3>1, <3>2, <3>3
  <2>10. CASE Teardown
    <3>1. removing = None /\ removing' = None /\ guestByte' = guestByte
      BY <2>10 DEF Teardown, StopSteps, NoCallbacks, InCallerCode
    <3>2. \A pa \in PAs : bps'[pa] = {}
      BY <2>10 DEF Teardown, StopSteps, NoCallbacks
    <3>3. ASSUME NEW pa \in PAs, bps[pa] = {}
          PROVE mem'[pa] = mem[pa] /\ status'[pa] = status[pa]
      BY <2>10, <3>3 DEF Teardown, StopSteps, NoCallbacks, RestoredMemory
    <3>4. ASSUME NEW pa \in PAs, bps[pa] # {}
          PROVE mem'[pa] = original[pa] /\ status'[pa] = None
      BY <2>10, <3>4 DEF Teardown, StopSteps, NoCallbacks, RestoredMemory, SavedByte
    <3>5. QED BY <3>1, <3>2, <3>3, <3>4
  <2>11. ASSUME NEW v \in VCPUs, GuestAct(v) PROVE MemoryInv'
    <3>1. ASSUME NEW pa \in PAs, GuestWrite(v, pa) PROVE MemoryInv'
      BY <3>1 DEF GuestWrite, TypeOK
    <3>2. CASE \E pa \in PAs : GuestExecute(v, pa)
      BY <3>2 DEF GuestExecute
    <3>3. CASE GuestStep(v) \/ \E d \in DTBs : GuestSwitch(v, d)
      BY <3>3 DEF GuestStep, GuestSwitch, SwitchReported
    <3>4. QED BY <2>11, <3>1, <3>2, <3>3 DEF GuestAct
  <2>12. CASE UNCHANGED vars
    BY <2>12 DEF vars
  <2>13. QED
    BY <2>1, <2>2, <2>3, <2>4, <2>5, <2>6, <2>7, <2>8, <2>9, <2>10, <2>11, <2>12
       DEF Next, ThreadStep, Halted
<1>3. QED BY <1>1, <1>2, Typing, ThreadConsistent, StepCallbacksMatch, PTL DEF Spec, MemoryInv

\* What contextSwitchCallback and createBreakpoint decide by, paToBreakpointStatus, never disagrees with
\* what is in guest memory.
THEOREM StatusIsTold == Spec => []StatusTellsMemory
BY MemoryIsAccountedFor, PTL

-----------------------------------------------------------------------------
(* What the engine guarantees to a guest with a single vCPU that does not  *)
(* overwrite its own code.                                                 *)

OneVcpu(v) == VCPUs = {v} /\ Patchable = {}

\* Only one thing happens at a time: while the sole vCPU steps over an instruction the thread is idle,
\* and the stepped address stays breakpointed until its INT3 is back, or its removal waits for that.
OneAtATime(v) ==
    /\ \A pa \in PAs : Unpatched(pa)
    /\ phase = "setup" => mode[v] = "run"
    /\ mode[v] = "int3" => stepPA[v] = None
    /\ mode[v] = "step" => rip[v] = stepPA[v]
    /\ phase = "running" => ~draining
    /\ phase = "running" /\ (creating # None \/ removing # None) => handling # None
    /\ phase = "running" /\ stepPA[v] # None =>
         bps[stepPA[v]] # {} /\ status[stepPA[v]] = "Disable"
    /\ mode[v] = "stepped" =>
         bps[stepPA[v]] # {} \/ (removing = stepPA[v] /\ draining)

\* With one virtual processor there is one hit, single step or removal at a time.
LEMMA OneAtATimeInvariant ==
  ASSUME NEW v, OneVcpu(v) PROVE Spec => []OneAtATime(v)
<1> USE ConstantsAssumption DEF ConstantsAssumption, OneVcpu
<1>1. Init => OneAtATime(v)
  BY DEF Init, NoCopy, NoCallbacks, OneAtATime, Unpatched, INT3
<1>2. /\ TypeOK /\ ThreadInv /\ StepCallbackMatchesVcpu /\ MemoryInv /\ OneAtATime(v)
      /\ [Next]_vars
      => OneAtATime(v)'
  <2> SUFFICES ASSUME TypeOK, ThreadInv, StepCallbackMatchesVcpu, MemoryInv, OneAtATime(v),
                      [Next]_vars
               PROVE OneAtATime(v)'
    OBVIOUS
  <2> USE DEF guestVars, tables, thread, Unpatched
  <2>0. /\ v \in VCPUs
        /\ handling # None => handling = v /\ mode[v] = "int3" /\ stepPA[v] = None
        /\ stepPA[v] # None => stepPA[v] \in PAs
    BY DEF ThreadInv, OneAtATime, TypeOK
  <2>1. ASSUME NEW b \in Breakpoints, CreateBegin(b) PROVE OneAtATime(v)'
    BY <2>0, <2>1 DEF CreateBegin, CreatePageGuard, InCallerCode, OneAtATime
  <2>2. ASSUME NEW b \in Breakpoints, CreateFinish(b) PROVE OneAtATime(v)'
    <3>0. bps \in [PAs -> SUBSET Breakpoints]
      BY DEF TypeOK
    <3>1. creating # None /\ creating' = None /\ removing = None
      BY <2>2 DEF CreateFinish, ThreadInv
    <3>2. \A pa \in PAs : bps[pa] # {} => bps'[pa] # {}
      BY <3>0, <2>2 DEF CreateFinish, NewInt3, AlreadyInt3, JoinInt3
    <3>3. phase = "running" => stepPA[v] = None
      BY <2>0, <3>1 DEF OneAtATime
    <3>4. UNCHANGED <<guestByte, mode, rip, stepPA, phase, handling, removing, draining>>
      BY <2>2 DEF CreateFinish
    <3>5. mode[v] = "stepped" => bps'[stepPA[v]] # {}
      BY <2>0, <3>1, <3>2 DEF OneAtATime, StepCallbackMatchesVcpu
    <3>6. QED BY <3>1, <3>3, <3>4, <3>5 DEF OneAtATime
  <2>3. ASSUME NEW b \in Breakpoints, DeleteBegin(b) PROVE OneAtATime(v)'
    <3>1. CASE removing # None
      BY <2>0, <2>3, <3>1 DEF DeleteBegin, EraseBreakpointAtAddress, InCallerCode, OneAtATime
    <3>2. CASE removing = None
      <4>1. phase = "running" => stepPA[v] = None /\ handling # None
        BY <2>0, <2>3 DEF DeleteBegin, EraseBreakpointAtAddress, InCallerCode
      <4>2. draining' => handling = None
        BY <2>3, <3>2 DEF DeleteBegin, EraseBreakpointAtAddress, ThreadInv
      <4>3. mode[v] = "stepped" => handling = None /\ AreEventsPending
        BY <2>0 DEF AreEventsPending, EventPending
      <4>4. ASSUME mode[v] = "stepped"
            PROVE bps'[stepPA[v]] # {} \/ (removing' = stepPA[v] /\ draining')
        <5>1. bps[stepPA[v]] # {} /\ stepPA[v] \in PAs
          BY <2>0, <3>2, <4>4 DEF OneAtATime, StepCallbackMatchesVcpu, ThreadInv
        <5>2. CASE TargetPA[b] # stepPA[v]
          BY <2>3, <3>2, <5>1, <5>2 DEF DeleteBegin, EraseBreakpointAtAddress, TypeOK
        <5>3. CASE TargetPA[b] = stepPA[v] /\ bps[stepPA[v]] # {b}
          BY <2>3, <3>2, <5>1, <5>3 DEF DeleteBegin, EraseBreakpointAtAddress, TypeOK
        <5>4. CASE TargetPA[b] = stepPA[v] /\ bps[stepPA[v]] = {b}
          BY <2>3, <3>2, <4>3, <4>4, <5>4 DEF DeleteBegin, EraseBreakpointAtAddress
        <5>5. QED BY <5>2, <5>3, <5>4
      <4>5. UNCHANGED <<mem, guestByte, mode, rip, status, stepPA, phase, handling, creating>>
        BY <2>3 DEF DeleteBegin, EraseBreakpointAtAddress
      <4>6. QED BY <3>2, <4>1, <4>2, <4>4, <4>5 DEF OneAtATime
    <3>3. QED BY <3>1, <3>2
  <2>4. CASE DrainEnd
    BY <2>0, <2>4 DEF DrainEnd, AreEventsPending, EventPending, Listening, OneAtATime
  <2>5. CASE DeleteFinish
    <3>1. phase = "running" => stepPA[v] = None
      BY <2>0, <2>5 DEF DeleteFinish, TeardownGuard, RemoveInterrupt, OneAtATime
    <3>2. QED BY <2>5, <3>1 DEF DeleteFinish, TeardownGuard, RemoveInterrupt, OneAtATime
  <2>6. ASSUME Reinject(v) PROVE OneAtATime(v)'
    BY <2>0, <2>6 DEF Reinject, Resumed, OneAtATime, TypeOK
  <2>7. ASSUME BeginCallbacks(v) PROVE OneAtATime(v)'
    BY <2>0, <2>7 DEF BeginCallbacks, OneAtATime
  <2>8. ASSUME NEW answers \in Answers(v), EndCallbacks(v, answers) PROVE OneAtATime(v)'
    <3>1. /\ stepPA[v] = None /\ rip[v] \in PAs /\ bps[rip[v]] # {}
          /\ status'[rip[v]] = "Disable" /\ bps' = bps /\ guestByte' = guestByte
          /\ creating' = None /\ (removing = None \/ draining)
      BY <2>0, <2>8 DEF EndCallbacks, InCallerCode, DisableEvent, ThreadInv, TypeOK
    <3>2. CASE answers = {}
      <4>1. SetSingleStep(v) /\ rip' = rip /\ phase # "setup"
        BY <2>0, <2>8, <3>1, <3>2 DEF EndCallbacks, StepAlreadySet, OneAtATime
      <4>2. /\ mode'[v] = "step" /\ stepPA'[v] = rip[v]
            /\ phase' = phase /\ removing' = removing /\ draining' = draining
        BY <2>0, <4>1 DEF SetSingleStep, TypeOK
      <4>3. QED BY <3>1, <4>1, <4>2 DEF OneAtATime
    <3>3. CASE answers # {}
      BY <2>0, <2>8, <3>1, <3>3 DEF EndCallbacks, Resumed, OneAtATime, TypeOK
    <3>4. QED BY <3>2, <3>3
  <2>9. ASSUME HandleStep(v) PROVE OneAtATime(v)'
    BY <2>0, <2>9 DEF HandleStep, OneAtATime, TypeOK
  <2>10. ASSUME HandleContextSwitch(v) PROVE OneAtATime(v)'
    <3>1. stepPA[v] = None
      BY <2>0, <2>10 DEF HandleContextSwitch, ContextSwitchCallback, UpdatedByte,
          StepCallbackMatchesVcpu
    <3>2. QED BY <2>10, <3>1 DEF HandleContextSwitch, ContextSwitchCallback, UpdatedByte,
        OneAtATime, TypeOK
  <2>11. CASE Start
    <3>1. stepPA[v] = None /\ ~draining
      BY <2>0, <2>11 DEF Start, ThreadInv, StepCallbackMatchesVcpu, OneAtATime
    <3>2. QED BY <2>11, <3>1 DEF Start, OneAtATime
  <2>12. CASE AbortSetup \/ Stop
    BY <2>12 DEF AbortSetup, Stop, OneAtATime
  <2>13. CASE Teardown
    BY <2>0, <2>13 DEF Teardown, StopSteps, NoCallbacks, OneAtATime
  <2>14. ASSUME GuestAct(v) PROVE OneAtATime(v)'
    <3>1. ASSUME NEW pa \in PAs, GuestExecute(v, pa) PROVE OneAtATime(v)'
      BY <2>0, <3>1 DEF GuestExecute, StepCallbackMatchesVcpu, OneAtATime, TypeOK
    <3>2. ASSUME NEW pa \in PAs, GuestWrite(v, pa) PROVE OneAtATime(v)'
      BY <3>2 DEF GuestWrite
    <3>3. CASE GuestStep(v)
      <4>1. stepPA[v] \in PAs /\ rip[v] = stepPA[v] /\ bps[stepPA[v]] # {}
            /\ status[stepPA[v]] = "Disable"
        BY <2>0, <3>3 DEF GuestStep, StepCallbackMatchesVcpu, OneAtATime
      <4>2. mem[rip[v]] # INT3
        BY <4>1 DEF MemoryInv, SavedByteIsGuestByte, StatusTellsMemory, OneAtATime
      <4>3. QED BY <3>3, <4>1, <4>2 DEF GuestStep, OneAtATime, TypeOK
    <3>4. ASSUME NEW d \in DTBs, GuestSwitch(v, d) PROVE OneAtATime(v)'
      BY <2>0, <3>4 DEF GuestSwitch, SwitchReported, OneAtATime, TypeOK
    <3>5. QED BY <2>14, <3>1, <3>2, <3>3, <3>4 DEF GuestAct
  <2>15. CASE UNCHANGED vars
    BY <2>15 DEF vars, OneAtATime
  <2>16. QED
    BY <2>1, <2>2, <2>3, <2>4, <2>5, <2>6, <2>7, <2>8, <2>9, <2>10, <2>11, <2>12, <2>13, <2>14,
       <2>15 DEF Next, ThreadStep, Halted
<1>3. QED
  BY <1>1, <1>2, Typing, ThreadConsistent, StepCallbacksMatch, MemoryIsAccountedFor, PTL
     DEF Spec, MemoryInv

-----------------------------------------------------------------------------
\* The supervisor leaves no INT3 of its own in guest memory at an address without breakpoints:
\* remove and teardown restore the guest's code.
THEOREM NoInt3Left ==
  ASSUME NEW v, OneVcpu(v) PROVE Spec => []NoStrayInt3
<1> USE ConstantsAssumption DEF ConstantsAssumption, OneVcpu
<1>1. Init => NoStrayInt3
  BY DEF Init, NoCopy, NoCallbacks, NoStrayInt3
<1>2. /\ TypeOK /\ ThreadInv /\ MemoryInv /\ OneAtATime(v) /\ NoStrayInt3 /\ [Next]_vars
      => NoStrayInt3'
  <2> SUFFICES ASSUME TypeOK, ThreadInv, MemoryInv, OneAtATime(v), NoStrayInt3, [Next]_vars
               PROVE NoStrayInt3'
    OBVIOUS
  <2> USE DEF NoStrayInt3, guestVars, tables, thread
  <2>0. \A pa \in PAs : bps[pa] # {} \/ removing = pa => original[pa] = guestByte[pa]
                                                         /\ original[pa] # None
    BY DEF MemoryInv, SavedByteIsGuestByte, OneAtATime
  <2>1. ASSUME NEW b \in Breakpoints, CreateBegin(b) PROVE NoStrayInt3'
    BY <2>1 DEF CreateBegin, CreatePageGuard
  <2>2. ASSUME NEW b \in Breakpoints, CreateFinish(b) PROVE NoStrayInt3'
    <3>1. \A pa \in PAs \ {TargetPA[b]} : bps'[pa] = bps[pa] /\ mem'[pa] = mem[pa]
      BY <2>2 DEF CreateFinish, NewInt3, AlreadyInt3, JoinInt3, EnableEvent, TypeOK
    <3>2. b \in bps'[TargetPA[b]] \/ (bps' = bps /\ mem' = mem)
      <4>1. CASE NewInt3(b, TargetPA[b])
        BY <4>1 DEF NewInt3, TypeOK
      <4>2. CASE AlreadyInt3(TargetPA[b])
        BY <4>2 DEF AlreadyInt3
      <4>3. CASE JoinInt3(b, TargetPA[b])
        BY <4>3 DEF JoinInt3, TypeOK
      <4>4. QED BY <2>2, <4>1, <4>2, <4>3 DEF CreateFinish
    <3>3. UNCHANGED <<guestByte, removing>>
      BY <2>2 DEF CreateFinish
    <3>4. QED BY <3>1, <3>2, <3>3
  <2>3. ASSUME NEW b \in Breakpoints, DeleteBegin(b) PROVE NoStrayInt3'
    <3>1. \A pa \in PAs : bps'[pa] = {} /\ removing' # pa => bps[pa] = {} /\ removing # pa
      BY <2>3 DEF DeleteBegin, EraseBreakpointAtAddress, TypeOK
    <3>2. QED BY <2>3, <3>1 DEF DeleteBegin, EraseBreakpointAtAddress
  <2>4. CASE DrainEnd \/ Start \/ AbortSetup \/ Stop
    BY <2>4 DEF DrainEnd, Start, AbortSetup, Stop
  <2>5. CASE DeleteFinish
    <3>1. mem'[removing] = guestByte[removing] /\ removing \in PAs
      BY <2>0, <2>5 DEF DeleteFinish, TeardownGuard, RemoveInterrupt, SavedByte, TypeOK
    <3>2. \A pa \in PAs : pa # removing => mem'[pa] = mem[pa]
      BY <2>5 DEF DeleteFinish, TeardownGuard, RemoveInterrupt, TypeOK
    <3>3. QED BY <2>5, <3>1, <3>2 DEF DeleteFinish, TeardownGuard, RemoveInterrupt
  <2>6. CASE Reinject(v) \/ BeginCallbacks(v)
    BY <2>6 DEF Reinject, BeginCallbacks
  <2>7. ASSUME NEW answers \in Answers(v), EndCallbacks(v, answers) PROVE NoStrayInt3'
    <3>1. bps[rip[v]] # {} /\ stepPA[v] = None
      BY <2>7 DEF EndCallbacks, ThreadInv, OneAtATime
    <3>2. \A pa \in PAs \ {rip[v]} : mem'[pa] = mem[pa]
      BY <2>7 DEF EndCallbacks, DisableEvent, TypeOK
    <3>3. bps' = bps /\ removing' = removing /\ guestByte' = guestByte
      BY <2>7, <3>1 DEF EndCallbacks, StepAlreadySet, SetSingleStep
    <3>4. QED BY <3>1, <3>2, <3>3
  <2>8. CASE HandleStep(v)
    <3>1. bps[stepPA[v]] # {} \/ removing = stepPA[v]
      BY <2>8 DEF HandleStep, OneAtATime
    <3>2. \A pa \in PAs \ {stepPA[v]} : mem'[pa] = mem[pa]
      BY <2>8 DEF HandleStep, EnableEvent, TypeOK
    <3>3. QED BY <2>8, <3>1, <3>2 DEF HandleStep
  <2>9. CASE HandleContextSwitch(v)
    BY <2>9 DEF HandleContextSwitch, ContextSwitchCallback, UpdatedByte, Changed
  <2>10. CASE Teardown
    BY <2>0, <2>10 DEF Teardown, StopSteps, NoCallbacks, InCallerCode, RestoredMemory, SavedByte
  <2>11. CASE GuestAct(v)
    BY <2>11 DEF GuestAct, GuestExecute, GuestWrite, GuestStep, GuestSwitch, SwitchReported
  <2>12. CASE UNCHANGED vars
    BY <2>12 DEF vars
  <2>13. QED
    BY <2>1, <2>2, <2>3, <2>4, <2>5, <2>6, <2>7, <2>8, <2>9, <2>10, <2>11, <2>12
       DEF Next, ThreadStep, Halted
<1>3. QED
  BY <1>1, <1>2, Typing, ThreadConsistent, MemoryIsAccountedFor, OneAtATimeInvariant, PTL
     DEF Spec, MemoryInv

\* The page guards cover every address the supervisor may have written an INT3 to, and their copies
\* are what the guest expects to read; behind their pages they answer for Following only.
GuardsInv ==
    /\ \A pa \in PAs : GFN[pa] \in pages => shadow[GFN[pa]][pa] = guestByte[pa]
    /\ \A gfn \in pages, pa \in PAs : shadow[gfn][pa] # None =>
         GFN[pa] = gfn \/ \E b \in Breakpoints : pa \in Following[b] /\ GFN[TargetPA[b]] = gfn
    /\ \A pa \in PAs : bps[pa] # {} \/ removing = pa => GFN[pa] \in pages
    /\ creating # None => GFN[TargetPA[creating]] \in pages

\* The guest never reads an INT3 of the supervisor within a page, also not in the middle of
\* createBreakpoint and deleteBreakpoint: a page is guarded before its first INT3 is written, and
\* until its last is gone.  Only behind a page that is guarded may a read find something else.
THEOREM BreakpointsAreInvisible ==
  ASSUME NEW v, OneVcpu(v) PROVE Spec => []ReadsHideInt3
<1> USE ConstantsAssumption DEF ConstantsAssumption, OneVcpu
<1>1. Init => GuardsInv
  BY DEF Init, NoCopy, NoCallbacks, GuardsInv
<1>2. /\ TypeOK /\ ThreadInv /\ OneAtATime(v) /\ NoStrayInt3 /\ GuardsInv /\ [Next]_vars
      => GuardsInv'
  <2> SUFFICES ASSUME TypeOK, ThreadInv, OneAtATime(v), NoStrayInt3, GuardsInv, [Next]_vars
               PROVE GuardsInv'
    OBVIOUS
  <2> USE DEF GuardsInv, guestVars, tables, thread
  <2>1. ASSUME NEW b \in Breakpoints, CreateBegin(b) PROVE GuardsInv'
    <3> DEFINE gfn == GFN[TargetPA[b]]
    <3>1. UNCHANGED <<guestByte, bps, removing>>
      BY <2>1 DEF CreateBegin, CreatePageGuard
    <3>2. CASE removing # None \/ gfn \in pages
      BY <2>1, <3>1, <3>2 DEF CreateBegin, CreatePageGuard
    <3>3. CASE removing = None /\ gfn \notin pages
      <4>1. PICK behind \in {mem, Zeros} :
              /\ pages' = pages \cup {gfn} /\ creating' = b
              /\ shadow' = [shadow EXCEPT ![gfn] = ShadowPage(b, behind)]
        BY <2>1, <3>3 DEF CreateBegin, CreatePageGuard
      <4>2. shadow'[gfn] = ShadowPage(b, behind) /\ \A g \in pages : shadow'[g] = shadow[g]
        BY <3>3, <4>1 DEF TypeOK
      <4>3. ASSUME NEW pa \in PAs, GFN[pa] = gfn PROVE shadow'[gfn][pa] = guestByte[pa]
        <5>1. bps[pa] = {} /\ removing # pa
          BY <3>3, <4>3
        <5>2. ShadowPage(b, behind)[pa] = mem[pa]
          BY <4>3 DEF ShadowPage
        <5>3. QED BY <4>2, <5>1, <5>2 DEF NoStrayInt3
      <4>4. ASSUME NEW pa \in PAs, shadow'[gfn][pa] # None PROVE GFN[pa] = gfn \/ pa \in Following[b]
        BY <4>2, <4>4 DEF ShadowPage
      <4>5. \A pa \in PAs : GFN[pa] \in pages' => shadow'[GFN[pa]][pa] = guestByte'[pa]
        BY <3>1, <4>1, <4>2, <4>3
      <4>6. \A g \in pages', pa \in PAs : shadow'[g][pa] # None =>
              GFN[pa] = g \/ \E c \in Breakpoints : pa \in Following[c] /\ GFN[TargetPA[c]] = g
        BY <4>1, <4>2, <4>4
      <4>7. QED BY <3>1, <4>1, <4>5, <4>6
    <3>4. QED BY <3>2, <3>3
  <2>2. ASSUME NEW b \in Breakpoints, CreateFinish(b) PROVE GuardsInv'
    <3>1. \A pa \in PAs \ {TargetPA[b]} : bps'[pa] = bps[pa]
      BY <2>2 DEF CreateFinish, NewInt3, AlreadyInt3, JoinInt3, TypeOK
    <3>2. UNCHANGED <<guestByte, pages, shadow, removing>> /\ creating = b /\ creating' = None
      BY <2>2 DEF CreateFinish
    <3>3. QED BY <3>1, <3>2
  <2>3. ASSUME NEW b \in Breakpoints, DeleteBegin(b) PROVE GuardsInv'
    <3>0. bps \in [PAs -> SUBSET Breakpoints]
      BY DEF TypeOK
    <3>1. \A pa \in PAs : bps'[pa] # {} \/ removing' = pa => bps[pa] # {} \/ removing = pa
      BY <3>0, <2>3 DEF DeleteBegin, EraseBreakpointAtAddress
    <3>2. QED BY <2>3, <3>1 DEF DeleteBegin, EraseBreakpointAtAddress
  <2>4. CASE DrainEnd \/ Start \/ AbortSetup \/ Stop
    BY <2>4 DEF DrainEnd, Start, AbortSetup, Stop
  <2>5. CASE DeleteFinish
    <3>1. UNCHANGED <<guestByte, bps>> /\ removing' = None /\ creating = None /\ creating' = None
      BY <2>5 DEF DeleteFinish, TeardownGuard, RemoveInterrupt, ThreadInv
    <3>2. CASE PageIsEmpty(GFN[removing], bps)
      <4>1. pages' = pages \ {GFN[removing]}
        BY <2>5, <3>2 DEF DeleteFinish, TeardownGuard, RemoveInterrupt
      <4>2. \A gfn \in pages' : shadow'[gfn] = shadow[gfn]
        BY <2>5, <3>2, <4>1 DEF DeleteFinish, TeardownGuard, RemoveInterrupt, TypeOK
      <4>3. QED BY <3>1, <3>2, <4>1, <4>2 DEF PageIsEmpty
    <3>3. CASE ~PageIsEmpty(GFN[removing], bps)
      BY <2>5, <3>1, <3>3 DEF DeleteFinish, TeardownGuard, RemoveInterrupt
    <3>4. QED BY <3>2, <3>3
  <2>6. CASE Reinject(v) \/ BeginCallbacks(v) \/ HandleStep(v) \/ HandleContextSwitch(v)
    BY <2>6 DEF Reinject, BeginCallbacks, HandleStep, HandleContextSwitch, ContextSwitchCallback,
        UpdatedByte
  <2>7. ASSUME NEW answers \in Answers(v), EndCallbacks(v, answers) PROVE GuardsInv'
    <3>1. removing' \in {removing, None} /\ UNCHANGED <<guestByte, pages, shadow, bps, creating>>
      BY <2>7 DEF EndCallbacks, StepAlreadySet, SetSingleStep
    <3>2. QED BY <3>1
  <2>8. CASE Teardown
    BY <2>8 DEF Teardown, StopSteps, NoCallbacks, InCallerCode
  <2>9. CASE GuestAct(v)
    BY <2>9 DEF GuestAct, GuestExecute, GuestWrite, GuestStep, GuestSwitch, SwitchReported
  <2>10. CASE UNCHANGED vars
    BY <2>10 DEF vars
  <2>11. QED
    BY <2>1, <2>2, <2>3, <2>4, <2>5, <2>6, <2>7, <2>8, <2>9, <2>10 DEF Next, ThreadStep, Halted
<1>3. NoStrayInt3 /\ GuardsInv => ReadsHideInt3
  <2> SUFFICES ASSUME NoStrayInt3, GuardsInv, NEW pa \in PAs
               PROVE  /\ ReadsWithin(pa) = guestByte[pa]
                      /\ pa \notin BehindGuards => GuestReads(pa) = {guestByte[pa]}
    BY DEF ReadsHideInt3
  <2>1. ReadsWithin(pa) = guestByte[pa]
    BY DEF NoStrayInt3, GuardsInv, ReadsWithin
  <2>2. ASSUME pa \notin BehindGuards PROVE ReadsAcross(pa) = {}
    BY <2>2 DEF GuardsInv, ReadsAcross, BehindGuards
  <2>3. QED BY <2>1, <2>2 DEF GuestReads
<1>4. QED
  BY <1>1, <1>2, <1>3, Typing, ThreadConsistent, OneAtATimeInvariant, NoInt3Left, PTL DEF Spec

-----------------------------------------------------------------------------
\* What makes hits certain: a breakpoint for the current address space has its INT3 enabled, except
\* at the address that is being stepped over, and every breakpointed address has a status.
HitInv(v) ==
    /\ \A pa \in PAs : bps[pa] # {} => status[pa] # None
    /\ phase \in {"setup", "running"} =>
         \A b \in ActiveBreakpoints(v) :
             status[TargetPA[b]] = "Enable" \/ TargetPA[b] = stepPA[v]

\* While the guest runs, every breakpoint for its current address space is in memory, provided that
\* no callback answers Deactivate.
THEOREM NoHitMissed ==
  ASSUME NEW v, OneVcpu(v), Responses = {"Continue"} PROVE Spec => []NoMissedHit
<1> USE ConstantsAssumption DEF ConstantsAssumption, OneVcpu
<1>1. Init => HitInv(v)
  BY DEF Init, NoCopy, NoCallbacks, HitInv, ActiveBreakpoints
<1>2. /\ TypeOK /\ ThreadInv /\ StepCallbackMatchesVcpu /\ OneAtATime(v) /\ HitInv(v)
      /\ [Next]_vars
      => HitInv(v)'
  <2> SUFFICES ASSUME TypeOK, ThreadInv, StepCallbackMatchesVcpu, OneAtATime(v), HitInv(v),
                      [Next]_vars
               PROVE HitInv(v)'
    OBVIOUS
  <2> USE DEF HitInv, ActiveBreakpoints, guestVars, tables, thread, States
  <2>1. ASSUME NEW b \in Breakpoints, CreateBegin(b) PROVE HitInv(v)'
    BY <2>1 DEF CreateBegin, CreatePageGuard
  <2>2. ASSUME NEW b \in Breakpoints, CreateFinish(b) PROVE HitInv(v)'
    <3> DEFINE target == TargetPA[b]
    <3>1. UNCHANGED <<dtb, stepPA, phase>> /\ target \in PAs
      BY <2>2 DEF CreateFinish
    <3>2. CASE bps' = bps /\ status' = status
      BY <3>1, <3>2
    <3>3. CASE NewInt3(b, target) \/ JoinInt3(b, target)
      <4>1. \A pa \in PAs \ {target} : bps'[pa] = bps[pa] /\ status'[pa] = status[pa]
        BY <3>3 DEF NewInt3, JoinInt3, EnableEvent, TypeOK
      <4>2. status'[target] = "Enable"
        <5>1. CASE NewInt3(b, target)
          BY <3>1, <5>1 DEF NewInt3, EnableEvent, TypeOK
        <5>2. CASE JoinInt3(b, target)
          BY <3>1, <5>2 DEF JoinInt3, EnableEvent, TypeOK
        <5>3. QED BY <3>3, <5>1, <5>2
      <4>3. QED BY <3>1, <4>1, <4>2
    <3>4. QED BY <2>2, <3>2, <3>3 DEF CreateFinish, AlreadyInt3
  <2>3. ASSUME NEW b \in Breakpoints, DeleteBegin(b) PROVE HitInv(v)'
    <3>0. bps \in [PAs -> SUBSET Breakpoints]
      BY DEF TypeOK
    <3>1. \A pa \in PAs : bps'[pa] \subseteq bps[pa]
      BY <3>0, <2>3 DEF DeleteBegin, EraseBreakpointAtAddress
    <3>2. UNCHANGED <<dtb, stepPA, phase, status>>
      BY <2>3 DEF DeleteBegin, EraseBreakpointAtAddress
    <3>3. QED BY <3>1, <3>2
  <2>4. CASE DrainEnd \/ AbortSetup \/ Stop
    BY <2>4 DEF DrainEnd, AbortSetup, Stop
  <2>5. CASE DeleteFinish
    <3>1. bps[removing] = {} /\ UNCHANGED <<bps, dtb, stepPA, phase>>
      BY <2>5 DEF DeleteFinish, TeardownGuard, RemoveInterrupt, ThreadInv
    <3>2. \A pa \in PAs \ {removing} : status'[pa] = status[pa]
      BY <2>5 DEF DeleteFinish, TeardownGuard, RemoveInterrupt, TypeOK
    <3>3. QED BY <3>1, <3>2
  <2>6. CASE Reinject(v) \/ BeginCallbacks(v)
    BY <2>6 DEF Reinject, BeginCallbacks
  <2>7. ASSUME NEW answers \in Answers(v), EndCallbacks(v, answers) PROVE HitInv(v)'
    <3>1. rip[v] \in PAs /\ stepPA[v] = None /\ v \in VCPUs
      BY <2>7 DEF EndCallbacks, ThreadInv, OneAtATime, TypeOK
    <3>2. answers = {}
      BY <2>7 DEF Answers
    <3>3. stepPA'[v] = rip[v] /\ phase' = phase /\ bps' = bps /\ dtb' = dtb
      BY <2>7, <3>1, <3>2 DEF EndCallbacks, StepAlreadySet, SetSingleStep, TypeOK
    <3>4. status'[rip[v]] = "Disable" /\ \A pa \in PAs \ {rip[v]} : status'[pa] = status[pa]
      BY <2>7, <3>1 DEF EndCallbacks, DisableEvent, TypeOK
    <3>5. QED BY <3>1, <3>3, <3>4
  <2>8. CASE HandleStep(v)
    <3>1. stepPA[v] \in PAs /\ stepPA'[v] = None /\ UNCHANGED <<bps, dtb, phase>>
      BY <2>8 DEF HandleStep, StepCallbackMatchesVcpu, TypeOK
    <3>2. /\ status'[stepPA[v]] = "Enable"
          /\ \A pa \in PAs \ {stepPA[v]} : status'[pa] = status[pa]
      BY <2>8, <3>1 DEF HandleStep, EnableEvent, TypeOK
    <3>3. QED BY <3>1, <3>2
  <2>9. CASE HandleContextSwitch(v)
    <3>1. dtb'[v] = nextDtb[v] /\ UNCHANGED <<bps, stepPA, phase>>
      BY <2>9 DEF HandleContextSwitch, ContextSwitchCallback, UpdatedByte, TypeOK
    <3>2. ASSUME NEW pa \in PAs, bps[pa] # {}
          PROVE status'[pa] = NewBreakpointState(pa, nextDtb[v])
      BY <2>9, <3>2 DEF HandleContextSwitch, ContextSwitchCallback, UpdatedByte, Changed
    <3>3. ASSUME NEW b \in Breakpoints, b \in bps[TargetPA[b]],
                 b \in Global \/ DtbOf[b] = nextDtb[v]
          PROVE NewBreakpointState(TargetPA[b], nextDtb[v]) = "Enable"
      BY <3>3 DEF NewBreakpointState, StateOfBreakpoint
    <3>4. \A pa \in PAs : NewBreakpointState(pa, nextDtb[v]) # None
      BY DEF NewBreakpointState
    <3>5. QED BY <3>1, <3>2, <3>3, <3>4
  <2>10. CASE Start
    BY <2>10 DEF Start
  <2>11. CASE Teardown
    BY <2>11 DEF Teardown, StopSteps, NoCallbacks
  <2>12. CASE GuestAct(v)
    BY <2>12 DEF GuestAct, GuestExecute, GuestWrite, GuestStep, GuestSwitch, SwitchReported
  <2>13. CASE UNCHANGED vars
    BY <2>13 DEF vars
  <2>14. QED
    BY <2>1, <2>2, <2>3, <2>4, <2>5, <2>6, <2>7, <2>8, <2>9, <2>10, <2>11, <2>12, <2>13
       DEF Next, ThreadStep, Halted
<1>3. StepCallbackMatchesVcpu /\ StatusTellsMemory /\ OneAtATime(v) /\ HitInv(v) => NoMissedHit
  BY DEF StepCallbackMatchesVcpu, StatusTellsMemory, OneAtATime, HitInv, NoMissedHit,
         ActiveBreakpoints, Int3InPlace
<1>4. QED
  BY <1>1, <1>2, <1>3, Typing, ThreadConsistent, StepCallbacksMatch, MemoryIsAccountedFor,
     OneAtATimeInvariant, PTL DEF Spec

\* The mutexes are safe during the setup as well.
HangInv == hung => phase \notin {"setup", "running"}

\* The thread never waits for a mutex it holds while the event loop runs: no event other than the
\* one being handled can be pending, so a remove in a callback does not call eventsListen.
THEOREM NoSelfDeadlock ==
  ASSUME NEW v, OneVcpu(v) PROVE Spec => []NoHangWhileRunning
<1> USE ConstantsAssumption DEF ConstantsAssumption, OneVcpu
<1>1. Init => HangInv
  BY DEF Init, NoCopy, NoCallbacks, HangInv
<1>2. TypeOK /\ ThreadInv /\ OneAtATime(v) /\ HangInv /\ [Next]_vars => HangInv'
  <2> SUFFICES ASSUME TypeOK, ThreadInv, OneAtATime(v), HangInv, [Next]_vars PROVE HangInv'
    OBVIOUS
  <2> USE DEF HangInv, guestVars, tables, thread
  <2>0. handling # None => handling = v /\ phase # "setup"
    BY DEF ThreadInv, OneAtATime, TypeOK
  <2>1. ASSUME NEW b \in Breakpoints, CreateBegin(b) PROVE HangInv'
    BY <2>0, <2>1 DEF CreateBegin, CreatePageGuard, InCallerCode, OneAtATime
  <2>2. ASSUME NEW b \in Breakpoints, CreateFinish(b) PROVE HangInv'
    BY <2>2 DEF CreateFinish
  <2>3. ASSUME NEW b \in Breakpoints, DeleteBegin(b) PROVE HangInv'
    <3>1. handling # None => ~AreEventsPending
      BY <2>0 DEF AreEventsPending, EventPending
    <3>2. QED BY <2>0, <2>3, <3>1 DEF DeleteBegin, EraseBreakpointAtAddress, InCallerCode,
        OneAtATime
  <2>4. CASE DrainEnd \/ DeleteFinish \/ Start \/ AbortSetup \/ Stop \/ Teardown
    BY <2>4 DEF DrainEnd, DeleteFinish, TeardownGuard, RemoveInterrupt, Start, AbortSetup, Stop,
        Teardown, StopSteps, NoCallbacks
  <2>5. CASE Reinject(v) \/ BeginCallbacks(v) \/ HandleStep(v) \/ HandleContextSwitch(v)
    BY <2>5 DEF Reinject, BeginCallbacks, HandleStep, HandleContextSwitch, ContextSwitchCallback,
        UpdatedByte
  <2>6. ASSUME NEW answers \in Answers(v), EndCallbacks(v, answers) PROVE HangInv'
    BY <2>6 DEF EndCallbacks, StepAlreadySet, SetSingleStep
  <2>7. CASE GuestAct(v)
    BY <2>7 DEF GuestAct, GuestExecute, GuestWrite, GuestStep, GuestSwitch, SwitchReported
  <2>8. CASE UNCHANGED vars
    BY <2>8 DEF vars
  <2>9. QED
    BY <2>1, <2>2, <2>3, <2>4, <2>5, <2>6, <2>7, <2>8 DEF Next, ThreadStep, Halted
<1>3. HangInv => NoHangWhileRunning
  BY DEF HangInv, NoHangWhileRunning
<1>4. QED BY <1>1, <1>2, <1>3, Typing, ThreadConsistent, OneAtATimeInvariant, PTL DEF Spec

-----------------------------------------------------------------------------
\* What the mapping to the service rests on besides the theorems above: the guest's own bytes never
\* change, a trapped vCPU stands at an INT3 until its callbacks begin, and nothing is under way when
\* the run has ended.
ServiceInv(v) ==
    /\ guestByte = [pa \in PAs |-> IF pa \in GuestInt3 THEN INT3 ELSE "code"]
    /\ phase = "running" /\ mode[v] = "int3" /\ handling = None => mem[rip[v]] = INT3
    /\ phase \in {"done", "crashed"} => creating = None /\ removing = None /\ handling = None
    /\ phase = "done" => \A pa \in PAs : bps[pa] = {}
    /\ \A pa \in PAs : \A b \in bps[pa] : TargetPA[b] = pa

\* With one virtual processor the engine keeps what relates it to BreakpointService.
LEMMA ServiceInvariant ==
  ASSUME NEW v, OneVcpu(v) PROVE Spec => []ServiceInv(v)
<1> USE ConstantsAssumption DEF ConstantsAssumption, OneVcpu
<1>1. Init => ServiceInv(v)
  BY DEF Init, NoCopy, NoCallbacks, ServiceInv
<1>2. TypeOK /\ ThreadInv /\ OneAtATime(v) /\ ServiceInv(v) /\ [Next]_vars => ServiceInv(v)'
  <2> SUFFICES ASSUME TypeOK, ThreadInv, OneAtATime(v), ServiceInv(v), [Next]_vars
               PROVE ServiceInv(v)'
    OBVIOUS
  <2> USE DEF ServiceInv, guestVars, tables, thread
  <2>0. /\ handling # None => handling = v
        /\ phase = "running" /\ (creating # None \/ removing # None) => handling = v
      BY DEF ThreadInv, OneAtATime, TypeOK
  <2>1. ASSUME NEW b \in Breakpoints, CreateBegin(b) PROVE ServiceInv(v)'
    BY <2>0, <2>1 DEF CreateBegin, CreatePageGuard, InCallerCode
  <2>2. ASSUME NEW b \in Breakpoints, CreateFinish(b) PROVE ServiceInv(v)'
    <3>0. bps \in [PAs -> SUBSET Breakpoints]
      BY DEF TypeOK
    <3>1. creating # None /\ creating' = None
          /\ UNCHANGED <<guestByte, mode, rip, phase, removing, handling>>
      BY <2>2 DEF CreateFinish
    <3>2. \A pa \in PAs : \A c \in bps'[pa] : TargetPA[c] = pa
      BY <3>0, <2>2 DEF CreateFinish, NewInt3, AlreadyInt3, JoinInt3
    <3>3. QED BY <2>0, <3>1, <3>2
  <2>3. ASSUME NEW b \in Breakpoints, DeleteBegin(b) PROVE ServiceInv(v)'
    <3>0. bps \in [PAs -> SUBSET Breakpoints]
      BY DEF TypeOK
    <3>1. UNCHANGED <<mem, guestByte, mode, rip, phase, handling, creating>> /\ InCallerCode
      BY <2>3 DEF DeleteBegin, EraseBreakpointAtAddress
    <3>2. \A pa \in PAs : bps'[pa] \subseteq bps[pa]
      BY <3>0, <2>3 DEF DeleteBegin, EraseBreakpointAtAddress
    <3>3. phase \notin {"done", "crashed"}
      BY <3>1 DEF InCallerCode
    <3>4. QED BY <3>1, <3>2, <3>3
  <2>4. CASE DrainEnd \/ Start \/ AbortSetup \/ Stop
    <3>1. phase = "setup" => handling = None /\ mode[v] # "int3"
      BY <2>0 DEF ThreadInv, OneAtATime
    <3>2. QED BY <2>4, <3>1 DEF DrainEnd, Start, AbortSetup, Stop, Listening
  <2>5. CASE DeleteFinish
    BY <2>0, <2>5 DEF DeleteFinish, TeardownGuard, RemoveInterrupt
  <2>6. CASE Reinject(v) \/ BeginCallbacks(v)
    BY <2>6 DEF Reinject, BeginCallbacks, Listening, Resumed, ThreadInv, TypeOK
  <2>7. ASSUME NEW answers \in Answers(v), EndCallbacks(v, answers) PROVE ServiceInv(v)'
    <3>1. stepPA[v] = None
      BY <2>7 DEF EndCallbacks, ThreadInv, OneAtATime
    <3>2. /\ mode'[v] # "int3" /\ handling' = None /\ phase' = phase
          /\ phase \notin {"done", "crashed"}
      BY <2>7, <3>1 DEF EndCallbacks, InCallerCode, SetSingleStep, StepAlreadySet, Resumed, TypeOK
    <3>3. QED BY <2>7, <3>2 DEF EndCallbacks
  <2>8. CASE HandleStep(v) \/ HandleContextSwitch(v)
    BY <2>8 DEF HandleStep, HandleContextSwitch, ContextSwitchCallback, UpdatedByte, Listening,
        TypeOK
  <2>9. CASE Teardown
    BY <2>9 DEF Teardown, StopSteps, NoCallbacks, InCallerCode
  <2>10. CASE GuestAct(v)
    BY <2>10 DEF GuestAct, GuestExecute, GuestWrite, GuestStep, GuestSwitch, SwitchReported, TypeOK
  <2>11. CASE UNCHANGED vars
    BY <2>11 DEF vars
  <2>12. QED
    BY <2>1, <2>2, <2>3, <2>4, <2>5, <2>6, <2>7, <2>8, <2>9, <2>10, <2>11
       DEF Next, ThreadStep, Halted
<1>3. QED BY <1>1, <1>2, Typing, ThreadConsistent, OneAtATimeInvariant, PTL DEF Spec

\* In every reachable state the guest is served: the theorems above, read at the service's variables.
LEMMA GuestServed ==
  ASSUME NEW v, OneVcpu(v)
  PROVE  /\ TypeOK /\ ThreadInv /\ MemoryInv /\ NoStrayInt3 /\ ReadsHideInt3 /\ NoMissedHit
         /\ OneAtATime(v) /\ ServiceInv(v)
         => Service!GuestIsServed
<1> SUFFICES ASSUME TypeOK, ThreadInv, MemoryInv, NoStrayInt3, ReadsHideInt3, NoMissedHit,
                    OneAtATime(v), ServiceInv(v)
             PROVE  Service!GuestIsServed
  OBVIOUS
<1> USE ConstantsAssumption DEF ConstantsAssumption, OneVcpu
<1> DEFINE Traps  == {pa \in PAs : mem[pa] = INT3}
           Placed == {b \in Breakpoints : b \in bps[TargetPA[b]]}
<1>1. OnlyVcpu = v /\ v \in VCPUs
  BY DEF OnlyVcpu
<1>2. \A pa \in PAs : guestByte[pa] = INT3 <=> pa \in GuestInt3
  BY DEF ServiceInv, INT3
<1>3. ASSUME removing = None PROVE GuestInt3 \subseteq Traps
  <2> SUFFICES ASSUME NEW pa \in GuestInt3 PROVE mem[pa] = INT3
    OBVIOUS
  <2>1. bps[pa] = {}
    BY <1>2 DEF MemoryInv, SavedByteIsGuestByte, OneAtATime
  <2>2. QED BY <1>2, <1>3, <2>1 DEF NoStrayInt3
<1>4. ASSUME removing = None PROVE Traps \subseteq GuestInt3 \cup {TargetPA[b] : b \in Placed}
  <2> SUFFICES ASSUME NEW pa \in PAs, mem[pa] = INT3, bps[pa] # {}
               PROVE  \E b \in Placed : TargetPA[b] = pa
    BY <1>2, <1>4 DEF NoStrayInt3
  <2>1. PICK b \in bps[pa] : TargetPA[b] = pa
    BY DEF ServiceInv
  <2>2. QED BY <2>1 DEF TypeOK
<1>5. ASSUME phase = "running", handling = None, mode[v] = "run"
      PROVE  /\ GuestInt3 \cup Service!Due(dtb[v]) \subseteq Traps
             /\ Traps \subseteq GuestInt3 \cup {TargetPA[b] : b \in Placed}
  <2>1. removing = None
    BY <1>5 DEF OneAtATime
  <2>2. Service!Due(dtb[v]) \subseteq Traps
    BY <1>1, <1>5 DEF Service!Due, NoMissedHit, ActiveBreakpoints, Int3InPlace
  <2>3. QED BY <1>3, <1>4, <2>1, <2>2
<1>6. ASSUME phase = "done" PROVE Traps = GuestInt3
  <2>1. removing = None /\ Placed = {}
    BY <1>6 DEF ServiceInv
  <2>2. QED BY <1>3, <1>4, <2>1
<1>7. ASSUME NEW pa \in PAs
      PROVE  /\ Service!OwnMemory[pa] \in GuestReads(pa)
             /\ pa \notin Service!Behind => GuestReads(pa) = {Service!OwnMemory[pa]}
  <2>1. Service!OwnMemory[pa] = guestByte[pa]
    BY DEF ServiceInv, Service!OwnMemory, INT3
  <2>2. BehindGuards \subseteq Service!Behind
    BY DEF BehindGuards, Service!Behind
  <2>3. QED BY <2>1, <2>2 DEF ReadsHideInt3, GuestReads
<1>8. QED BY <1>1, <1>5, <1>6, <1>7 DEF Service!GuestIsServed

\* The engine implements the service: breakpoints placed and removed under an INT3 of their own or a
\* shared one, guarded pages, statuses and single steps amount to what BreakpointService promises.
THEOREM EngineImplementsService ==
  ASSUME NEW v, OneVcpu(v), Responses = {"Continue"} PROVE Spec => ImplementsService
<1> USE ConstantsAssumption DEF ConstantsAssumption, OneVcpu
<1> DEFINE Traps  == {pa \in PAs : mem[pa] = INT3}
           Placed == {b \in Breakpoints : b \in bps[TargetPA[b]]}
           Cpu    == IF handling = None THEN mode[v] ELSE "called"
           Inv    == /\ TypeOK /\ ThreadInv /\ StepCallbackMatchesVcpu /\ MemoryInv
                     /\ OneAtATime(v) /\ NoStrayInt3 /\ ReadsHideInt3 /\ NoMissedHit
                     /\ ServiceInv(v)
<1>0. OnlyVcpu = v /\ v \in VCPUs
  BY DEF OnlyVcpu
<1>1. Init => Service!Init
  BY <1>0 DEF Init, NoCallbacks, Service!Init, Service!OwnMemory, GuestReads, ReadsWithin,
     ReadsAcross, INT3
<1>2. /\ Inv /\ Service!GuestIsServed /\ Service!GuestIsServed' /\ [Next]_vars
      => [Service!Next]_(Service!vars)
  <2> SUFFICES ASSUME Inv, Service!GuestIsServed, Service!GuestIsServed', [Next]_vars
               PROVE  [Service!Next]_(Service!vars)
    OBVIOUS
  <2> USE DEF guestVars, tables, thread
  <2> DEFINE Reads == [pa \in PAs |-> GuestReads(pa)]
  <2>0. ASSUME UNCHANGED <<mem, pages, shadow>> PROVE Reads' = Reads
    BY <2>0 DEF GuestReads, ReadsWithin, ReadsAcross
  <2> DEFINE Same == UNCHANGED <<phase, dtb, nextDtb, mode, handling, rip>>
  <2>1. ASSUME handling # None
        PROVE  handling = v /\ mode[v] = "int3" /\ stepPA[v] = None /\ rip[v] \in PAs
    BY <2>1 DEF ThreadInv, OneAtATime, TypeOK
  <2>2. InCallerCode \/ creating # None \/ removing # None => Service!CallersTurn
    BY DEF InCallerCode, Service!CallersTurn, OneAtATime, ServiceInv, TypeOK, Phases
  <2>3. ASSUME Same, Placed' = Placed, UNCHANGED <<mem, pages, shadow>>
        PROVE  UNCHANGED Service!vars
    BY <1>0, <2>0, <2>3 DEF Service!vars
  <2>4. ASSUME NEW b \in Breakpoints, CreateBegin(b) PROVE [Service!Next]_(Service!vars)
    <3>1. Same /\ Service!CallersTurn /\ UNCHANGED <<mem, bps>>
      BY <2>2, <2>4 DEF CreateBegin, CreatePageGuard
    <3>2. Service!Tidy
      BY <1>0, <3>1 DEF Service!Tidy
    <3>3. QED BY <3>2 DEF Service!Next
  <2>5. ASSUME NEW b \in Breakpoints, CreateFinish(b) PROVE [Service!Next]_(Service!vars)
    <3>1. Same /\ creating = b /\ Service!CallersTurn /\ UNCHANGED <<pages, shadow>>
      BY <2>2, <2>5 DEF CreateFinish
    <3>2. CASE UNCHANGED <<mem, bps>>
      BY <2>3, <3>1, <3>2
    <3>3. CASE bps' # bps
      <4>1. b \notin Placed /\ Placed' = Placed \cup {b}
        <5>1. bps' = [bps EXCEPT ![TargetPA[b]] = @ \cup {b}]
          BY <2>5, <3>3 DEF CreateFinish, NewInt3, AlreadyInt3, JoinInt3
        <5>2. QED BY <3>3, <5>1 DEF TypeOK
      <4>2. Service!Place(b)
        BY <1>0, <3>1, <4>1 DEF Service!Place
      <4>3. QED BY <4>2 DEF Service!Next
    <3>4. CASE bps' = bps /\ mem' # mem
      BY <1>0, <3>1, <3>4 DEF Service!Next, Service!Tidy
    <3>5. QED BY <3>2, <3>3, <3>4
  <2>6. ASSUME NEW b \in Breakpoints, DeleteBegin(b) PROVE [Service!Next]_(Service!vars)
    <3>1. /\ Same /\ Service!CallersTurn /\ b \in Placed
          /\ UNCHANGED <<mem, pages, shadow>>
      BY <2>2, <2>6 DEF DeleteBegin, EraseBreakpointAtAddress
    <3>2. CASE bps' = bps
      BY <2>3, <3>1, <3>2
    <3>3. CASE bps' # bps
      <4>0. bps \in [PAs -> SUBSET Breakpoints]
        BY DEF TypeOK
      <4>1. Placed' = Placed \ {b}
        BY <2>6, <3>3, <4>0 DEF DeleteBegin, EraseBreakpointAtAddress
      <4>2. handling # None => TargetPA[b] # rip[v]
        BY <2>1, <2>6 DEF DeleteBegin, EraseBreakpointAtAddress
      <4>3. mode[v] # "called"
        BY <1>0 DEF TypeOK, Modes
      <4>4. Service!Remove(b)
        BY <1>0, <3>1, <4>1, <4>2, <4>3 DEF Service!Remove
      <4>5. QED BY <4>4 DEF Service!Next
    <3>4. QED BY <3>2, <3>3
  <2>7. CASE DrainEnd
    BY <2>3, <2>7 DEF DrainEnd
  <2>8. CASE DeleteFinish
    <3>1. Same /\ bps' = bps /\ Service!CallersTurn
      BY <2>2, <2>8 DEF DeleteFinish, TeardownGuard, RemoveInterrupt
    <3>2. Service!Tidy
      BY <1>0, <3>1 DEF Service!Tidy
    <3>3. QED BY <3>2 DEF Service!Next
  <2>9. ASSUME Reinject(v) PROVE [Service!Next]_(Service!vars)
    <3>1. /\ handling = None /\ mode[v] = "int3" /\ bps[rip[v]] = {} /\ rip[v] \in PAs
          /\ mode'[v] = "run" /\ rip'[v] = None
          /\ UNCHANGED <<phase, dtb, nextDtb, handling, bps, mem, pages, shadow>>
      BY <1>0, <2>9 DEF Reinject, Listening, Resumed, OneAtATime, ThreadInv, TypeOK
    <3>2. phase = "running" => rip[v] \in GuestInt3
      <4>1. phase = "running" => removing = None /\ mem[rip[v]] = INT3
        BY <3>1 DEF OneAtATime, ServiceInv
      <4>2. QED BY <3>1, <4>1 DEF NoStrayInt3, ServiceInv, INT3
    <3>3. Service!GiveBack
      BY <1>0, <2>0, <3>1, <3>2 DEF Service!GiveBack
    <3>4. QED BY <3>3 DEF Service!Next
  <2>10. ASSUME BeginCallbacks(v) PROVE [Service!Next]_(Service!vars)
    <3>1. /\ handling = None /\ mode[v] = "int3" /\ bps[rip[v]] # {} /\ rip[v] \in PAs
          /\ handling' = v /\ v # None
          /\ UNCHANGED <<phase, dtb, nextDtb, mode, rip, bps, mem, pages, shadow>>
      BY <1>0, <2>10 DEF BeginCallbacks, Listening, ThreadInv, TypeOK
    <3>2. \E b \in Placed : TargetPA[b] = rip[v]
      BY <3>1 DEF ServiceInv, TypeOK
    <3>3. Service!Call
      BY <1>0, <2>0, <3>1, <3>2 DEF Service!Call
    <3>4. QED BY <3>3 DEF Service!Next
  <2>11. ASSUME NEW answers \in Answers(v), handling = v, EndCallbacks(v, answers)
         PROVE  [Service!Next]_(Service!vars)
    <3>1. answers = {} /\ v # None
      BY <1>0, <2>11 DEF Answers
    <3>2. /\ mode'[v] = "step" /\ handling' = None
          /\ UNCHANGED <<phase, dtb, nextDtb, rip, bps>>
      BY <1>0, <2>1, <2>11, <3>1 DEF EndCallbacks, StepAlreadySet, SetSingleStep, TypeOK
    <3>3. Service!Answer
      BY <1>0, <2>11, <3>1, <3>2 DEF Service!Answer
    <3>4. QED BY <3>3 DEF Service!Next
  <2>12. ASSUME HandleStep(v) PROVE [Service!Next]_(Service!vars)
    <3>1. /\ handling = None /\ mode[v] = "stepped" /\ mode'[v] = "run" /\ rip'[v] = None
          /\ UNCHANGED <<phase, dtb, nextDtb, handling, bps>>
      BY <1>0, <2>12 DEF HandleStep, Listening, TypeOK
    <3>2. Service!Resume
      BY <1>0, <3>1 DEF Service!Resume
    <3>3. QED BY <3>2 DEF Service!Next
  <2>13. ASSUME HandleContextSwitch(v) PROVE [Service!Next]_(Service!vars)
    <3>1. /\ handling = None /\ mode[v] = "cr3" /\ mode'[v] = "run" /\ dtb'[v] = nextDtb[v]
          /\ UNCHANGED <<phase, nextDtb, handling, rip, bps>>
      BY <1>0, <2>13 DEF HandleContextSwitch, ContextSwitchCallback, UpdatedByte, Listening, TypeOK
    <3>2. Service!Switched
      BY <1>0, <3>1 DEF Service!Switched
    <3>3. QED BY <3>2 DEF Service!Next
  <2>14. CASE Start \/ AbortSetup \/ Stop
    <3>1. UNCHANGED <<dtb, nextDtb, mode, handling, rip, bps, mem, pages, shadow>>
      BY <2>14 DEF Start, AbortSetup, Stop
    <3>2. \/ phase = "setup" /\ phase' \in {"running", "stopping", "crashed"}
          \/ phase = "running" /\ handling = None /\ phase' = "stopping"
      BY <2>14 DEF Start, AbortSetup, Stop, Listening
    <3>3. mode[v] # "called"
      BY <1>0 DEF TypeOK, Modes
    <3>4. Service!Proceed
      BY <1>0, <2>0, <3>1, <3>2, <3>3 DEF Service!Proceed
    <3>5. QED BY <3>4 DEF Service!Next
  <2>15. CASE Teardown
    <3>1. /\ phase = "stopping" /\ phase' = "done" /\ mode'[v] = "run" /\ rip'[v] = None
          /\ Placed' = {} /\ handling' = None /\ UNCHANGED <<dtb, nextDtb>>
      BY <1>0, <2>15 DEF Teardown, StopSteps, NoCallbacks
    <3>2. Service!GoAway
      BY <1>0, <3>1 DEF Service!GoAway
    <3>3. QED BY <3>2 DEF Service!Next
  <2>16. ASSUME GuestAct(v) PROVE [Service!Next]_(Service!vars)
    <3>1. phase = "running" /\ UNCHANGED <<dtb, phase, handling, bps, mem, pages, shadow>>
      BY <2>16 DEF GuestAct, GuestExecute, GuestWrite, GuestStep, GuestSwitch, SwitchReported
    <3>2. mode[v] # "int3" => handling = None
      BY <2>1
    <3>3. ASSUME NEW pa \in PAs, GuestExecute(v, pa) PROVE Service!Trap(pa)
      BY <1>0, <2>0, <3>1, <3>2, <3>3 DEF GuestExecute, Service!Trap, TypeOK
    <3>4. CASE GuestStep(v)
      <4>1. rip[v] = stepPA[v] /\ rip[v] \in PAs /\ bps[rip[v]] # {} /\ status[rip[v]] = "Disable"
        BY <1>0, <3>1, <3>4 DEF GuestStep, StepCallbackMatchesVcpu, OneAtATime, TypeOK
      <4>2. mem[rip[v]] # INT3
        BY <4>1 DEF MemoryInv, SavedByteIsGuestByte, StatusTellsMemory, OneAtATime
      <4>3. mode'[v] = "stepped"
        BY <1>0, <3>4, <4>2 DEF GuestStep, TypeOK
      <4>4. Service!Step
        BY <1>0, <2>0, <3>1, <3>2, <3>4, <4>2, <4>3 DEF GuestStep, Service!Step
      <4>5. QED BY <4>4 DEF Service!Next
    <3>5. ASSUME NEW d \in DTBs, GuestSwitch(v, d) PROVE Service!Switch(d)
      BY <1>0, <2>0, <3>1, <3>2, <3>5
         DEF GuestSwitch, SwitchReported, Service!Switch, TypeOK
    <3>6. ~ \E pa \in PAs : GuestWrite(v, pa)
      BY DEF GuestWrite
    <3>7. QED BY <2>16, <3>3, <3>4, <3>5, <3>6 DEF GuestAct, Service!Next
  <2>17. CASE UNCHANGED vars
    BY <2>3, <2>17 DEF vars
  <2>18. QED
    BY <2>4, <2>5, <2>6, <2>7, <2>8, <2>9, <2>10, <2>11, <2>12, <2>13, <2>14, <2>15, <2>16, <2>17
       DEF Next, ThreadStep, Halted
<1>3. Inv => Service!GuestIsServed
  BY GuestServed
<1>4. QED
  BY <1>1, <1>2, <1>3, Typing, ThreadConsistent, StepCallbacksMatch, MemoryIsAccountedFor,
     OneAtATimeInvariant, NoInt3Left, BreakpointsAreInvisible, NoHitMissed, ServiceInvariant, PTL
     DEF Spec, ImplementsService, Service!Spec, MemoryInv
=============================================================================
