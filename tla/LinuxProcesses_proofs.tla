------------------------ MODULE LinuxProcesses_proofs ------------------------
(***************************************************************************)
(* The tables of the Linux process tracking, for any number of tasks, pids *)
(* and addresses.                                                          *)
(***************************************************************************)
EXTENDS LinuxProcesses, TLAPS

\* Two tasks of the guest have neither a pid nor an address in common.
NamesUnique ==
    \A x, y \in Tasks :
        Present(x) /\ Present(y) /\ x # y => PidOf[x] # PidOf[y] /\ StructOf[x] # StructOf[y]

\* A record is kept under the pid of its task.
RecordsByPid ==
    \A p \in Pids : processInformationByPid[p].task # None =>
                        PidOf[processInformationByPid[p].task] = p

\* The address of a task that has been recorded leads to its pid while it lives, whatever is kept
\* under that pid.
AddressesKnown ==
    attached = "yes" =>
        \A x \in Tasks : guest[x] = "live" /\ x \notin missed => pidsByTaskStruct[StructOf[x]] = PidOf[x]

Tracked == TypeOK /\ NamesUnique /\ RecordsByPid /\ AddressesKnown /\ HarmIsLocal /\ NoEntryLeaks

\* A record names a task, and the missing record none.
LEMMA RecordFields ==
  ASSUME NEW r \in Records \cup {NoRecord}
  PROVE  /\ r.task \in Tasks \cup {None}
         /\ r = NoRecord <=> r.task = None
  BY TasksAssumption DEF Records, NoRecord

-----------------------------------------------------------------------------
\* The invariant of the tracked tasks, in the initial states
LEMMA InitTracked == Init => Tracked
<1> SUFFICES ASSUME Init PROVE Tracked
  OBVIOUS
<1>1. TypeOK
  BY DEF Init, TypeOK
<1>2. NamesUnique
  BY DEF Init, NamesUnique, Present
<1>3. RecordsByPid
  BY DEF Init, RecordsByPid, NoRecord
<1>4. AddressesKnown /\ HarmIsLocal /\ NoEntryLeaks
  BY DEF Init, AddressesKnown, HarmIsLocal, NoEntryLeaks
<1> QED BY <1>1, <1>2, <1>3, <1>4 DEF Tracked

\* The types, and what the guest alone decides, are kept by every step.
LEMMA TypesKept == TypeOK /\ [Next]_vars => TypeOK'
<1> SUFFICES ASSUME TypeOK, [Next]_vars PROVE TypeOK'
  OBVIOUS
<1> USE DEF TypeOK, guestVars, tables, Records
<1>1. ASSUME NEW y \in Tasks, NEW x \in Tasks, ForkUnseen(y, x) \/ ForkNotRecorded(y, x) PROVE TypeOK'
  BY <1>1 DEF ForkUnseen, ForkNotRecorded, GuestForks, NotReported
<1>2. ASSUME NEW y \in Tasks, NEW x \in Tasks, ForkSeen(y, x) PROVE TypeOK'
  <2>1. PidOf[x] \in Pids /\ image[y] \in Images \cup {None}
    BY DEF Pids
  <2> QED BY <1>2, <2>1 DEF ForkSeen, GuestForks, AddNewProcess
<1>3. ASSUME NEW x \in Tasks, NEW i \in Images, ExecuteUnseen(x, i) \/ ExecuteInVain(x, i) PROVE TypeOK'
  BY <1>3 DEF ExecuteUnseen, ExecuteInVain, GuestExecutes, NotReported
<1>4. ASSUME NEW x \in Tasks, NEW i \in Images, ExecuteSeen(x, i) PROVE TypeOK'
  <2>1. PidOf[x] \in Pids
    BY DEF Pids
  <2> QED BY <1>4, <2>1 DEF ExecuteSeen, GuestExecutes, ReplaceRecord
<1>5. ASSUME NEW x \in Tasks, NEW i \in Images, ExecuteNotRecorded(x, i) PROVE TypeOK'
  BY <1>5 DEF ExecuteNotRecorded, GuestExecutes, RemoveActiveProcess
<1>6. ASSUME NEW x \in Tasks, ExitUnseen(x) \/ ExitThrows(x) \/ ExitOfUnknown(x) \/ Reap(x) PROVE TypeOK'
  BY <1>6 DEF ExitUnseen, ExitThrows, ExitOfUnknown, Reap, GuestExits, NotReported
<1>7. ASSUME NEW x \in Tasks, ExitSeen(x) PROVE TypeOK'
  BY <1>7 DEF ExitSeen, GuestExits, RemoveActiveProcess
<1>8. ASSUME Attach PROVE TypeOK'
  <2>1. \A p \in Pids : (\E x \in Listed : PidOf[x] = p) =>
                            RecordOf(CHOOSE x \in Listed : PidOf[x] = p) \in Records
    BY DEF Listed, RecordOf
  <2>2. \A s \in Structs : (\E x \in Listed : StructOf[x] = s) =>
                               PidOf[CHOOSE x \in Listed : StructOf[x] = s] \in Pids
    BY DEF Listed, Pids
  <2>3. processInformationByPid' \in [Pids -> Records \cup {NoRecord}]
    BY <1>8, <2>1 DEF Attach
  <2>4. pidsByTaskStruct' \in [Structs -> Pids \cup {None}]
    BY <1>8, <2>2 DEF Attach
  <2>5. missed' \subseteq Tasks /\ kept' \subseteq Tasks
    BY <1>8, TasksAssumption DEF Attach, Listed
  <2> QED BY <1>8, <2>3, <2>4, <2>5 DEF Attach
<1>9. ASSUME AttachFails \/ Detach PROVE TypeOK'
  BY <1>9 DEF AttachFails, Detach
<1>10. CASE UNCHANGED vars
  BY <1>10 DEF vars
<1> QED BY <1>1, <1>2, <1>3, <1>4, <1>5, <1>6, <1>7, <1>8, <1>9, <1>10 DEF Next

\* A step of the guest never gives one task the pid or the address of another that is present.
LEMMA NamesKept == TypeOK /\ NamesUnique /\ [Next]_vars => NamesUnique'
<1> SUFFICES ASSUME TypeOK, NamesUnique, [Next]_vars PROVE NamesUnique'
  OBVIOUS
<1>1. ASSUME NEW y \in Tasks, NEW x \in Tasks, GuestForks(y, x) PROVE NamesUnique'
  <2>1. \A z \in Tasks : Present(z)' => z = x \/ Present(z)
    BY <1>1 DEF GuestForks, Present, TypeOK
  <2> QED BY <1>1, <2>1 DEF GuestForks, NamesUnique
<1>2. ASSUME \A z \in Tasks : Present(z)' => Present(z) PROVE NamesUnique'
  BY <1>2 DEF NamesUnique
<1>3. ASSUME NEW y \in Tasks, NEW x \in Tasks, ForkUnseen(y, x) \/ ForkSeen(y, x) \/ ForkNotRecorded(y, x)
      PROVE  NamesUnique'
  BY <1>1, <1>3 DEF ForkUnseen, ForkSeen, ForkNotRecorded
<1>4. ASSUME NEW x \in Tasks, NEW i \in Images,
             ExecuteUnseen(x, i) \/ ExecuteSeen(x, i) \/ ExecuteNotRecorded(x, i) \/ ExecuteInVain(x, i)
      PROVE  NamesUnique'
  BY <1>2, <1>4 DEF ExecuteUnseen, ExecuteSeen, ExecuteNotRecorded, ExecuteInVain, GuestExecutes, Present
<1>5. ASSUME NEW x \in Tasks, ExitUnseen(x) \/ ExitSeen(x) \/ ExitThrows(x) \/ ExitOfUnknown(x) \/ Reap(x)
      PROVE  NamesUnique'
  BY <1>2, <1>5 DEF ExitUnseen, ExitSeen, ExitThrows, ExitOfUnknown, Reap, GuestExits, Present, TypeOK
<1>6. CASE Attach \/ AttachFails \/ Detach \/ UNCHANGED vars
  BY <1>2, <1>6 DEF Attach, AttachFails, Detach, vars, guestVars, Present
<1> QED BY <1>3, <1>4, <1>5, <1>6 DEF Next

-----------------------------------------------------------------------------
(* What each step of VMICore does to the tables, in terms of the invariant. *)

TablesRight == RecordsByPid /\ AddressesKnown /\ HarmIsLocal /\ NoEntryLeaks

\* A task of which nothing was missed so far and whose pid nobody has spoilt is in both tables.
LEMMA LiveKnown ==
  ASSUME TablesRight, attached = "yes", NEW x \in Tasks, guest[x] = "live",
         \A y \in missed \cup kept : PidOf[y] # PidOf[x]
  PROVE  /\ processInformationByPid[PidOf[x]] = [task |-> x, image |-> image[x]]
         /\ pidsByTaskStruct[StructOf[x]] = PidOf[x]
         /\ x \notin missed
  BY DEF TablesRight, HarmIsLocal

\* What is found at the address of a live task belongs to it, or has the pid of a spoilt task.
LEMMA FoundAtAddress ==
  ASSUME TypeOK, NamesUnique, TablesRight, attached = "yes",
         NEW x \in Tasks, guest[x] = "live", pidsByTaskStruct[StructOf[x]] # None
  PROVE  \/ pidsByTaskStruct[StructOf[x]] = PidOf[x]
         \/ \E y \in missed \cup kept : y \in Tasks /\ PidOf[y] = pidsByTaskStruct[StructOf[x]]
<1>1. StructOf[x] \in Structs
  BY DEF Structs
<1>2. PICK y \in Tasks : /\ PidOf[y] = pidsByTaskStruct[StructOf[x]]
                         /\ y \in missed \cup kept \/ (StructOf[y] = StructOf[x] /\ guest[y] = "live")
  BY <1>1 DEF TablesRight, NoEntryLeaks
<1>3. CASE y \in missed \cup kept
  BY <1>2, <1>3
<1>4. CASE StructOf[y] = StructOf[x] /\ guest[y] = "live"
  BY <1>2, <1>4 DEF NamesUnique, Present
<1> QED BY <1>2, <1>3, <1>4

\* The steps that change neither table: the guest moves on, and what it does is written down in
\* missed or kept.
LEMMA TablesKept ==
  ASSUME TypeOK, TypeOK', NamesUnique, TablesRight, UNCHANGED tables, attached' = attached,
         missed \subseteq missed', kept \subseteq kept',
         \A x \in Tasks : guest[x] = "live" /\ guest'[x] # "live" /\ attached = "yes" =>
             x \in missed' \cup kept' \/ Reported(x) = NoRecord,
         \A x \in Tasks : guest'[x] = "live" /\ attached = "yes" =>
             x \in missed' \/ (guest[x] = "live" /\ image'[x] = image[x])
  PROVE  TablesRight'
<1>1. RecordsByPid'
  BY DEF TablesRight, RecordsByPid, tables
<1>2. AddressesKnown'
  BY DEF TablesRight, AddressesKnown, tables
<1>3. HarmIsLocal'
  <2> SUFFICES ASSUME attached = "yes", NEW x \in Tasks, guest'[x] = "live",
                      \A y \in missed' \cup kept' : PidOf[y] # PidOf[x]
               PROVE  /\ processInformationByPid[PidOf[x]] = [task |-> x, image |-> image'[x]]
                      /\ pidsByTaskStruct[StructOf[x]] = PidOf[x]
    BY DEF HarmIsLocal, tables
  <2>1. guest[x] = "live" /\ image'[x] = image[x]
    OBVIOUS
  <2>2. \A y \in missed \cup kept : PidOf[y] # PidOf[x]
    OBVIOUS
  <2> QED BY <2>1, <2>2, LiveKnown
<1>4. NoEntryLeaks'
  <2> SUFFICES ASSUME attached = "yes" PROVE NoEntryLeaks'
    BY DEF NoEntryLeaks
  \* A task that leaves without being written down was not found, so it had been spoilt before.
  <2>1. ASSUME NEW x \in Tasks, guest[x] = "live", guest'[x] # "live", x \notin missed' \cup kept'
        PROVE  /\ processInformationByPid[PidOf[x]] = NoRecord
               /\ \E y \in missed' \cup kept' : y \in Tasks /\ PidOf[y] = PidOf[x]
    <3>1. pidsByTaskStruct[StructOf[x]] = PidOf[x]
      BY <2>1 DEF TablesRight, AddressesKnown
    <3>2. PidOf[x] # None
      BY TasksAssumption DEF Pids
    <3>3. processInformationByPid[PidOf[x]] = NoRecord
      BY <2>1, <3>1, <3>2 DEF Reported, ProcessInformationByBase
    <3>4. [task |-> x, image |-> image[x]] # NoRecord
      BY TasksAssumption DEF NoRecord
    <3>5. ~(\A y \in missed \cup kept : PidOf[y] # PidOf[x])
      BY <2>1, <3>3, <3>4, LiveKnown
    <3> QED BY <3>3, <3>5 DEF TypeOK
  <2>2. ASSUME NEW p \in Pids, processInformationByPid[p].task # None,
               guest'[processInformationByPid[p].task] # "live"
        PROVE  processInformationByPid[p].task \in missed' \cup kept'
    <3> DEFINE x == processInformationByPid[p].task
    <3>1. x \in Tasks /\ PidOf[x] = p /\ processInformationByPid[p] # NoRecord
      BY <2>2, RecordFields DEF TypeOK, TablesRight, RecordsByPid
    <3>2. CASE guest[x] = "live"
      BY <2>1, <2>2, <3>1, <3>2
    <3>3. CASE guest[x] # "live"
      BY <2>2, <3>3 DEF TablesRight, NoEntryLeaks
    <3> QED BY <3>2, <3>3
  <2>3. ASSUME NEW s \in Structs, pidsByTaskStruct[s] # None
        PROVE  \E y \in Tasks : /\ PidOf[y] = pidsByTaskStruct[s]
                                /\ y \in missed' \cup kept' \/ (StructOf[y] = s /\ guest'[y] = "live")
    <3>1. PICK y \in Tasks : /\ PidOf[y] = pidsByTaskStruct[s]
                             /\ y \in missed \cup kept \/ (StructOf[y] = s /\ guest[y] = "live")
      BY <2>3 DEF TablesRight, NoEntryLeaks
    <3>2. CASE y \in missed' \cup kept' \/ guest'[y] = "live"
      BY <3>1, <3>2
    <3>3. CASE y \notin missed' \cup kept' /\ guest'[y] # "live"
      BY <2>1, <3>1, <3>3
    <3> QED BY <3>2, <3>3
  <2> QED BY <2>2, <2>3 DEF NoEntryLeaks, tables
<1> QED BY <1>1, <1>2, <1>3, <1>4 DEF TablesRight

\* addNewProcess of a task that is live from now on and not spoilt.
LEMMA TablesAdded ==
  ASSUME TypeOK, NamesUnique', TablesRight, attached = "yes", attached' = "yes",
         NEW x \in Tasks, guest[x] # "live", guest' = [guest EXCEPT ![x] = "live"],
         \A z \in Tasks : z # x => image'[z] = image[z],
         AddNewProcess(x, image'[x]), UNCHANGED <<missed, kept>>,
         \A z \in Tasks : guest[z] = "live" => StructOf[z] # StructOf[x] /\ PidOf[z] # PidOf[x]
  PROVE  TablesRight'
<1> USE DEF AddNewProcess
<1>1. PidOf[x] \in Pids /\ StructOf[x] \in Structs /\ \A z \in Tasks : PidOf[z] \in Pids /\ StructOf[z] \in Structs
  BY DEF Pids, Structs
<1>2. /\ processInformationByPid'[PidOf[x]] = [task |-> x, image |-> image'[x]]
      /\ \A p \in Pids \ {PidOf[x]} : processInformationByPid'[p] = processInformationByPid[p]
      /\ pidsByTaskStruct'[StructOf[x]] = PidOf[x]
      /\ \A s \in Structs \ {StructOf[x]} : pidsByTaskStruct'[s] = pidsByTaskStruct[s]
  BY <1>1 DEF TypeOK
<1>3. RecordsByPid'
  BY <1>2 DEF TablesRight, RecordsByPid
<1>4. \A z \in Tasks : guest'[z] = "live" <=> z = x \/ guest[z] = "live"
  BY DEF TypeOK
<1>5. AddressesKnown'
  BY <1>1, <1>2, <1>4 DEF TablesRight, AddressesKnown
<1>6. HarmIsLocal'
  <2> SUFFICES ASSUME NEW z \in Tasks, guest'[z] = "live", \A y \in missed \cup kept : PidOf[y] # PidOf[z]
               PROVE  /\ processInformationByPid'[PidOf[z]] = [task |-> z, image |-> image'[z]]
                      /\ pidsByTaskStruct'[StructOf[z]] = PidOf[z]
    BY DEF HarmIsLocal
  <2>1. CASE z = x
    BY <1>2, <2>1
  <2>2. CASE z # x
    <3>1. guest[z] = "live" /\ PidOf[z] # PidOf[x] /\ StructOf[z] # StructOf[x]
      BY <1>4, <2>2
    <3> QED BY <1>1, <1>2, <2>2, <3>1, LiveKnown
  <2> QED BY <2>1, <2>2
<1>7. NoEntryLeaks'
  <2>1. ASSUME NEW p \in Pids, processInformationByPid'[p].task # None,
               guest'[processInformationByPid'[p].task] # "live"
        PROVE  processInformationByPid'[p].task \in missed \cup kept
    <3>1. p # PidOf[x]
      BY <1>2, <1>4, <2>1
    <3>2. processInformationByPid'[p] = processInformationByPid[p]
      BY <1>2, <3>1
    <3>3. processInformationByPid[p].task \in Tasks
      BY <2>1, <3>2, RecordFields DEF TypeOK
    <3> QED BY <1>4, <2>1, <3>2, <3>3 DEF TablesRight, NoEntryLeaks
  <2>2. ASSUME NEW s \in Structs, pidsByTaskStruct'[s] # None
        PROVE  \E y \in Tasks : /\ PidOf[y] = pidsByTaskStruct'[s]
                                /\ y \in missed \cup kept \/ (StructOf[y] = s /\ guest'[y] = "live")
    <3>1. CASE s = StructOf[x]
      BY <1>2, <1>4, <3>1
    <3>2. CASE s # StructOf[x]
      BY <1>2, <1>4, <2>2, <3>2 DEF TablesRight, NoEntryLeaks
    <3> QED BY <3>1, <3>2
  <2> QED BY <2>1, <2>2 DEF NoEntryLeaks
<1> QED BY <1>3, <1>5, <1>6, <1>7 DEF TablesRight

\* removeActiveProcess of a task that was found and that is not live, or is spoilt, from now on.
LEMMA TablesRemoved ==
  ASSUME TypeOK, NamesUnique, TablesRight, attached = "yes", attached' = "yes",
         NEW x \in Tasks, guest[x] = "live", Reported(x) # NoRecord, RemoveActiveProcess(x),
         missed \subseteq missed', kept' = kept,
         \A z \in Tasks : z # x => image'[z] = image[z] /\ (guest'[z] = "live" <=> guest[z] = "live"),
         guest'[x] # "live" \/ x \in missed', missed' \subseteq Tasks, kept' \subseteq Tasks
  PROVE  TablesRight'
<1> USE DEF RemoveActiveProcess
<1> DEFINE q == pidsByTaskStruct[StructOf[x]]
<1>1. /\ StructOf[x] \in Structs
      /\ \A z \in Tasks : PidOf[z] \in Pids /\ StructOf[z] \in Structs
      /\ None \notin Pids
  BY TasksAssumption DEF Pids, Structs
<1>2. q # None /\ processInformationByPid[q] # NoRecord /\ q \in Pids
  BY <1>1 DEF Reported, ProcessInformationByBase, TypeOK
<1>3. /\ processInformationByPid'[q] = NoRecord
      /\ \A p \in Pids \ {q} : processInformationByPid'[p] = processInformationByPid[p]
      /\ pidsByTaskStruct'[StructOf[x]] = None
      /\ \A s \in Structs \ {StructOf[x]} : pidsByTaskStruct'[s] = pidsByTaskStruct[s]
  BY <1>1, <1>2 DEF TypeOK
<1>4. q = PidOf[x] \/ \E y \in missed' \cup kept' : y \in Tasks /\ PidOf[y] = q
  BY <1>2, FoundAtAddress
<1>5. RecordsByPid'
  BY <1>3 DEF TablesRight, RecordsByPid, NoRecord
<1>6. \A z \in Tasks : z # x /\ guest[z] = "live" => PidOf[z] # PidOf[x] /\ StructOf[z] # StructOf[x]
  BY DEF NamesUnique, Present
<1>7. AddressesKnown'
  BY <1>1, <1>3, <1>6 DEF TablesRight, AddressesKnown
<1>8. HarmIsLocal'
  <2> SUFFICES ASSUME NEW z \in Tasks, guest'[z] = "live", \A y \in missed' \cup kept' : PidOf[y] # PidOf[z]
               PROVE  /\ processInformationByPid'[PidOf[z]] = [task |-> z, image |-> image'[z]]
                      /\ pidsByTaskStruct'[StructOf[z]] = PidOf[z]
    BY DEF HarmIsLocal
  <2>1. z # x /\ guest[z] = "live" /\ image'[z] = image[z]
    OBVIOUS
  <2>2. PidOf[z] # q
    BY <1>4, <1>6, <2>1
  <2> QED BY <1>1, <1>3, <1>6, <2>1, <2>2, LiveKnown
<1>9. NoEntryLeaks'
  <2>1. ASSUME NEW p \in Pids, processInformationByPid'[p].task # None,
               guest'[processInformationByPid'[p].task] # "live"
        PROVE  processInformationByPid'[p].task \in missed' \cup kept'
    <3> DEFINE y == processInformationByPid[p].task
    <3>1. p # q /\ processInformationByPid'[p] = processInformationByPid[p]
      BY <1>3, <2>1 DEF NoRecord
    <3>2. y \in Tasks /\ PidOf[y] = p
      BY <2>1, <3>1, RecordFields DEF TypeOK, TablesRight, RecordsByPid
    <3>3. CASE y = x
      <4>1. x \in missed
        BY <3>1, <3>2, <3>3 DEF TablesRight, AddressesKnown
      <4> QED BY <3>1, <3>3, <4>1
    <3>4. CASE y # x
      BY <2>1, <3>1, <3>2, <3>4 DEF TablesRight, NoEntryLeaks
    <3> QED BY <3>3, <3>4
  <2>2. ASSUME NEW s \in Structs, pidsByTaskStruct'[s] # None
        PROVE  \E y \in Tasks : /\ PidOf[y] = pidsByTaskStruct'[s]
                                /\ y \in missed' \cup kept' \/ (StructOf[y] = s /\ guest'[y] = "live")
    <3>1. s # StructOf[x] /\ pidsByTaskStruct'[s] = pidsByTaskStruct[s]
      BY <1>3, <2>2
    <3>2. PICK y \in Tasks : /\ PidOf[y] = pidsByTaskStruct[s]
                             /\ y \in missed \cup kept \/ (StructOf[y] = s /\ guest[y] = "live")
      BY <2>2, <3>1 DEF TablesRight, NoEntryLeaks
    <3> QED BY <3>1, <3>2
  <2> QED BY <2>1, <2>2 DEF NoEntryLeaks
<1> QED BY <1>5, <1>7, <1>8, <1>9 DEF TablesRight

\* The two updates of an execution that is seen.
LEMMA TablesReplaced ==
  ASSUME TypeOK, NamesUnique, TablesRight, attached = "yes", attached' = "yes",
         NEW x \in Tasks, NEW i \in Images, guest[x] = "live", UNCHANGED <<guest, missed, kept>>,
         image' = [image EXCEPT ![x] = i], Reported(x) # NoRecord, ReplaceRecord(x, i)
  PROVE  TablesRight'
<1> USE DEF ReplaceRecord
<1> DEFINE q == pidsByTaskStruct[StructOf[x]]
<1>1. /\ StructOf[x] \in Structs
      /\ \A z \in Tasks : PidOf[z] \in Pids /\ StructOf[z] \in Structs
      /\ None \notin Pids
  BY TasksAssumption DEF Pids, Structs
<1>2. q # None /\ q \in Pids
  BY <1>1 DEF Reported, ProcessInformationByBase, TypeOK
<1>3. /\ processInformationByPid'[PidOf[x]] = [task |-> x, image |-> i]
      /\ \A p \in Pids \ {PidOf[x]} :
            processInformationByPid'[p] = IF p = q THEN NoRecord ELSE processInformationByPid[p]
      /\ pidsByTaskStruct'[StructOf[x]] = PidOf[x]
      /\ \A s \in Structs \ {StructOf[x]} : pidsByTaskStruct'[s] = pidsByTaskStruct[s]
  BY <1>1, <1>2 DEF TypeOK
<1>4. q = PidOf[x] \/ \E y \in missed \cup kept : y \in Tasks /\ PidOf[y] = q
  BY <1>2, FoundAtAddress
<1>5. RecordsByPid'
  BY <1>3 DEF TablesRight, RecordsByPid, NoRecord
<1>6. \A z \in Tasks : z # x /\ guest[z] = "live" => PidOf[z] # PidOf[x] /\ StructOf[z] # StructOf[x]
  BY DEF NamesUnique, Present
<1>7. AddressesKnown'
  BY <1>1, <1>3, <1>6 DEF TablesRight, AddressesKnown
<1>8. HarmIsLocal'
  <2> SUFFICES ASSUME NEW z \in Tasks, guest[z] = "live", \A y \in missed \cup kept : PidOf[y] # PidOf[z]
               PROVE  /\ processInformationByPid'[PidOf[z]] = [task |-> z, image |-> image'[z]]
                      /\ pidsByTaskStruct'[StructOf[z]] = PidOf[z]
    BY DEF HarmIsLocal
  <2>1. CASE z = x
    BY <1>3, <2>1 DEF TypeOK
  <2>2. CASE z # x
    <3>1. PidOf[z] # q /\ image'[z] = image[z]
      BY <1>4, <1>6, <2>2 DEF TypeOK
    <3> QED BY <1>1, <1>3, <1>6, <2>2, <3>1, LiveKnown
  <2> QED BY <2>1, <2>2
<1>9. NoEntryLeaks'
  <2>1. ASSUME NEW p \in Pids, processInformationByPid'[p].task # None,
               guest[processInformationByPid'[p].task] # "live"
        PROVE  processInformationByPid'[p].task \in missed \cup kept
    <3>1. p # PidOf[x]
      BY <1>3, <2>1
    <3>2. processInformationByPid'[p] = processInformationByPid[p]
      BY <1>3, <2>1, <3>1 DEF NoRecord
    <3> QED BY <2>1, <3>2 DEF TablesRight, NoEntryLeaks
  <2>2. ASSUME NEW s \in Structs, pidsByTaskStruct'[s] # None
        PROVE  \E y \in Tasks : /\ PidOf[y] = pidsByTaskStruct'[s]
                                /\ y \in missed \cup kept \/ (StructOf[y] = s /\ guest[y] = "live")
    <3>1. CASE s = StructOf[x]
      BY <1>3, <3>1
    <3>2. CASE s # StructOf[x]
      BY <1>3, <2>2, <3>2 DEF TablesRight, NoEntryLeaks
    <3> QED BY <3>1, <3>2
  <2> QED BY <2>1, <2>2 DEF NoEntryLeaks
<1> QED BY <1>5, <1>7, <1>8, <1>9 DEF TablesRight

\* The walk over the list of leaders
LEMMA TablesAttached ==
  ASSUME TypeOK, NamesUnique, Attach
  PROVE  TablesRight'
<1> USE DEF Attach, guestVars
<1>0. guest' = guest /\ image' = image /\ attached' = "yes"
  OBVIOUS
<1>1. \A x \in Tasks : PidOf[x] \in Pids /\ StructOf[x] \in Structs
  BY DEF Pids, Structs
<1>2. \A x, y \in Listed : x # y => PidOf[x] # PidOf[y] /\ StructOf[x] # StructOf[y]
  BY DEF Listed, NamesUnique
<1>3. ASSUME NEW x \in Listed
      PROVE  /\ processInformationByPid'[PidOf[x]] = RecordOf(x)
             /\ pidsByTaskStruct'[StructOf[x]] = PidOf[x]
  <2>1. (CHOOSE y \in Listed : PidOf[y] = PidOf[x]) = x
    BY <1>2
  <2>2. (CHOOSE y \in Listed : StructOf[y] = StructOf[x]) = x
    BY <1>2
  <2> QED BY <1>1, <2>1, <2>2 DEF Listed
<1>4. ASSUME NEW p \in Pids, processInformationByPid'[p].task # None
      PROVE  \E x \in Listed : PidOf[x] = p /\ processInformationByPid'[p] = RecordOf(x)
  BY <1>4 DEF NoRecord
<1>5. ASSUME NEW s \in Structs, pidsByTaskStruct'[s] # None
      PROVE  \E x \in Listed : StructOf[x] = s /\ pidsByTaskStruct'[s] = PidOf[x]
  BY <1>5
<1>6. \A x \in Tasks : guest[x] = "live" => x \in Listed \/ x \in missed'
  BY DEF Listed, Present
<1>7. \A x \in Listed : guest[x] = "live" \/ x \in kept'
  BY DEF Listed, Present
<1>8. RecordsByPid'
  <2> HIDE DEF Attach
  <2> SUFFICES ASSUME NEW p \in Pids, processInformationByPid'[p].task # None
               PROVE  PidOf[processInformationByPid'[p].task] = p
    BY DEF RecordsByPid
  <2>1. PICK x \in Listed : PidOf[x] = p /\ processInformationByPid'[p] = RecordOf(x)
    BY <1>4
  <2> QED BY <2>1 DEF RecordOf
<1>9. AddressesKnown'
  BY <1>3, <1>6 DEF AddressesKnown
<1>10. HarmIsLocal'
  <2> HIDE DEF Attach
  <2> SUFFICES ASSUME NEW x \in Tasks, guest[x] = "live", \A y \in missed' \cup kept' : PidOf[y] # PidOf[x]
               PROVE  /\ processInformationByPid'[PidOf[x]] = [task |-> x, image |-> image[x]]
                      /\ pidsByTaskStruct'[StructOf[x]] = PidOf[x]
    BY <1>0 DEF HarmIsLocal
  <2>1. x \in Listed
    BY <1>6
  <2>2. /\ processInformationByPid'[PidOf[x]] = RecordOf(x)
        /\ pidsByTaskStruct'[StructOf[x]] = PidOf[x]
    BY <1>3, <2>1
  <2>3. RecordOf(x) = [task |-> x, image |-> image[x]]
    BY DEF RecordOf
  <2> QED BY <2>2, <2>3
<1>11. NoEntryLeaks'
  <2>1. ASSUME NEW p \in Pids, processInformationByPid'[p].task # None,
               guest[processInformationByPid'[p].task] # "live"
        PROVE  processInformationByPid'[p].task \in missed' \cup kept'
    <3> HIDE DEF Attach
    <3>1. PICK x \in Listed : processInformationByPid'[p] = RecordOf(x)
      BY <1>4, <2>1
    <3>2. processInformationByPid'[p].task = x
      BY <3>1 DEF RecordOf
    <3> QED BY <1>7, <2>1, <3>2
  <2>2. ASSUME NEW s \in Structs, pidsByTaskStruct'[s] # None
        PROVE  \E y \in Tasks : /\ PidOf[y] = pidsByTaskStruct'[s]
                                /\ y \in missed' \cup kept' \/ (StructOf[y] = s /\ guest[y] = "live")
    <3> HIDE DEF Attach
    <3>1. PICK x \in Listed : StructOf[x] = s /\ pidsByTaskStruct'[s] = PidOf[x]
      BY <1>5, <2>2
    <3>2. x \in Tasks
      BY DEF Listed
    <3> QED BY <1>7, <3>1, <3>2
  <2> HIDE DEF Attach
  <2> QED BY <1>0, <2>1, <2>2 DEF NoEntryLeaks
<1> QED BY <1>8, <1>9, <1>10, <1>11 DEF TablesRight

-----------------------------------------------------------------------------
\* The invariant of the tracked tasks, in every step
LEMMA NextTracked == Tracked /\ [Next]_vars => Tracked'
<1> SUFFICES ASSUME TypeOK, NamesUnique, TablesRight, [Next]_vars PROVE TablesRight'
  BY TypesKept, NamesKept DEF Tracked, TablesRight
<1>0. TypeOK' /\ NamesUnique'
  BY TypesKept, NamesKept
<1>1. ASSUME attached # "yes", attached' # "yes", RecordsByPid' PROVE TablesRight'
  BY <1>1 DEF TablesRight, AddressesKnown, HarmIsLocal, NoEntryLeaks
<1>2. ASSUME UNCHANGED tables PROVE RecordsByPid'
  BY <1>2 DEF TablesRight, RecordsByPid, tables
<1>3. ASSUME NEW y \in Tasks, NEW x \in Tasks, GuestForks(y, x) PROVE
        /\ guest[x] # "live" /\ guest' = [guest EXCEPT ![x] = "live"]
        /\ image'[x] = image[y] /\ \A z \in Tasks : z # x => image'[z] = image[z]
        /\ \A z \in Tasks : guest[z] = "live" => StructOf[z] # StructOf[x] /\ PidOf[z] # PidOf[x]
        /\ \A z \in Tasks : guest'[z] = "live" <=> z = x \/ guest[z] = "live"
  BY <1>3 DEF GuestForks, TypeOK, Present
<1>4. ASSUME NEW y \in Tasks, NEW x \in Tasks, ForkUnseen(y, x) \/ ForkNotRecorded(y, x) PROVE TablesRight'
  <2>1. GuestForks(y, x) /\ UNCHANGED <<attached, tables, kept>>
    BY <1>4 DEF ForkUnseen, ForkNotRecorded, NotReported
  <2>2. CASE attached = "yes"
    <3>1. missed' = missed \cup {x}
      BY <1>4, <2>2 DEF ForkUnseen, ForkNotRecorded, NotReported
    <3> QED BY <1>0, <1>3, <2>1, <2>2, <3>1, TablesKept
  <2> QED BY <1>1, <1>2, <2>1, <2>2
<1>5. ASSUME NEW y \in Tasks, NEW x \in Tasks, ForkSeen(y, x) PROVE TablesRight'
  <2>1. GuestForks(y, x) /\ AddNewProcess(x, image[y]) /\ attached = "yes" /\ UNCHANGED <<attached, missed, kept>>
    BY <1>5 DEF ForkSeen
  <2>2. AddNewProcess(x, image'[x])
    BY <1>3, <2>1
  <2> QED BY <1>0, <1>3, <2>1, <2>2, TablesAdded
<1>6. ASSUME NEW x \in Tasks, NEW i \in Images, ExecuteUnseen(x, i) \/ ExecuteInVain(x, i) PROVE TablesRight'
  <2>1. GuestExecutes(x, i) /\ UNCHANGED <<attached, tables, kept>>
    BY <1>6 DEF ExecuteUnseen, ExecuteInVain, NotReported
  <2>2. CASE attached = "yes"
    <3>1. missed' = missed \cup {x}
      BY <1>6, <2>2 DEF ExecuteUnseen, ExecuteInVain, NotReported
    <3>2. UNCHANGED guest /\ \A z \in Tasks : z # x => image'[z] = image[z]
      BY <2>1 DEF GuestExecutes, TypeOK
    <3> QED BY <1>0, <2>1, <2>2, <3>1, <3>2, TablesKept
  <2> QED BY <1>1, <1>2, <2>1, <2>2
<1>7. ASSUME NEW x \in Tasks, NEW i \in Images, ExecuteSeen(x, i) PROVE TablesRight'
  BY <1>7, TablesReplaced DEF ExecuteSeen, GuestExecutes
<1>8. ASSUME NEW x \in Tasks, NEW i \in Images, ExecuteNotRecorded(x, i) PROVE TablesRight'
  <2>1. \A z \in Tasks : z # x => image'[z] = image[z] /\ guest'[z] = guest[z]
    BY <1>8 DEF ExecuteNotRecorded, GuestExecutes, TypeOK
  <2>2. missed' \subseteq Tasks /\ kept' \subseteq Tasks
    BY <1>0 DEF TypeOK
  <2> QED BY <1>8, <2>1, <2>2, TablesRemoved DEF ExecuteNotRecorded, GuestExecutes
<1>9. ASSUME NEW x \in Tasks, GuestExits(x) PROVE
        /\ guest[x] = "live" /\ guest'[x] # "live" /\ UNCHANGED image
        /\ \A z \in Tasks : z # x => guest'[z] = guest[z]
  BY <1>9 DEF GuestExits, TypeOK
<1>10. ASSUME NEW x \in Tasks, ExitUnseen(x) \/ ExitThrows(x) \/ ExitOfUnknown(x) PROVE TablesRight'
  <2>1. GuestExits(x) /\ UNCHANGED <<attached, tables>>
    BY <1>10 DEF ExitUnseen, ExitThrows, ExitOfUnknown, NotReported
  <2>2. CASE attached = "yes"
    <3>1. /\ missed \subseteq missed' /\ kept \subseteq kept'
          /\ x \in missed' \cup kept' \/ Reported(x) = NoRecord
      BY <1>10, <2>2 DEF ExitUnseen, ExitThrows, ExitOfUnknown, NotReported
    <3> QED BY <1>0, <1>9, <2>1, <2>2, <3>1, TablesKept
  <2> QED BY <1>1, <1>2, <2>1, <2>2
<1>11. ASSUME NEW x \in Tasks, ExitSeen(x) PROVE TablesRight'
  <2>1. GuestExits(x) /\ missed' = missed /\ kept' = kept
    BY <1>11 DEF ExitSeen
  <2>2. missed' \subseteq Tasks /\ kept' \subseteq Tasks
    BY <1>0 DEF TypeOK
  <2> QED BY <1>9, <1>11, <2>1, <2>2, TablesRemoved DEF ExitSeen
<1>12. ASSUME NEW x \in Tasks, Reap(x) PROVE TablesRight'
  <2>1. /\ UNCHANGED <<image, attached, tables, missed, kept>>
        /\ \A z \in Tasks : guest'[z] = "live" <=> guest[z] = "live"
    BY <1>12 DEF Reap, TypeOK
  <2>2. CASE attached = "yes"
    BY <1>0, <2>1, <2>2, TablesKept
  <2> QED BY <1>1, <1>2, <2>1, <2>2
<1>13. CASE Attach
  BY <1>13, TablesAttached
<1>14. CASE AttachFails \/ Detach
  BY <1>1, <1>2, <1>14 DEF AttachFails, Detach, TablesRight, AddressesKnown, HarmIsLocal, NoEntryLeaks
<1>15. CASE UNCHANGED vars
  <2>1. CASE attached = "yes"
    BY <1>0, <1>15, <2>1, TablesKept DEF vars, tables
  <2> QED BY <1>1, <1>2, <1>15, <2>1 DEF vars, tables
<1> QED BY <1>4, <1>5, <1>6, <1>7, <1>8, <1>10, <1>11, <1>12, <1>13, <1>14, <1>15 DEF Next

\* Both tables of the Linux process tracking, over any sequence of forks, executions and exits, seen
\* or missed.
LEMMA AlwaysTracked == Spec => []Tracked
BY InitTracked, NextTracked, PTL DEF Spec

\* Type correctness of the tracking of tasks
THEOREM LinuxTypes == Spec => []TypeOK
BY AlwaysTracked, PTL DEF Tracked

\* A missed report does harm only to tasks with the same pid.
THEOREM HarmOfAMissedReport == Spec => []HarmIsLocal
BY AlwaysTracked, PTL DEF Tracked

\* What is left in the tables is left by tasks of which a report was missed, or kept for a known reason.
THEOREM WhatIsLeftBehind == Spec => []NoEntryLeaks
BY AlwaysTracked, PTL DEF Tracked
=============================================================================
