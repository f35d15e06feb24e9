-------------------------- MODULE ApiTracing_proofs --------------------------
(***************************************************************************)
(* Proofs about ActiveProcessesSupervisor, and about ApiTracing, which     *)
(* composes the tracer with it, for any processes, pids, addresses,        *)
(* profiles and parents.                                                   *)
(***************************************************************************)
EXTENDS ApiTracing, TLAPS

-----------------------------------------------------------------------------
(* How VMICore follows the processes (ActiveProcessesSupervisor) *)

\* Every variable keeps its type.
LEMMA PsTyping == PsSpec => []PsTypeOK
<1> USE ProcessAssumption DEF ProcessAssumption
<1>1. PsInit => PsTypeOK
  BY DEF PsInit, PsTypeOK, GuestStates
<1>2. PsTypeOK /\ [PsNext]_psVars => PsTypeOK'
  <2> SUFFICES ASSUME PsTypeOK, [PsNext]_psVars PROVE PsTypeOK'
    OBVIOUS
  <2>0. \A x \in Processes : PidOf[x] \in Pids /\ BaseOf[x] \in Bases
    BY DEF Pids, Bases
  <2> USE DEF PsTypeOK, GuestStates, GuestStep, tables
  <2>1. ASSUME NEW x \in Processes, Unseen(x) PROVE PsTypeOK'
    BY <2>1 DEF Unseen, Insert, SetExitStatus, Delete, StartUnseen, TerminateUnseen
  <2>2. ASSUME NEW x \in Processes, StartSeen(x) PROVE PsTypeOK'
    BY <2>0, <2>2 DEF StartSeen, AddNewProcess
  <2>3. ASSUME NEW x \in Processes, StartNotRecorded(x) PROVE PsTypeOK'
    BY <2>3 DEF StartNotRecorded
  <2>4. ASSUME NEW x \in Processes, TerminationSeen(x) PROVE PsTypeOK'
    BY <2>0, <2>4 DEF TerminationSeen, RemoveActiveProcess
  <2>5. ASSUME NEW x \in Processes, TerminationThrows(x) \/ TerminationOfUnknown(x)
        PROVE PsTypeOK'
    BY <2>5 DEF TerminationThrows, TerminationOfUnknown
  <2>6. CASE Attach
    <3>1. processInformationByPid' \in [Pids -> Processes \cup {None}]
      BY <2>6 DEF Attach
    <3>2. pidsByEprocessBase' \in [Bases -> Pids \cup {None}]
      BY <2>0, <2>6 DEF Attach
    <3>3. QED BY <2>6, <3>1, <3>2 DEF Attach
  <2>7. CASE Detach \/ UNCHANGED psVars
    BY <2>7 DEF Detach, psVars
  <2>8. QED BY <2>1, <2>2, <2>3, <2>4, <2>5, <2>6, <2>7 DEF PsNext
<1>3. QED BY <1>1, <1>2, PTL DEF PsSpec

-----------------------------------------------------------------------------
\* The guest gives a pid and an address to one process at a time.
Distinct ==
    \A x, y \in Processes :
        InList(x) /\ InList(y) /\ x # y => PidOf[x] # PidOf[y] /\ BaseOf[x] # BaseOf[y]

\* The pids and addresses of the processes in the guest's list are distinct, in every state.
LEMMA ListedDistinct == PsSpec => []Distinct
<1>1. PsInit => Distinct
  BY DEF PsInit, Distinct, InList
<1>2. PsTypeOK /\ Distinct /\ [PsNext]_psVars => Distinct'
  <2> SUFFICES ASSUME PsTypeOK, Distinct, [PsNext]_psVars PROVE Distinct'
    OBVIOUS
  <2>1. ASSUME NEW x \in Processes, Insert(x) PROVE Distinct'
    <3> SUFFICES ASSUME NEW y \in Processes, NEW z \in Processes,
                        InList(y)', InList(z)', y # z
                 PROVE PidOf[y] # PidOf[z] /\ BaseOf[y] # BaseOf[z]
      BY DEF Distinct
    <3>1. \A u \in Processes \ {x} : guest'[u] = guest[u]
      BY <2>1 DEF Insert, GuestStep, PsTypeOK
    <3>2. CASE y # x /\ z # x
      BY <3>1, <3>2 DEF InList, Distinct
    <3>3. CASE y = x
      BY <2>1, <3>1, <3>3 DEF Insert, InList
    <3>4. CASE z = x
      BY <2>1, <3>1, <3>4 DEF Insert, InList
    <3>5. QED BY <3>2, <3>3, <3>4
  <2>2. ASSUME \A y \in Processes : InList(y)' => InList(y) PROVE Distinct'
    BY <2>2 DEF Distinct
  <2>3. ASSUME NEW x \in Processes, NEW from \in {"inserted", "running", "exiting", "terminated"},
               NEW to, GuestStep(x, from, to)
        PROVE Distinct'
    <3>1. \A y \in Processes : InList(y)' => InList(y)
      BY <2>3 DEF GuestStep, InList, PsTypeOK
    <3>2. QED BY <2>2, <3>1
  <2>4. CASE Attach \/ Detach \/ UNCHANGED psVars
    <3>1. guest' = guest
      BY <2>4 DEF Attach, Detach, psVars
    <3>2. QED BY <2>2, <3>1 DEF InList
  <2>5. QED
    BY <2>1, <2>3, <2>4 DEF PsNext, Unseen, SetExitStatus, Delete, StartUnseen, TerminateUnseen,
       StartSeen, StartNotRecorded, TerminationSeen, TerminationThrows, TerminationOfUnknown
<1>3. QED BY <1>1, <1>2, PsTyping, PTL DEF PsSpec

-----------------------------------------------------------------------------
(***************************************************************************)
(* The tables.  A record is found under the pid of its process.  An        *)
(* address that leads to the pid of the process that lives there leads to  *)
(* its record, unless an entry with that pid was left behind.  As long as  *)
(* every start could be recorded, every live process has its record.       *)
(***************************************************************************)
Present(x) == guest[x] \in {"inserted", "running", "exiting"}

RecordsByPid ==
    \A p \in Pids : processInformationByPid[p] # None => PidOf[processInformationByPid[p]] = p

BasesLead ==
    \A x \in Processes \ unknown : Live(x) => pidsByEprocessBase[BaseOf[x]] = PidOf[x]

BasesAgree ==
    \A x \in Processes : Present(x) /\ pidsByEprocessBase[BaseOf[x]] = PidOf[x] =>
        processInformationByPid[PidOf[x]] = x \/ \E y \in kept : PidOf[y] = PidOf[x]

RecordsAgree ==
    \A x \in Processes : processInformationByPid[PidOf[x]] = x =>
        /\ guest[x] # "none"
        /\ Present(x) => pidsByEprocessBase[BaseOf[x]] = PidOf[x]
        /\ ~Present(x) => x \in kept

BasesOwned ==
    \A b \in Bases : pidsByEprocessBase[b] # None =>
        \E y \in Processes : PidOf[y] = pidsByEprocessBase[b]
                             /\ (y \in kept \/ (BaseOf[y] = b /\ Present(y)))

AllRecorded ==
    unknown = {} => \A x \in Processes : Live(x) => processInformationByPid[PidOf[x]] = x

Tracked ==
    /\ RecordsByPid
    /\ attached = "no" => unknown = {}
    /\ attached = "yes" => BasesLead /\ BasesAgree /\ RecordsAgree /\ BasesOwned /\ AllRecorded

\* A process has a pid and a base address, and is not None.
LEMMA Named == \A x \in Processes : PidOf[x] \in Pids /\ BaseOf[x] \in Bases /\ PidOf[x] # None /\ x # None
  BY ProcessAssumption DEF Pids, Bases, ProcessAssumption

\* Only the guest changes, or a process becomes unknown.
LEMMA GuestKeepsTracked ==
    ASSUME PsTypeOK, Distinct, Tracked, NEW x \in Processes, Unseen(x) \/ StartNotRecorded(x)
    PROVE  Tracked'
<1>1. UNCHANGED <<attached, tables, kept>>
  BY DEF Unseen, Insert, SetExitStatus, Delete, StartUnseen, TerminateUnseen, StartNotRecorded
<1>2. RecordsByPid' /\ (attached' = "no" => unknown' = {})
  BY <1>1 DEF Unseen, Insert, SetExitStatus, Delete, StartUnseen, TerminateUnseen, StartNotRecorded,
     Tracked, RecordsByPid, tables
<1>3. SUFFICES ASSUME attached = "yes"
               PROVE  (BasesLead /\ BasesAgree /\ RecordsAgree /\ BasesOwned /\ AllRecorded)'
  BY <1>1, <1>2 DEF Tracked
<1>4. \A y \in Processes \ {x} : guest'[y] = guest[y]
  BY DEF Unseen, Insert, SetExitStatus, Delete, StartUnseen, TerminateUnseen, StartNotRecorded,
     GuestStep, PsTypeOK
<1>5. \/ /\ Insert(x) /\ guest[x] = "none" /\ guest'[x] = "inserted"
      \/ /\ Present(x) /\ Present(x)' /\ Live(x) /\ Live(x)' /\ unknown' = unknown
      \/ /\ Present(x) /\ Present(x)' /\ x \in unknown'
      \/ /\ ~Present(x) /\ ~Present(x)' /\ guest[x] # "none" /\ guest'[x] # "none"
  BY <1>3 DEF Unseen, Insert, SetExitStatus, Delete, StartUnseen, TerminateUnseen, StartNotRecorded,
     GuestStep, PsTypeOK, Present, Live
<1>6. unknown \subseteq unknown'
  BY DEF Unseen, Insert, SetExitStatus, Delete, StartUnseen, TerminateUnseen, StartNotRecorded
<1>7. BasesLead /\ BasesAgree /\ RecordsAgree /\ BasesOwned /\ AllRecorded
  BY <1>3 DEF Tracked
<1>8. Live(x)' => Live(x) \/ x \in unknown'
  BY <1>5 DEF Live, Present
<1>9. BasesLead'
  BY <1>1, <1>4, <1>6, <1>7, <1>8 DEF BasesLead, Live, tables
<1>10. AllRecorded'
  BY <1>1, <1>4, <1>6, <1>7, <1>8 DEF AllRecorded, Live, tables
<1>11. BasesOwned'
  BY <1>1, <1>4, <1>5, <1>7 DEF BasesOwned, Present, tables
<1>12. RecordsAgree'
  BY <1>1, <1>4, <1>5, <1>7 DEF RecordsAgree, Present, tables
<1>13. BasesAgree'
  <2> SUFFICES ASSUME NEW z \in Processes, Present(z)', pidsByEprocessBase'[BaseOf[z]] = PidOf[z]
               PROVE  processInformationByPid'[PidOf[z]] = z \/ \E y \in kept' : PidOf[y] = PidOf[z]
    BY DEF BasesAgree
  <2>1. CASE Present(z)
    BY <1>1, <1>7, <2>1 DEF BasesAgree, tables
  <2>2. CASE ~Present(z)
    <3>1. z = x /\ Insert(x)
      BY <1>4, <1>5, <2>2 DEF Present
    <3>2. PICK y \in Processes : /\ PidOf[y] = PidOf[z]
                                 /\ y \in kept \/ (BaseOf[y] = BaseOf[z] /\ Present(y))
      BY <1>1, <1>7, Named DEF BasesOwned, tables
    <3>3. ~(BaseOf[y] = BaseOf[z] /\ Present(y))
      BY <3>1 DEF Insert, InList, Present
    <3>4. QED BY <1>1, <3>2, <3>3
  <2>3. QED BY <2>1, <2>2
<1>14. QED BY <1>9, <1>10, <1>11, <1>12, <1>13

\* A process is recorded: nobody else in the guest's list has its pid or its address.
LEMMA StartKeepsTracked ==
    ASSUME PsTypeOK, Distinct, Tracked, NEW x \in Processes, StartSeen(x)
    PROVE  Tracked'
<1>1. /\ attached = "yes" /\ UNCHANGED <<attached, unknown, kept>>
      /\ guest[x] = "inserted" /\ guest' = [guest EXCEPT ![x] = "running"]
      /\ processInformationByPid' = [processInformationByPid EXCEPT ![PidOf[x]] = x]
      /\ pidsByEprocessBase' = [pidsByEprocessBase EXCEPT ![BaseOf[x]] = PidOf[x]]
  BY DEF StartSeen, GuestStep, AddNewProcess
<1>2. \A y \in Processes : Present(y)' <=> Present(y)
  BY <1>1 DEF Present, PsTypeOK
<1>3. \A y \in Processes \ {x} : /\ Present(y) => PidOf[y] # PidOf[x] /\ BaseOf[y] # BaseOf[x]
                                 /\ Live(y)' <=> Live(y)
                                 /\ guest'[y] = guest[y]
  BY <1>1 DEF Distinct, InList, Present, Live, PsTypeOK
<1>4. /\ Present(x) /\ processInformationByPid'[PidOf[x]] = x
      /\ pidsByEprocessBase'[BaseOf[x]] = PidOf[x]
      /\ guest'[x] = "running"
  BY <1>1, Named DEF Present, PsTypeOK
<1>5. /\ \A p \in Pids \ {PidOf[x]} : processInformationByPid'[p] = processInformationByPid[p]
      /\ \A b \in Bases \ {BaseOf[x]} : pidsByEprocessBase'[b] = pidsByEprocessBase[b]
  BY <1>1 DEF PsTypeOK
<1>6. RecordsByPid /\ BasesLead /\ BasesAgree /\ RecordsAgree /\ BasesOwned /\ AllRecorded
  BY <1>1 DEF Tracked
<1>7. RecordsByPid'
  BY <1>4, <1>5, <1>6 DEF RecordsByPid
<1>8. BasesLead' /\ AllRecorded'
  <2>1. \A y \in Processes \ {x} : Live(y) => Present(y)
    BY DEF Live, Present
  <2>2. QED BY <1>1, <1>3, <1>4, <1>5, <1>6, <2>1, Named DEF BasesLead, AllRecorded
<1>9. BasesAgree'
  BY <1>1, <1>2, <1>3, <1>4, <1>5, <1>6, Named DEF BasesAgree
<1>10. RecordsAgree'
  <2> SUFFICES ASSUME NEW y \in Processes, processInformationByPid'[PidOf[y]] = y
               PROVE  /\ guest'[y] # "none"
                      /\ Present(y)' => pidsByEprocessBase'[BaseOf[y]] = PidOf[y]
                      /\ ~Present(y)' => y \in kept'
    BY DEF RecordsAgree
  <2>1. CASE y = x
    BY <1>2, <1>4, <2>1
  <2>2. CASE y # x
    <3>1. PidOf[y] # PidOf[x]
      BY <1>4, <2>2
    <3>2. processInformationByPid[PidOf[y]] = y
      BY <1>5, <3>1, Named
    <3>3. QED BY <1>1, <1>2, <1>3, <1>5, <1>6, <2>2, <3>2, Named DEF RecordsAgree
  <2>3. QED BY <2>1, <2>2
<1>11. BasesOwned'
  <2> SUFFICES ASSUME NEW b \in Bases, pidsByEprocessBase'[b] # None
               PROVE  \E y \in Processes : /\ PidOf[y] = pidsByEprocessBase'[b]
                                           /\ y \in kept' \/ (BaseOf[y] = b /\ Present(y)')
    BY DEF BasesOwned
  <2>1. CASE b = BaseOf[x]
    BY <1>2, <1>4, <2>1
  <2>2. CASE b # BaseOf[x]
    BY <1>1, <1>2, <1>5, <1>6, <2>2 DEF BasesOwned
  <2>3. QED BY <2>1, <2>2
<1>12. QED BY <1>1, <1>7, <1>8, <1>9, <1>10, <1>11 DEF Tracked

\* What the end of x takes from the tables: the entry of its address, and the record that this leads
\* to, which is that of a live process only if its pid was left behind by one of kept.
LEMMA TerminationKeepsTracked ==
    ASSUME PsTypeOK, Distinct, Tracked, NEW x \in Processes, TerminationSeen(x)
    PROVE  Tracked'
<1> DEFINE q == pidsByEprocessBase[BaseOf[x]]
<1>1. /\ attached = "yes" /\ UNCHANGED <<attached, unknown, kept>>
      /\ guest[x] = "exiting" /\ guest' = [guest EXCEPT ![x] = "terminated"]
      /\ processInformationByPid' =
            [p \in Pids |-> IF p = q THEN None ELSE processInformationByPid[p]]
      /\ pidsByEprocessBase' = [pidsByEprocessBase EXCEPT ![BaseOf[x]] = None]
  BY DEF TerminationSeen, GuestStep, RemoveActiveProcess
<1>2. /\ Live(x) /\ Present(x) /\ ~Present(x)' /\ ~Live(x)' /\ guest'[x] # "none"
      /\ \A y \in Processes \ {x} : /\ guest'[y] = guest[y]
                                    /\ Present(y)' <=> Present(y)
                                    /\ Live(y)' <=> Live(y)
                                    /\ Present(y) => PidOf[y] # PidOf[x] /\ BaseOf[y] # BaseOf[x]
                                    /\ Live(y) => Present(y)
  BY <1>1 DEF Distinct, InList, Present, Live, PsTypeOK
<1>3. q # None
  BY DEF TerminationSeen, Reported, ProcessInformationByBase
<1>4. /\ \A p \in Pids : processInformationByPid'[p] =
              IF p = q THEN None ELSE processInformationByPid[p]
      /\ \A b \in Bases : pidsByEprocessBase'[b] =
              IF b = BaseOf[x] THEN None ELSE pidsByEprocessBase[b]
  BY <1>1 DEF PsTypeOK
<1>5. RecordsByPid /\ BasesLead /\ BasesAgree /\ RecordsAgree /\ BasesOwned /\ AllRecorded
  BY <1>1 DEF Tracked
<1>6. q = PidOf[x] \/ \E y \in kept : PidOf[y] = q
  BY <1>2, <1>3, <1>5, Named DEF BasesOwned
<1>7. x \notin unknown => q = PidOf[x]
  BY <1>2, <1>5 DEF BasesLead
<1> HIDE DEF q
<1>8. RecordsByPid'
  BY <1>4, <1>5 DEF RecordsByPid
<1>9. BasesLead'
  BY <1>1, <1>2, <1>4, <1>5, Named DEF BasesLead
<1>10. AllRecorded'
  BY <1>1, <1>2, <1>4, <1>5, <1>7, Named DEF AllRecorded
<1>11. BasesAgree'
  BY <1>1, <1>2, <1>4, <1>5, <1>6, Named DEF BasesAgree
<1>12. RecordsAgree'
  <2> SUFFICES ASSUME NEW y \in Processes, processInformationByPid'[PidOf[y]] = y
               PROVE  /\ guest'[y] # "none"
                      /\ Present(y)' => pidsByEprocessBase'[BaseOf[y]] = PidOf[y]
                      /\ ~Present(y)' => y \in kept'
    BY DEF RecordsAgree
  <2>1. PidOf[y] # q /\ processInformationByPid[PidOf[y]] = y
    BY <1>4, Named
  <2>2. y # x
    BY <1>2, <1>5, <2>1 DEF RecordsAgree, q
  <2>3. QED BY <1>1, <1>2, <1>4, <1>5, <2>1, <2>2, Named DEF RecordsAgree
<1>13. BasesOwned'
  BY <1>1, <1>2, <1>4, <1>5 DEF BasesOwned
<1>14. QED BY <1>1, <1>8, <1>9, <1>10, <1>11, <1>12, <1>13 DEF Tracked

\* The tables keep what they have about x.
LEMMA LostTerminationKeepsTracked ==
    ASSUME PsTypeOK, Distinct, Tracked, NEW x \in Processes,
           TerminationThrows(x) \/ TerminationOfUnknown(x)
    PROVE  Tracked'
<1>1. /\ attached = "yes" /\ UNCHANGED <<attached, unknown, tables>>
      /\ guest[x] = "exiting" /\ guest' = [guest EXCEPT ![x] = "terminated"]
      /\ kept \subseteq kept'
  BY DEF TerminationThrows, TerminationOfUnknown, GuestStep
<1>2. /\ Live(x) /\ Present(x) /\ ~Present(x)' /\ ~Live(x)' /\ guest'[x] # "none"
      /\ \A y \in Processes \ {x} : /\ guest'[y] = guest[y]
                                    /\ Present(y)' <=> Present(y)
                                    /\ Live(y)' <=> Live(y)
  BY <1>1 DEF Present, Live, PsTypeOK
<1>3. RecordsByPid /\ BasesLead /\ BasesAgree /\ RecordsAgree /\ BasesOwned /\ AllRecorded
  BY <1>1 DEF Tracked
<1>4. processInformationByPid[PidOf[x]] = x => x \in kept'
  <2>1. CASE TerminationThrows(x)
    BY <2>1 DEF TerminationThrows
  <2>2. ASSUME TerminationOfUnknown(x), processInformationByPid[PidOf[x]] = x PROVE FALSE
    <3>1. pidsByEprocessBase[BaseOf[x]] = PidOf[x]
      BY <1>2, <1>3, <2>2 DEF RecordsAgree
    <3>2. QED BY <2>2, <3>1, Named DEF TerminationOfUnknown, Reported, ProcessInformationByBase
  <2>3. QED BY <2>1, <2>2
<1>5. ASSUME pidsByEprocessBase[BaseOf[x]] = PidOf[x]
      PROVE  \E y \in Processes : PidOf[y] = PidOf[x] /\ y \in kept'
  <2>1. CASE TerminationThrows(x)
    BY <2>1 DEF TerminationThrows
  <2>2. CASE TerminationOfUnknown(x)
    <3>1. processInformationByPid[PidOf[x]] = None
      BY <1>5, <2>2, Named DEF TerminationOfUnknown, Reported, ProcessInformationByBase
    <3>2. PICK y \in kept : PidOf[y] = PidOf[x]
      BY <1>2, <1>3, <1>5, <3>1, Named DEF BasesAgree
    <3>3. QED BY <1>1, <3>2 DEF PsTypeOK
  <2>3. QED BY <2>1, <2>2
<1>6. RecordsByPid' /\ BasesLead' /\ AllRecorded'
  BY <1>1, <1>2, <1>3 DEF RecordsByPid, BasesLead, AllRecorded, tables
<1>7. BasesAgree'
  BY <1>1, <1>2, <1>3 DEF BasesAgree, tables
<1>8. RecordsAgree'
  BY <1>1, <1>2, <1>3, <1>4 DEF RecordsAgree, tables
<1>9. BasesOwned'
  <2> SUFFICES ASSUME NEW b \in Bases, pidsByEprocessBase[b] # None
               PROVE  \E y \in Processes : /\ PidOf[y] = pidsByEprocessBase[b]
                                           /\ y \in kept' \/ (BaseOf[y] = b /\ Present(y)')
    BY <1>1 DEF BasesOwned, tables
  <2>1. PICK y \in Processes : /\ PidOf[y] = pidsByEprocessBase[b]
                               /\ y \in kept \/ (BaseOf[y] = b /\ Present(y))
    BY <1>3 DEF BasesOwned
  <2>2. CASE y = x /\ y \notin kept
    BY <1>5, <2>1, <2>2
  <2>3. CASE y # x \/ y \in kept
    BY <1>1, <1>2, <2>1, <2>3
  <2>4. QED BY <2>2, <2>3
<1>10. QED BY <1>1, <1>6, <1>7, <1>8, <1>9 DEF Tracked

\* The walk over the guest's list records everyone in it.
LEMMA AttachTracks ==
    ASSUME PsTypeOK, Distinct, Tracked, Attach
    PROVE  Tracked'
<1>1. /\ attached = "no" /\ attached' = "yes" /\ UNCHANGED <<guest, unknown>> /\ unknown = {}
      /\ kept' = {x \in Processes : guest[x] = "terminated"}
  BY DEF Attach, Tracked
<1>2. ASSUME NEW x \in Processes, InList(x)
      PROVE  processInformationByPid'[PidOf[x]] = x /\ pidsByEprocessBase'[BaseOf[x]] = PidOf[x]
  BY <1>2, Named DEF Attach, Distinct
<1>3. ASSUME NEW p \in Pids, processInformationByPid'[p] # None
      PROVE  /\ processInformationByPid'[p] \in Processes /\ InList(processInformationByPid'[p])
             /\ PidOf[processInformationByPid'[p]] = p
  BY <1>3 DEF Attach
<1>4. ASSUME NEW b \in Bases, pidsByEprocessBase'[b] # None
      PROVE  \E y \in Processes : PidOf[y] = pidsByEprocessBase'[b] /\ BaseOf[y] = b /\ InList(y)
  BY <1>4 DEF Attach
<1>5. \A x \in Processes : /\ Present(x) \/ Live(x) => InList(x)
                           /\ InList(x) <=> Present(x) \/ x \in kept'
                           /\ Present(x)' <=> Present(x)
                           /\ Live(x)' <=> Live(x)
                           /\ InList(x) => guest'[x] # "none"
  BY <1>1 DEF Present, Live, InList
<1>6. RecordsByPid'
  BY <1>3 DEF RecordsByPid
<1>7. BasesLead' /\ AllRecorded' /\ BasesAgree'
  BY <1>2, <1>5 DEF BasesLead, AllRecorded, BasesAgree
<1>8. RecordsAgree'
  <2> SUFFICES ASSUME NEW y \in Processes, processInformationByPid'[PidOf[y]] = y
               PROVE  /\ guest'[y] # "none"
                      /\ Present(y)' => pidsByEprocessBase'[BaseOf[y]] = PidOf[y]
                      /\ ~Present(y)' => y \in kept'
    BY DEF RecordsAgree
  <2>1. InList(y)
    BY <1>3, Named
  <2>2. QED BY <1>2, <1>5, <2>1
<1>9. BasesOwned'
  BY <1>4, <1>5 DEF BasesOwned
<1>10. QED BY <1>1, <1>6, <1>7, <1>8, <1>9 DEF Tracked

\* The tables agree with the guest, as Tracked says it, in every state.
LEMMA TablesTracked == PsSpec => []Tracked
<1>1. PsInit => Tracked
  BY DEF PsInit, Tracked, RecordsByPid
<1>2. PsTypeOK /\ Distinct /\ Tracked /\ [PsNext]_psVars => Tracked'
  <2> SUFFICES ASSUME PsTypeOK, Distinct, Tracked, [PsNext]_psVars PROVE Tracked'
    OBVIOUS
  <2>1. CASE Detach
    BY <2>1 DEF Detach, Tracked, RecordsByPid, tables
  <2>2. CASE UNCHANGED psVars
    BY <2>2 DEF psVars, Tracked, RecordsByPid, BasesLead, BasesAgree, RecordsAgree, BasesOwned,
       AllRecorded, Live, Present
  <2>3. QED
    BY <2>1, <2>2, GuestKeepsTracked, StartKeepsTracked, TerminationKeepsTracked,
       LostTerminationKeepsTracked, AttachTracks DEF PsNext
<1>3. QED BY <1>1, <1>2, PsTyping, ListedDistinct, PTL DEF PsSpec

\* Whatever other processes have left in the tables, both lead to the process that lives under a pid
\* and at an address, unless its pid may be mistaken.
THEOREM LiveAreKnown == PsSpec => []LiveProcessesKnown
<1>1. PsTypeOK /\ Tracked => LiveProcessesKnown
  BY DEF PsTypeOK, Tracked, BasesLead, BasesAgree, AllRecorded, LiveProcessesKnown, Trusted, Live,
     Present
<1>2. QED BY <1>1, TablesTracked, PsTyping, PTL

\* The tables keep no process that has terminated, apart from those that were terminated when
\* VMICore attached and those at whose termination a plugin has thrown, even if starts could not be
\* recorded.
THEOREM NothingLeaks == PsSpec => []NoEntryLeaks
<1>1. Tracked => NoEntryLeaks
  BY DEF Tracked, RecordsAgree, BasesOwned, NoEntryLeaks, Present
<1>2. QED BY <1>1, TablesTracked, PTL

-----------------------------------------------------------------------------
\* The process that is reported at the termination of a recorded process is that process.
LEMMA RecordedIsReported ==
    ASSUME PsTypeOK, Tracked, attached = "yes",
           NEW x \in Processes, guest[x] = "exiting", processInformationByPid[PidOf[x]] = x
    PROVE  Reported(x) = x /\ Reported(x) # None
<1>1. pidsByEprocessBase[BaseOf[x]] = PidOf[x]
  BY DEF Tracked, RecordsAgree, Present
<1>2. QED BY <1>1, Named DEF Reported, ProcessInformationByBase

\* It takes a process that was not recorded and an entry left behind to report another one.
LEMMA TrustedIsReported ==
    ASSUME PsTypeOK, Distinct, Tracked, attached = "yes",
           NEW x \in Processes, guest[x] = "exiting", Reported(x) # None, Trusted(PidOf[Reported(x)])
    PROVE  Reported(x) = x
<1> DEFINE q == pidsByEprocessBase[BaseOf[x]]
<1>1. q \in Pids /\ q # None /\ Reported(x) = processInformationByPid[q]
  BY Named DEF Reported, ProcessInformationByBase, PsTypeOK
<1>2. PidOf[Reported(x)] = q
  BY <1>1 DEF Tracked, RecordsByPid
<1>3. Live(x) /\ Present(x) /\ BasesLead /\ BasesAgree /\ BasesOwned /\ AllRecorded
  BY DEF Live, Present, Tracked
<1>4. q = PidOf[x]
  <2>1. CASE unknown = {}
    BY <1>3, <2>1 DEF BasesLead
  <2>2. CASE \A y \in kept : PidOf[y] # q
    <3>1. PICK y \in Processes : PidOf[y] = q /\ BaseOf[y] = BaseOf[x] /\ Present(y)
      BY <1>1, <1>3, <2>2, Named DEF BasesOwned
    <3>2. y = x
      BY <1>3, <3>1 DEF Distinct, InList, Present
    <3>3. QED BY <3>1, <3>2
  <2>3. QED BY <1>2, <2>1, <2>2 DEF Trusted
<1>5. processInformationByPid[PidOf[x]] = x
  BY <1>2, <1>3, <1>4 DEF BasesAgree, AllRecorded, Trusted
<1>6. QED BY <1>1, <1>4, <1>5

-----------------------------------------------------------------------------
(* The composition with the tracer *)

\* The plugin changes nothing about how VMICore follows the processes.
LEMMA StepsOfVmiCore == Next => [PsNext]_psVars
  BY DEF Next, Unnoticed, ProcessStarts, ProcessTerminates, Initialize, TraceRunning, Unload, PsNext,
     Unseen

\* The tracer runs beside the tracking of processes: its steps are steps or stutters of that.
LEMMA FollowsProcesses == Spec => PsSpec
<1>1. Init => PsInit
  BY DEF Init
<1>2. [Next]_vars => [PsNext]_psVars
  BY StepsOfVmiCore DEF vars
<1>3. QED BY <1>1, <1>2, PTL DEF Spec, PsSpec

\* With the plugin too, both tables lead to the live process, and nothing leaks.
THEOREM LiveAreKnownWithPlugin == Spec => []LiveProcessesKnown
  BY FollowsProcesses, LiveAreKnown, PTL

\* With the plugin too, no entry is left behind in the tables.
THEOREM NothingLeaksWithPlugin == Spec => []NoEntryLeaks
  BY FollowsProcesses, NothingLeaks, PTL

-----------------------------------------------------------------------------
\* insert changes only the entry of the process, and only if there is none.
LEMMA InsertOnlyFree ==
    ASSUME NEW tp \in [Pids -> TracedProcess \cup {None}], NEW t \in TracedProcess
    PROVE  /\ InsertTraced(tp, t) \in [Pids -> TracedProcess \cup {None}]
           /\ \A p \in Pids :
                 InsertTraced(tp, t)[p] = IF p = PidOf[t.process] /\ tp[p] = None THEN t ELSE tp[p]
  BY DEF InsertTraced

\* The object that is built for x has its process, its profile and what it was found by.
LEMMA TraceProcessTyped ==
    ASSUME TypeOK, NEW x \in Processes, NEW found \in {"running", "started"},
           TraceProcess(x, found)
    PROVE  \/ UNCHANGED <<tracedProcesses, hooked>>
           \/ \E t \in TracedProcess :
                 /\ t.process = x /\ t.found = found
                 /\ tracedProcesses' = InsertTraced(tracedProcesses, t)
                 /\ hooked' \in {hooked, hooked \cup {t}}
<1> DEFINE profile == TracingProfile(x, tracedProcesses)
           t == [process |-> x, profile |-> profile, found |-> found]
<1>1. profile \in Profiles \cup {None}
  <2>1. ConfiguredProfile[x] \in Profiles \cup {None}
    BY TracingAssumption DEF TracingAssumption
  <2>2. QED BY <2>1, TracingAssumption DEF TracingProfile, TracingAssumption
<1>2. CASE profile = None
  BY <1>2 DEF TraceProcess
<1>3. CASE profile # None
  <2>1. t \in TracedProcess /\ t.process = x /\ t.found = found
    BY <1>1, <1>3 DEF TracedProcess
  <2>2. \/ UNCHANGED <<tracedProcesses, hooked>>
        \/ /\ tracedProcesses' = InsertTraced(tracedProcesses, t)
           /\ hooked' \in {hooked, hooked \cup {t}}
    BY <1>3 DEF TraceProcess
  <2>3. QED BY <2>1, <2>2
<1>4. QED BY <1>2, <1>3

\* Every variable keeps its type.
THEOREM TracerTypes == Spec => []TypeOK
<1>1. Init => TypeOK
  <2>1. Init => PsTypeOK
    BY ProcessAssumption DEF Init, PsInit, PsTypeOK, GuestStates, ProcessAssumption
  <2>2. QED BY <2>1, TracingAssumption DEF Init, TypeOK, Untraced, TracingAssumption
<1>2. TypeOK /\ PsTypeOK' /\ [Next]_vars => TypeOK'
  <2> SUFFICES ASSUME TypeOK, PsTypeOK', [Next]_vars PROVE TypeOK'
    OBVIOUS
  <2>1. ASSUME NEW x \in Processes, NEW found \in {"running", "started"}, TraceProcess(x, found)
        PROVE  /\ tracedProcesses' \in [Pids -> TracedProcess \cup {None}]
               /\ hooked' \subseteq TracedProcess
    BY <2>1, TraceProcessTyped, InsertOnlyFree DEF TypeOK
  <2>2. ASSUME NEW x \in Processes, Unnoticed(x) PROVE TypeOK'
    BY <2>2 DEF Unnoticed, tracerVars, TypeOK
  <2>3. ASSUME NEW x \in Processes, ProcessStarts(x) PROVE TypeOK'
    BY <2>1, <2>3 DEF ProcessStarts, TypeOK
  <2>4. ASSUME NEW x \in Processes, ProcessTerminates(x) PROVE TypeOK'
    BY <2>4 DEF ProcessTerminates, RemoveTracedProcess, TypeOK
  <2>5. CASE Initialize
    BY <2>5, TracingAssumption DEF Initialize, TypeOK, TracingAssumption
  <2>6. CASE TraceRunning
    <3>1. cursor' \in 0..(MaxPid + 1)
      BY <2>6, TracingAssumption DEF TraceRunning, Paused, TypeOK, TracingAssumption
    <3>2. /\ tracedProcesses' \in [Pids -> TracedProcess \cup {None}]
          /\ hooked' \subseteq TracedProcess
      BY <2>1, <2>6 DEF TraceRunning, ActiveProcesses, TypeOK
    <3>3. QED BY <2>6, <3>1, <3>2 DEF TraceRunning, TypeOK
  <2>7. CASE Unload
    BY <2>7 DEF Unload, Untraced, TypeOK
  <2>8. CASE UNCHANGED vars
    BY <2>8 DEF vars, tracerVars, TypeOK
  <2>9. QED BY <2>2, <2>3, <2>4, <2>5, <2>6, <2>7, <2>8 DEF Next
<1>3. Spec => []PsTypeOK
  BY FollowsProcesses, PsTyping, PTL
<1>4. QED BY <1>1, <1>2, <1>3, PTL DEF Spec

-----------------------------------------------------------------------------
(***************************************************************************)
(* While the plugin looks at the running processes, the tables hold only   *)
(* processes in the guest's list, and nothing is traced under the pids     *)
(* that are still to come.  A traced process is recorded, and one that is  *)
(* traced before its start has been announced is one of "early".           *)
(***************************************************************************)
WhileInitializing ==
    /\ attached = "no" => /\ cursor = 0
                          /\ \A p \in Pids : tracedProcesses[p] = None
                          /\ hooked = {}
    /\ Paused => /\ attached = "yes"
                 /\ \A p \in Pids : p >= cursor => tracedProcesses[p] = None
                 /\ \A x \in Processes : processInformationByPid[PidOf[x]] = x => InList(x)
                 /\ \A x \in Processes : guest[x] = "inserted" => x \in early

TracedRecorded ==
    attached = "yes" =>
        \A p \in Pids : tracedProcesses[p] # None =>
            /\ processInformationByPid[p] = tracedProcesses[p].process
            /\ guest[tracedProcesses[p].process] = "inserted" =>
                  tracedProcesses[p].process \in early

TracerInv == WhileInitializing /\ TracedProcessesLive /\ TracedRecorded /\ HooksOwned

\* The invariant of the tracer, in the initial states
LEMMA TracerInvInit == Init => TracerInv
<1> SUFFICES ASSUME Init PROVE TracerInv
  OBVIOUS
<1>1. attached = "no" /\ cursor = 0 /\ hooked = {}
  BY DEF Init, PsInit
<1>2. ~Paused
  BY <1>1, TracingAssumption DEF Paused, TracingAssumption
<1>3. \A p \in Pids : tracedProcesses[p] = None
  BY DEF Init, Untraced
<1>4. QED BY <1>1, <1>2, <1>3
      DEF TracerInv, WhileInitializing, TracedProcessesLive, TracedRecorded, HooksOwned

\* What the invariant says of the process that is traced under a pid
TracedUnder(p) ==
    LET x == tracedProcesses[p].process
    IN  /\ x \in Processes /\ PidOf[x] = p /\ Present(x)
        /\ processInformationByPid[p] = x
        /\ guest[x] = "inserted" => x \in early

\* A process in the table of the tracer is recorded by its pid.
LEMMA AllTraced ==
    ASSUME TypeOK, TracerInv, attached = "yes", NEW p \in Pids, tracedProcesses[p] # None
    PROVE  TracedUnder(p)
  BY DEF TypeOK, TracedProcess, TracerInv, TracedProcessesLive, TracedRecorded, TracedUnder, Present

\* An event that the plugin does not see
LEMMA UnnoticedKeepsInv ==
    ASSUME TypeOK, Tracked, TracerInv, NEW x \in Processes, Unnoticed(x)
    PROVE  TracerInv'
<1> USE DEF TypeOK, PsTypeOK
<1>1. /\ UNCHANGED <<tracedProcesses, hooked, early, cursor, attached, processInformationByPid>>
      /\ ~Paused /\ ~Paused'
  BY DEF Unnoticed, tracerVars, tables, Paused, Unseen, Insert, SetExitStatus, Delete, StartUnseen,
     TerminateUnseen, StartNotRecorded, TerminationOfUnknown
<1>2. WhileInitializing' /\ HooksOwned'
  BY <1>1 DEF TracerInv, WhileInitializing, HooksOwned
<1>3. ASSUME attached = "yes", NEW y \in Processes, Present(y), processInformationByPid[PidOf[y]] = y
      PROVE  /\ guest'[y] \in {"inserted", "running", "exiting"}
             /\ guest'[y] = "inserted" => guest[y] = "inserted"
  <2>1. CASE Unseen(x)
    BY <1>3, <2>1 DEF Unseen, Insert, SetExitStatus, Delete, StartUnseen, TerminateUnseen, GuestStep,
       Present
  <2>2. CASE StartNotRecorded(x)
    BY <1>3, <2>2 DEF StartNotRecorded, GuestStep, Present
  <2>3. CASE TerminationOfUnknown(x)
    <3>1. x # y
      BY <1>3, <2>3, RecordedIsReported DEF TerminationOfUnknown, GuestStep
    <3>2. QED BY <1>3, <2>3, <3>1 DEF TerminationOfUnknown, GuestStep, Present
  <2>4. QED BY <2>1, <2>2, <2>3 DEF Unnoticed
<1>4. ASSUME attached = "yes", NEW p \in Pids, tracedProcesses[p] # None
      PROVE  LET y == tracedProcesses[p].process
             IN  /\ PidOf[y] = p /\ processInformationByPid[p] = y
                 /\ guest'[y] \in {"inserted", "running", "exiting"}
                 /\ guest'[y] = "inserted" => y \in early
  <2>1. TracedUnder(p)
    BY <1>4, AllTraced
  <2>2. QED BY <1>3, <1>4, <2>1 DEF TracedUnder
<1>5. TracedProcessesLive' /\ TracedRecorded'
  BY <1>1, <1>4 DEF TracedProcessesLive, TracedRecorded, Present
<1>6. QED BY <1>2, <1>5 DEF TracerInv

\* The first and the second object for a process, or the only one
LEMMA StartKeepsInv ==
    ASSUME TypeOK, Distinct, TracerInv, NEW x \in Processes, ProcessStarts(x)
    PROVE  TracerInv'
<1> USE DEF TypeOK, PsTypeOK
<1>1. /\ UNCHANGED <<early, cursor, attached>> /\ attached = "yes"
      /\ ~Paused /\ ~Paused'
      /\ guest[x] = "inserted" /\ guest' = [guest EXCEPT ![x] = "running"]
      /\ processInformationByPid' = [processInformationByPid EXCEPT ![PidOf[x]] = x]
  BY DEF ProcessStarts, StartSeen, AddNewProcess, GuestStep, Paused
<1>2. \/ UNCHANGED <<tracedProcesses, hooked>>
      \/ \E t \in TracedProcess :
            /\ t.process = x /\ t.found = "started"
            /\ tracedProcesses' = InsertTraced(tracedProcesses, t)
            /\ hooked' \in {hooked, hooked \cup {t}}
  BY TraceProcessTyped DEF ProcessStarts
<1>3. WhileInitializing'
  BY <1>1 DEF WhileInitializing
<1>4. ASSUME NEW p \in Pids, tracedProcesses[p] # None
      PROVE  LET y == tracedProcesses[p].process
             IN  /\ y \in Processes /\ PidOf[y] = p /\ processInformationByPid'[p] = y
                 /\ guest'[y] \in {"inserted", "running", "exiting"}
                 /\ guest[y] = "inserted" => y \in early
                 /\ guest'[y] = "inserted" => y \in early
                 /\ p = PidOf[x] => y = x
  <2> DEFINE y == tracedProcesses[p].process
  <2>1. /\ y \in Processes /\ PidOf[y] = p /\ Present(y) /\ processInformationByPid[p] = y
        /\ guest[y] = "inserted" => y \in early
    BY <1>1, <1>4, AllTraced DEF TracedUnder
  <2> HIDE DEF y
  <2>2. p = PidOf[x] => y = x
    BY <1>1, <2>1 DEF Distinct, InList, Present
  <2>3. /\ guest'[y] \in {"inserted", "running", "exiting"}
        /\ guest'[y] = "inserted" => guest[y] = "inserted"
    BY <1>1, <2>1 DEF Present
  <2>4. processInformationByPid'[p] = y
    BY <1>1, <2>1, <2>2
  <2>5. QED BY <2>1, <2>2, <2>3, <2>4 DEF y
<1>5. CASE UNCHANGED <<tracedProcesses, hooked>>
  <2>1. TracedProcessesLive' /\ TracedRecorded'
    BY <1>1, <1>4, <1>5 DEF TracedProcessesLive, TracedRecorded, Present
  <2>2. HooksOwned'
    BY <1>1, <1>5 DEF TracerInv, HooksOwned
  <2>3. QED BY <1>3, <2>1, <2>2 DEF TracerInv
<1>6. ASSUME NEW t \in TracedProcess, t.process = x, t.found = "started",
             tracedProcesses' = InsertTraced(tracedProcesses, t),
             hooked' \in {hooked, hooked \cup {t}}
      PROVE  TracerInv'
  <2>1. \A p \in Pids : tracedProcesses'[p] =
           IF p = PidOf[x] /\ tracedProcesses[p] = None THEN t ELSE tracedProcesses[p]
    BY <1>6, InsertOnlyFree
  <2>2. guest'[x] = "running" /\ processInformationByPid'[PidOf[x]] = x /\ PidOf[x] \in Pids
    BY <1>1, Named
  <2>3. ASSUME NEW p \in Pids, tracedProcesses'[p] # None
        PROVE  LET y == tracedProcesses'[p].process
               IN  /\ PidOf[y] = p /\ processInformationByPid'[p] = y
                   /\ guest'[y] \in {"inserted", "running", "exiting"}
                   /\ guest'[y] = "inserted" => y \in early
    <3>1. CASE p = PidOf[x] /\ tracedProcesses[p] = None
      <4>1. tracedProcesses'[p] = t
        BY <2>1, <3>1
      <4>2. QED BY <1>6, <2>2, <3>1, <4>1 DEF Present
    <3>2. CASE ~(p = PidOf[x] /\ tracedProcesses[p] = None)
      <4>1. tracedProcesses'[p] = tracedProcesses[p]
        BY <2>1, <3>2
      <4>2. QED BY <1>4, <2>3, <4>1
    <3>3. QED BY <3>1, <3>2
  <2>4. TracedProcessesLive' /\ TracedRecorded'
    BY <1>1, <2>3 DEF TracedProcessesLive, TracedRecorded, Present
  <2>5. \/ tracedProcesses'[PidOf[x]] = t
        \/ x \in early
    BY <1>1, <1>4, <2>1, <2>2
  <2>6. ASSUME NEW u \in hooked
        PROVE  \/ tracedProcesses'[PidOf[u.process]] = u
               \/ u.found = "started" /\ u.process \in early
    <3>1. PidOf[u.process] \in Pids /\ u # None
      BY TracingAssumption DEF Pids, TracedProcess, TracingAssumption
    <3>2. QED BY <2>1, <3>1 DEF TracerInv, HooksOwned
  <2>7. HooksOwned'
    BY <1>1, <1>6, <2>5, <2>6 DEF HooksOwned
  <2>8. QED BY <1>3, <2>4, <2>7 DEF TracerInv
<1>7. QED BY <1>2, <1>5, <1>6

\* The entry that is removed is that of the process that is reported, in the tracer and in the table:
\* they go together, also if it is not the process that terminates.
LEMMA TerminationKeepsInv ==
    ASSUME TypeOK, Tracked, TracerInv, NEW x \in Processes, ProcessTerminates(x)
    PROVE  TracerInv'
<1> USE DEF TypeOK, PsTypeOK
<1> DEFINE y == Reported(x)
<1>1. /\ UNCHANGED <<early, cursor, attached>> /\ attached = "yes"
      /\ ~Paused /\ ~Paused'
      /\ guest[x] = "exiting" /\ guest' = [guest EXCEPT ![x] = "terminated"]
      /\ y # None
      /\ tracedProcesses' = [tracedProcesses EXCEPT ![PidOf[y]] = None]
      /\ hooked' = hooked \ {tracedProcesses[PidOf[y]]}
  BY DEF ProcessTerminates, TerminationSeen, TerminationThrows, GuestStep, Paused,
     RemoveTracedProcess
<1>2. \A p \in Pids : p # PidOf[y] => processInformationByPid'[p] = processInformationByPid[p]
  <2>1. CASE TerminationThrows(x)
    BY <2>1 DEF TerminationThrows, tables
  <2>2. CASE TerminationSeen(x)
    <3>1. pidsByEprocessBase[BaseOf[x]] \in Pids
      BY <1>1, Named DEF Reported, ProcessInformationByBase
    <3>2. pidsByEprocessBase[BaseOf[x]] = PidOf[y]
      BY <1>1, <3>1 DEF Reported, ProcessInformationByBase, Tracked, RecordsByPid
    <3>3. QED BY <2>2, <3>2 DEF TerminationSeen, RemoveActiveProcess
  <2>3. QED BY <2>1, <2>2 DEF ProcessTerminates
<1>3. processInformationByPid[PidOf[x]] = x => y = x
  BY <1>1, RecordedIsReported
<1> HIDE DEF y
<1>4. ASSUME NEW p \in Pids, tracedProcesses'[p] # None
      PROVE  LET z == tracedProcesses'[p].process
             IN  /\ PidOf[z] = p /\ processInformationByPid'[p] = z
                 /\ guest'[z] \in {"inserted", "running", "exiting"}
                 /\ guest'[z] = "inserted" => z \in early
  <2>1. p # PidOf[y] /\ tracedProcesses'[p] = tracedProcesses[p]
    BY <1>1, <1>4
  <2> DEFINE z == tracedProcesses[p].process
  <2>2. /\ z \in Processes /\ PidOf[z] = p /\ Present(z) /\ processInformationByPid[p] = z
        /\ guest[z] = "inserted" => z \in early
    BY <1>1, <1>4, <2>1, AllTraced DEF TracedUnder
  <2> HIDE DEF z
  <2>3. z # x
    BY <1>3, <2>1, <2>2
  <2>4. guest'[z] = guest[z]
    BY <1>1, <2>2, <2>3
  <2>5. /\ guest'[z] \in {"inserted", "running", "exiting"}
        /\ processInformationByPid'[p] = z
        /\ guest'[z] = "inserted" => z \in early
    BY <1>2, <2>1, <2>2, <2>4 DEF Present
  <2>6. QED BY <2>1, <2>2, <2>5 DEF z
<1>5. TracedProcessesLive' /\ TracedRecorded'
  BY <1>1, <1>4 DEF TracedProcessesLive, TracedRecorded, Present
<1>6. HooksOwned'
  BY <1>1, TracingAssumption DEF TracerInv, HooksOwned, Pids, TracedProcess, TracingAssumption
<1>7. WhileInitializing'
  BY <1>1 DEF WhileInitializing
<1>8. QED BY <1>5, <1>6, <1>7 DEF TracerInv

\* The processes that the plugin goes through are in the guest's list.
LEMMA InitializeKeepsInv ==
    ASSUME TypeOK, Distinct, TracerInv, Initialize
    PROVE  TracerInv'
<1> USE DEF TypeOK, PsTypeOK
<1>1. /\ attached = "no" /\ attached' = "yes"
      /\ cursor' = 1 /\ UNCHANGED <<guest, tracedProcesses, hooked>>
      /\ \A p \in Pids : tracedProcesses[p] = None
      /\ hooked = {}
  BY DEF Initialize, Attach, TracerInv, WhileInitializing
<1>2. \A x \in Processes : processInformationByPid'[PidOf[x]] = x => InList(x)'
  <2> SUFFICES ASSUME NEW x \in Processes, processInformationByPid'[PidOf[x]] = x
               PROVE  InList(x)
    BY <1>1 DEF InList
  <2>1. QED BY Named DEF Initialize, Attach
<1>3. \A x \in Processes : guest'[x] = "inserted" => x \in early'
  BY <1>1 DEF Initialize
<1>4. WhileInitializing'
  BY <1>1, <1>2, <1>3 DEF WhileInitializing
<1>5. QED BY <1>1, <1>4 DEF TracerInv, TracedProcessesLive, TracedRecorded, HooksOwned

\* The pid of the process that the loop has come to is free.
LEMMA LoopKeepsInv ==
    ASSUME TypeOK, Distinct, TracerInv, TraceRunning
    PROVE  TracerInv'
<1> USE DEF TypeOK, PsTypeOK
<1>1. /\ UNCHANGED psVars /\ UNCHANGED early /\ attached = "yes"
      /\ cursor \in 1..MaxPid /\ cursor' = cursor + 1 /\ MaxPid \in Nat
      /\ \A p \in Pids : p >= cursor => tracedProcesses[p] = None
      /\ \A x \in Processes : processInformationByPid[PidOf[x]] = x => InList(x)
      /\ \A x \in Processes : guest[x] = "inserted" => x \in early
  BY TracingAssumption DEF TraceRunning, TracerInv, WhileInitializing, Paused, TracingAssumption
<1>2. UNCHANGED <<guest, attached, processInformationByPid>>
  BY <1>1 DEF psVars
<1>3. \A p \in Pids : p \in 1..MaxPid
  BY TracingAssumption DEF Pids, TracingAssumption
<1>4. CASE UNCHANGED <<tracedProcesses, hooked>>
  <2>1. WhileInitializing'
    BY <1>1, <1>2, <1>3, <1>4 DEF WhileInitializing, Paused, InList
  <2>2. QED BY <1>1, <1>2, <1>4, <2>1
        DEF TracerInv, TracedProcessesLive, TracedRecorded, HooksOwned
<1>5. ASSUME NEW x \in ActiveProcesses, PidOf[x] = cursor, NEW t \in TracedProcess,
             t.process = x, tracedProcesses' = InsertTraced(tracedProcesses, t),
             hooked' \in {hooked, hooked \cup {t}}
      PROVE  TracerInv'
  <2>1. x \in Processes /\ InList(x) /\ cursor \in Pids /\ processInformationByPid[cursor] = x
    BY <1>1, <1>5 DEF ActiveProcesses, Pids
  <2>2. guest[x] \in {"inserted", "running"}
    <3>1. PICK y \in Processes : BaseOf[y] = BaseOf[x] /\ guest[y] \in {"inserted", "running"}
      BY <1>5 DEF ActiveProcesses, ExitStatusPending
    <3>2. y = x
      BY <2>1, <3>1 DEF Distinct, InList
    <3>3. QED BY <3>1, <3>2
  <2>3. tracedProcesses[cursor] = None
    BY <1>1, <2>1
  <2>4. \A p \in Pids : tracedProcesses'[p] = IF p = cursor THEN t ELSE tracedProcesses[p]
    BY <1>5, <2>3, InsertOnlyFree
  <2>5. WhileInitializing'
    <3>1. \A p \in Pids : p >= cursor' => tracedProcesses'[p] = None
      BY <1>1, <1>3, <2>4
    <3>2. QED BY <1>1, <1>2, <3>1 DEF WhileInitializing, InList
  <2>6. ASSUME NEW p \in Pids, tracedProcesses'[p] # None
        PROVE  LET y == tracedProcesses'[p].process
               IN  /\ PidOf[y] = p /\ Present(y) /\ processInformationByPid[p] = y
                   /\ guest[y] = "inserted" => y \in early
    <3>1. CASE p = cursor
      <4>1. tracedProcesses'[p].process = x
        BY <1>5, <2>4, <3>1
      <4>2. QED BY <1>1, <1>5, <2>1, <2>2, <3>1, <4>1 DEF Present
    <3>2. CASE p # cursor
      <4>1. tracedProcesses'[p] = tracedProcesses[p]
        BY <2>4, <3>2
      <4>2. TracedUnder(p)
        BY <1>1, <2>6, <4>1, AllTraced
      <4>3. QED BY <4>1, <4>2 DEF TracedUnder
    <3>3. QED BY <3>1, <3>2
  <2>7. TracedProcessesLive' /\ TracedRecorded'
    BY <1>1, <1>2, <2>6 DEF TracedProcessesLive, TracedRecorded, Present
  <2>8. HooksOwned'
    <3>1. ASSUME NEW u \in hooked
          PROVE  \/ tracedProcesses'[PidOf[u.process]] = u
                 \/ u.found = "started" /\ u.process \in early'
      <4>1. PidOf[u.process] \in Pids /\ u # None
        BY TracingAssumption DEF Pids, TracedProcess, TracingAssumption
      <4>2. QED BY <1>1, <2>3, <2>4, <4>1 DEF TracerInv, HooksOwned
    <3>2. tracedProcesses'[PidOf[t.process]] = t
      BY <1>5, <2>1, <2>4
    <3>3. QED BY <1>5, <3>1, <3>2 DEF HooksOwned
  <2>9. QED BY <2>5, <2>7, <2>8 DEF TracerInv
<1>6. \/ UNCHANGED <<tracedProcesses, hooked>>
      \/ \E x \in ActiveProcesses, t \in TracedProcess :
            /\ PidOf[x] = cursor /\ t.process = x
            /\ tracedProcesses' = InsertTraced(tracedProcesses, t)
            /\ hooked' \in {hooked, hooked \cup {t}}
  <2>1. ASSUME NEW x \in ActiveProcesses, PidOf[x] = cursor, TraceProcess(x, "running")
        PROVE  \/ UNCHANGED <<tracedProcesses, hooked>>
               \/ \E t \in TracedProcess :
                     /\ t.process = x
                     /\ tracedProcesses' = InsertTraced(tracedProcesses, t)
                     /\ hooked' \in {hooked, hooked \cup {t}}
    BY <2>1, TraceProcessTyped DEF ActiveProcesses
  <2>2. QED BY <2>1 DEF TraceRunning
<1>7. QED BY <1>4, <1>5, <1>6

\* Unloading the plugin keeps the invariant of the tracer.
LEMMA UnloadKeepsInv ==
    ASSUME TypeOK, TracerInv, Unload
    PROVE  TracerInv'
<1>1. attached' = "ended" /\ UNCHANGED <<cursor, early>> /\ ~Paused /\ ~Paused'
  BY DEF Unload, Detach, Paused
<1>2. HooksOwned'
  <2> SUFFICES ASSUME NEW t \in hooked, \A p \in Pids : t # tracedProcesses[p]
               PROVE  t.found = "started" /\ t.process \in early
    BY <1>1 DEF Unload, HooksOwned
  <2>1. PidOf[t.process] \in Pids
    BY DEF TypeOK, TracedProcess, Pids
  <2>2. QED BY <2>1 DEF TracerInv, HooksOwned
<1>3. QED BY <1>1, <1>2 DEF TracerInv, WhileInitializing, TracedProcessesLive, TracedRecorded

\* The invariants of the tables and of the tracer hold in every state.
LEMMA TracerInvariant == Spec => [](Distinct /\ Tracked /\ TracerInv)
<1>1. Spec => [](Distinct /\ Tracked)
  BY FollowsProcesses, ListedDistinct, TablesTracked, PTL
<1>2. TypeOK /\ Distinct /\ Tracked /\ TracerInv /\ [Next]_vars => TracerInv'
  <2> SUFFICES ASSUME TypeOK, Distinct, Tracked, TracerInv, [Next]_vars
               PROVE  TracerInv'
    OBVIOUS
  <2>1. CASE UNCHANGED vars
    BY <2>1 DEF vars, psVars, tracerVars, TracerInv, WhileInitializing, Paused, InList,
       TracedProcessesLive, TracedRecorded, HooksOwned
  <2>2. CASE Next
    BY <2>2, UnnoticedKeepsInv, StartKeepsInv, TerminationKeepsInv, InitializeKeepsInv,
       LoopKeepsInv, UnloadKeepsInv DEF Next
  <2>3. QED BY <2>1, <2>2
<1>3. QED BY <1>1, <1>2, TracerInvInit, TracerTypes, PTL DEF Spec

-----------------------------------------------------------------------------
\* However pids and addresses are reused, and whatever start was not recorded, the tracer never holds
\* a process that has terminated.
THEOREM TracedAreLive == Spec => []TracedProcessesLive
<1>1. TracerInv => TracedProcessesLive
  BY DEF TracerInv
<1>2. QED BY <1>1, TracerInvariant, PTL

\* The only hooks that nothing will remove are those of a second object for one process, also after
\* the plugin has been unloaded.
THEOREM HooksHaveOwners == Spec => []HooksOwned
<1>1. TracerInv => HooksOwned
  BY DEF TracerInv
<1>2. QED BY <1>1, TracerInvariant, PTL

\* No event about another process, and no second object, takes a process away from the tracer, unless
\* a termination may be reported as that of another process.
THEOREM TracedToTheEnd == Spec => TracedUntilTermination
<1>1. TypeOK /\ Distinct /\ Tracked /\ TracerInv /\ [Next]_vars =>
         [\A p \in Pids :
             tracedProcesses[p] # None /\ tracedProcesses'[p] # tracedProcesses[p]
                   /\ attached' = "yes" /\ Trusted(p) =>
                guest'[tracedProcesses[p].process] = "terminated"]_vars
  <2> SUFFICES ASSUME TypeOK, Distinct, Tracked, TracerInv, Next,
                      NEW p \in Pids, tracedProcesses[p] # None,
                      tracedProcesses'[p] # tracedProcesses[p],
                      attached' = "yes", Trusted(p)
               PROVE  guest'[tracedProcesses[p].process] = "terminated"
    OBVIOUS
  <2>1. ASSUME NEW x \in Processes, NEW found \in {"running", "started"}, TraceProcess(x, found)
        PROVE  FALSE
    BY <2>1, TraceProcessTyped, InsertOnlyFree DEF TypeOK
  <2>2. ASSUME NEW x \in Processes, ProcessTerminates(x)
        PROVE  guest'[tracedProcesses[p].process] = "terminated"
    <3>1. /\ attached = "yes" /\ guest[x] = "exiting" /\ guest'[x] = "terminated"
          /\ Reported(x) # None
      BY <2>2 DEF ProcessTerminates, TerminationSeen, TerminationThrows, GuestStep, TypeOK, PsTypeOK
    <3>2. p = PidOf[Reported(x)]
      BY <2>2 DEF ProcessTerminates, RemoveTracedProcess, TypeOK
    <3>3. Reported(x) = x
      BY <3>1, <3>2, TrustedIsReported DEF TypeOK
    <3>4. TracedUnder(p)
      BY <3>1, AllTraced
    <3>5. tracedProcesses[p].process = x
      BY <3>1, <3>2, <3>3, <3>4 DEF Distinct, InList, Present, TracedUnder
    <3>6. QED BY <3>1, <3>5
  <2>3. ASSUME NEW x \in Processes, ProcessStarts(x) PROVE FALSE
    BY <2>1, <2>3 DEF ProcessStarts
  <2>4. CASE TraceRunning
    BY <2>1, <2>4 DEF TraceRunning, ActiveProcesses
  <2>5. QED BY <2>2, <2>3, <2>4 DEF Next, Unnoticed, tracerVars, Initialize, Unload, Detach
<1>2. QED BY <1>1, TracerInvariant, TracerTypes, PTL DEF Spec, TracedUntilTermination
=============================================================================
