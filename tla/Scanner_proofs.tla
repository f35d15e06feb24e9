---------------------------- MODULE Scanner_proofs ----------------------------
(***************************************************************************)
(* Proofs about Scanner for every number of processes, regions and permits. *)
(***************************************************************************)
EXTENDS Scanner, FiniteSetTheorems, SequenceTheorems, WellFoundedInduction, TLAPS

\* dumping only groups variables.
USE DEF dumping

\* What is kept of a dump has its type.
LEMMA InformationTyping ==
    ASSUME NEW r \in Regions, NEW id \in Nat
    PROVE  createMemoryRegionInformation(r, id) \in MemoryRegionInformation
BY ScannerAssumption, RegionsAssumption
   DEF ScannerAssumption, RegionsAssumption, createMemoryRegionInformation, MemoryRegionInformation

\* Every variable keeps its type.
THEOREM ScannerTyping == Spec => []TypeOK
<1>1. Init => TypeOK
  BY ScannerAssumption DEF ScannerAssumption, Init, TypeOK, Steps
<1>2. TypeOK /\ [Next]_vars => TypeOK'
  <2> SUFFICES ASSUME TypeOK, [Next]_vars PROVE TypeOK'
    OBVIOUS
  <2> USE ScannerAssumption, InformationTyping DEF ScannerAssumption, TypeOK, Steps
  <2>1. ASSUME NEW p \in Processes, ProcessTerminates(p) PROVE TypeOK'
    BY <2>1 DEF ProcessTerminates, FirstStep
  <2>2. CASE Unload \/ UnloadFails
    BY <2>2 DEF Unload, UnloadFails, FirstStep
  <2>3. ASSUME NEW p \in Processes, ExtractRegions(p) PROVE TypeOK'
    <3>1. RegionsToScan(p) \subseteq Regions
      BY DEF RegionsToScan
    <3>2. QED BY <2>3, <3>1 DEF ExtractRegions
  <2>4. ASSUME NEW p \in Processes, NEW r \in Regions, NextRegion(p, r) PROVE TypeOK'
    BY <2>4 DEF NextRegion
  <2>5. ASSUME NEW p \in Processes, NoRegionLeft(p) \/ AppendRegionInfo(p) PROVE TypeOK'
    BY <2>5 DEF NoRegionLeft, AppendRegionInfo
  <2>6. ASSUME NEW p \in Processes, GetNextRegionId(p) PROVE TypeOK'
    BY <2>6 DEF GetNextRegionId, RegionId
  <2>7. ASSUME NEW p \in Processes, Acquire(p) \/ ScanSucceeds(p) \/ ScanThrows(p) PROVE TypeOK'
    BY <2>7 DEF Acquire, ScanSucceeds, ScanThrows
  <2>8. ASSUME NEW p \in Processes, AddResult(p) PROVE TypeOK'
    BY <2>8 DEF AddResult
  <2>9. CASE SaveOutput \/ UNCHANGED vars
    BY <2>9 DEF SaveOutput, vars
  <2>10. QED
    BY <2>1, <2>2, <2>3, <2>4, <2>5, <2>6, <2>7, <2>8, <2>9 DEF Next, ScanStep, Unloaded
<1>3. QED BY <1>1, <1>2, PTL DEF Spec

-----------------------------------------------------------------------------
\* What AppendRegionInfo(p) adds to the list
Entry(p) == toString(createMemoryRegionInformation(region[p], uid[p]))

\* Ids that have been given out are below the counter, so the next one is new.
IdInv ==
    /\ \A i \in memoryRegionInfo : i.uid \in Nat /\ i.uid < memoryRegionCounter
    /\ \A p \in Processes : at[p] = "append" => uid[p] < memoryRegionCounter

\* No two dumped regions share their id, however the threads interleave.
THEOREM IdsAreUnique == Spec => []DumpIdsUnique
<1> USE ScannerAssumption DEF ScannerAssumption
<1>1. Init => IdInv /\ DumpIdsUnique
  BY DEF Init, IdInv, DumpIdsUnique
<1>2. TypeOK /\ IdInv /\ DumpIdsUnique /\ [Next]_vars => (IdInv /\ DumpIdsUnique)'
  <2> SUFFICES ASSUME TypeOK, IdInv, DumpIdsUnique, [Next]_vars PROVE (IdInv /\ DumpIdsUnique)'
    OBVIOUS
  <2> USE DEF TypeOK, IdInv, DumpIdsUnique
  <2>1. ASSUME NEW p \in Processes, GetNextRegionId(p) PROVE (IdInv /\ DumpIdsUnique)'
    <3>1. /\ uid'[p] = memoryRegionCounter /\ memoryRegionCounter' = memoryRegionCounter + 1
          /\ memoryRegionInfo' = memoryRegionInfo /\ at'[p] = "append"
      BY <2>1 DEF GetNextRegionId, RegionId
    <3>2. \A q \in Processes \ {p} : uid'[q] = uid[q] /\ at'[q] = at[q]
      BY <2>1 DEF GetNextRegionId
    <3>3. QED BY <3>1, <3>2
  <2>2. ASSUME NEW p \in Processes, AppendRegionInfo(p) PROVE (IdInv /\ DumpIdsUnique)'
    <3>1. /\ memoryRegionInfo' = memoryRegionInfo \cup {Entry(p)}
          /\ Entry(p).uid = uid[p]
          /\ uid' = uid /\ memoryRegionCounter' = memoryRegionCounter
          /\ at[p] = "append" /\ at'[p] = "acquire"
      BY <2>2 DEF AppendRegionInfo, Entry, toString, createMemoryRegionInformation
    <3>2. \A q \in Processes \ {p} : at'[q] = at[q]
      BY <2>2 DEF AppendRegionInfo
    <3>3. QED BY <3>1, <3>2
  <2>3. ASSUME UNCHANGED <<uid, memoryRegionCounter, memoryRegionInfo>>,
               \A q \in Processes : at'[q] = "append" => at[q] = "append"
        PROVE (IdInv /\ DumpIdsUnique)'
    BY <2>3
  <2>4. ASSUME NEW p \in Processes,
               \/ ProcessTerminates(p) \/ ExtractRegions(p) \/ NoRegionLeft(p) \/ Acquire(p)
               \/ ScanSucceeds(p) \/ ScanThrows(p) \/ AddResult(p)
               \/ \E r \in Regions : NextRegion(p, r)
        PROVE (IdInv /\ DumpIdsUnique)'
    <3>1. UNCHANGED <<uid, memoryRegionCounter, memoryRegionInfo>>
      BY <2>4 DEF ProcessTerminates, ExtractRegions, NoRegionLeft, Acquire, ScanSucceeds,
                  ScanThrows, AddResult, NextRegion
    <3>2. \A q \in Processes : at'[q] = "append" => at[q] = "append"
      BY <2>4 DEF ProcessTerminates, FirstStep, ExtractRegions, NoRegionLeft, Acquire,
                  ScanSucceeds, ScanThrows, AddResult, NextRegion
    <3>3. QED BY <2>3, <3>1, <3>2
  <2>5. CASE Unload \/ UnloadFails \/ SaveOutput \/ UNCHANGED vars
    <3>1. UNCHANGED <<uid, memoryRegionCounter, memoryRegionInfo>>
      BY <2>5 DEF Unload, UnloadFails, SaveOutput, vars
    <3>2. \A q \in Processes : at'[q] = "append" => at[q] = "append"
      BY <2>5 DEF Unload, UnloadFails, FirstStep, SaveOutput, vars
    <3>3. QED BY <2>3, <3>1, <3>2
  <2>6. QED BY <2>1, <2>2, <2>4, <2>5 DEF Next, ScanStep, Unloaded
<1>3. QED BY <1>1, <1>2, ScannerTyping, PTL DEF Spec

-----------------------------------------------------------------------------
Mid == {"dump", "append", "acquire", "scan", "record"}

\* The scan of the owner is past the region.
Behind(r) ==
    /\ Reportable(r)
    /\ at[OwnerOf[r]] \notin {"idle", "extract"} /\ r \notin todo[OwnerOf[r]]
    /\ at[OwnerOf[r]] \in Mid => r # region[OwnerOf[r]]

\* The region is under way, and in the list of dumps if it is dumped.
Listed(r) ==
    at[OwnerOf[r]] \in {"acquire", "scan", "record"} /\ region[OwnerOf[r]] = r

\* What the position of a scan says of its process, its regions and the unload
ProgressInv ==
    /\ \A p \in Processes :
          /\ todo[p] \subseteq RegionsToScan(p)
          /\ at[p] = "extract" => p \notin IgnoredProcesses
          /\ at[p] \in Mid \cup {"next"} => p \notin IgnoredProcesses \cup Unextractable
          /\ at[p] \in Mid => region[p] \in RegionsToScan(p) \ todo[p]
          /\ at[p] \in {"idle", "extract", "done"} => todo[p] = {}
          /\ at[p] \in {"dump", "append"} => dumpMemory
    /\ phase = "running" => listed
    /\ \A p \in Processes : at[p] = "idle" <=> p \in alive /\ (phase = "running" \/ ~listed)
    /\ phase = "saved" =>
          AllScansDone /\ saved = [info |-> memoryRegionInfo, results |-> results]

\* What has been collected is that of the regions behind, whatever else has failed.
ReportInv ==
    /\ \A x : x \in results <=> \E r \in Regions \ failed : Behind(r) /\ x \in Reported(r)
    /\ \A r \in failed : Behind(r)
    /\ \A i \in memoryRegionInfo : i.region \in Regions
    /\ dumpMemory =>
          \A r \in Regions :
              (\E i \in memoryRegionInfo : i.region = r) <=> Behind(r) \/ Listed(r)

\* The positions of the scans, in every step
LEMMA ProgressStep == TypeOK /\ ProgressInv /\ [Next]_vars => ProgressInv'
<1> SUFFICES ASSUME TypeOK, ProgressInv, [Next]_vars PROVE ProgressInv'
  OBVIOUS
<1> USE ScannerAssumption DEF ScannerAssumption, TypeOK, Mid, ProgressInv
<1>1. ASSUME NEW p \in Processes, ProcessTerminates(p) PROVE ProgressInv'
  BY <1>1 DEF ProcessTerminates, FirstStep, Idle
<1>2. CASE Unload \/ UnloadFails
  BY <1>2 DEF Unload, UnloadFails, FirstStep, Idle
<1>3. ASSUME NEW p \in Processes, ExtractRegions(p) PROVE ProgressInv'
  BY <1>3 DEF ExtractRegions, AllScansDone, Idle
<1>4. ASSUME NEW p \in Processes, NEW r \in Regions, NextRegion(p, r) PROVE ProgressInv'
  BY <1>4 DEF NextRegion, AllScansDone, Idle
<1>5. ASSUME NEW p \in Processes, NoRegionLeft(p) \/ GetNextRegionId(p) PROVE ProgressInv'
  BY <1>5 DEF NoRegionLeft, GetNextRegionId, AllScansDone, Idle
<1>6. ASSUME NEW p \in Processes, AppendRegionInfo(p) \/ AddResult(p) PROVE ProgressInv'
  BY <1>6 DEF AppendRegionInfo, AddResult, AllScansDone, Idle
<1>7. ASSUME NEW p \in Processes, Acquire(p) \/ ScanSucceeds(p) \/ ScanThrows(p)
      PROVE ProgressInv'
  BY <1>7 DEF Acquire, ScanSucceeds, ScanThrows, AllScansDone, Idle
<1>8. CASE SaveOutput \/ UNCHANGED vars
  BY <1>8 DEF SaveOutput, vars, AllScansDone, Idle
<1>9. QED
  BY <1>1, <1>2, <1>3, <1>4, <1>5, <1>6, <1>7, <1>8 DEF Next, ScanStep, Unloaded

\* The collected results and dumps, in every step
LEMMA ReportStep == TypeOK /\ ProgressInv /\ ReportInv /\ [Next]_vars => ReportInv'
<1> SUFFICES ASSUME TypeOK, ProgressInv, ReportInv, [Next]_vars PROVE ReportInv'
  OBVIOUS
<1> USE ScannerAssumption DEF ScannerAssumption
<1>1. ASSUME NEW p \in Processes, at[p] \in Mid
      PROVE  Reportable(region[p]) /\ OwnerOf[region[p]] = p /\ region[p] \in Regions
                /\ ~Behind(region[p])
  BY <1>1 DEF ProgressInv, RegionsToScan, Reportable, Behind, Mid
<1>2. ASSUME \A r \in Regions : Behind(r)' <=> Behind(r),
             dumpMemory => \A r \in Regions : Listed(r)' <=> Listed(r),
             UNCHANGED <<results, failed, memoryRegionInfo>>
      PROVE  ReportInv'
  <2>1. \A x : x \in results' <=> \E r \in Regions \ failed' : Behind(r)' /\ x \in Reported(r)
    BY <1>2 DEF ReportInv
  <2>2. \A r \in failed' : Behind(r)'
    BY <1>2 DEF ReportInv, TypeOK
  <2>3. dumpMemory =>
          \A r \in Regions :
              (\E i \in memoryRegionInfo' : i.region = r) <=> Behind(r)' \/ Listed(r)'
    BY <1>2 DEF ReportInv
  <2>4. QED BY <1>2, <2>1, <2>2, <2>3 DEF ReportInv
<1>3. ASSUME NEW p \in Processes, ProcessTerminates(p) PROVE ReportInv'
  <2>1. at[p] = "idle" /\ todo[p] = {} /\ at'[p] = FirstStep(p)
    BY <1>3 DEF ProcessTerminates, ProgressInv, TypeOK
  <2>2. \A r \in Regions : (Behind(r)' <=> Behind(r)) /\ (Listed(r)' <=> Listed(r))
    BY <1>3, <2>1 DEF ProcessTerminates, FirstStep, Behind, Listed, Reportable, Mid, TypeOK
  <2>3. QED BY <1>2, <1>3, <2>2 DEF ProcessTerminates
<1>4. CASE Unload
  <2>1. \A q \in Processes : at[q] # at'[q] => at[q] = "idle" /\ at'[q] = FirstStep(q)
    BY <1>4 DEF Unload, ProgressInv, TypeOK
  <2>2. \A r \in Regions : (Behind(r)' <=> Behind(r)) /\ (Listed(r)' <=> Listed(r))
    BY <1>4, <2>1 DEF Unload, FirstStep, Behind, Listed, Reportable, Mid, TypeOK
  <2>3. QED BY <1>2, <1>4, <2>2 DEF Unload
<1>5. ASSUME NEW p \in Processes, ExtractRegions(p) PROVE ReportInv'
  <2>1. \A r \in Regions : (Behind(r)' <=> Behind(r)) /\ (Listed(r)' <=> Listed(r))
    BY <1>5 DEF ExtractRegions, Behind, Listed, Reportable, RegionsToScan, Mid, TypeOK
  <2>2. QED BY <1>2, <1>5, <2>1 DEF ExtractRegions
<1>6. ASSUME NEW p \in Processes, NEW n \in Regions, NextRegion(p, n) PROVE ReportInv'
  <2>1. OwnerOf[n] = p
    BY <1>6 DEF NextRegion, ProgressInv, RegionsToScan
  <2>2. \A r \in Regions : Behind(r)' <=> Behind(r)
    BY <1>6, <2>1 DEF NextRegion, Behind, Reportable, Mid, TypeOK
  <2>3. dumpMemory => \A r \in Regions : Listed(r)' <=> Listed(r)
    BY <1>6, <2>1 DEF NextRegion, Listed, TypeOK
  <2>4. QED BY <1>2, <1>6, <2>2, <2>3 DEF NextRegion
<1>7. ASSUME NEW p \in Processes, NoRegionLeft(p) \/ GetNextRegionId(p) \/ Acquire(p)
      PROVE  ReportInv'
  <2>1. \A r \in Regions : (Behind(r)' <=> Behind(r)) /\ (Listed(r)' <=> Listed(r))
    BY <1>7 DEF NoRegionLeft, GetNextRegionId, Acquire, Behind, Listed, Reportable, Mid, TypeOK
  <2>2. QED BY <1>2, <1>7, <2>1 DEF NoRegionLeft, GetNextRegionId, Acquire
<1>8. ASSUME NEW p \in Processes, AppendRegionInfo(p) PROVE ReportInv'
  <2>1. /\ memoryRegionInfo' = memoryRegionInfo \cup {Entry(p)}
        /\ Entry(p).region = region[p]
        /\ UNCHANGED <<results, failed>>
    BY <1>8 DEF AppendRegionInfo, Entry, toString, createMemoryRegionInformation
  <2>2. OwnerOf[region[p]] = p /\ region[p] \in Regions
    BY <1>1, <1>8 DEF AppendRegionInfo, Mid
  <2>3. \A r \in Regions : Behind(r)' <=> Behind(r)
    BY <1>8 DEF AppendRegionInfo, Behind, Reportable, Mid, TypeOK
  <2>4. \A r \in Regions : Listed(r)' <=> Listed(r) \/ r = region[p]
    BY <1>8, <2>2 DEF AppendRegionInfo, Listed, TypeOK
  <2>5. \A x : x \in results' <=> \E r \in Regions \ failed' : Behind(r)' /\ x \in Reported(r)
    BY <2>1, <2>3 DEF ReportInv
  <2>6. \A r \in failed' : Behind(r)'
    BY <2>1, <2>3 DEF ReportInv, TypeOK
  <2>7. dumpMemory =>
          \A r \in Regions :
              (\E i \in memoryRegionInfo' : i.region = r) <=> Behind(r)' \/ Listed(r)'
    BY <2>1, <2>2, <2>3, <2>4 DEF ReportInv
  <2>8. \A i \in memoryRegionInfo' : i.region \in Regions
    BY <2>1, <2>2 DEF ReportInv
  <2>9. QED BY <2>5, <2>6, <2>7, <2>8 DEF ReportInv
<1>9. ASSUME NEW p \in Processes, at[p] \in {"scan", "record"}, at' = [at EXCEPT ![p] = "next"],
             UNCHANGED <<alive, listed, todo, region, memoryRegionInfo>>,
             \/ UNCHANGED <<results, failed>> /\ Reported(region[p]) = {}
             \/ UNCHANGED results /\ failed' = failed \cup {region[p]}
             \/ UNCHANGED failed /\ results' = results \cup Reported(region[p])
      PROVE  ReportInv'
  <2>1. /\ Reportable(region[p]) /\ OwnerOf[region[p]] = p /\ region[p] \in Regions
        /\ ~Behind(region[p])
    BY <1>1, <1>9 DEF Mid
  <2>2. \A r \in Regions : Behind(r)' <=> Behind(r) \/ r = region[p]
    <3>1. region[p] \notin todo[p]
      BY <1>9 DEF ProgressInv, Mid
    <3>2. QED BY <1>9, <2>1, <3>1 DEF Behind, Reportable, Mid, TypeOK
  <2>3. \A r \in Regions : Listed(r)' \/ r = region[p] <=> Listed(r)
    BY <1>9, <2>1 DEF Listed, TypeOK
  <2>4. region[p] \notin failed
    BY <2>1 DEF ReportInv
  <2>5. ~Listed(region[p])'
    BY <1>9, <2>1 DEF Listed, TypeOK
  <2>6. \A x : x \in results' <=> \E r \in Regions \ failed' : Behind(r)' /\ x \in Reported(r)
    BY <1>9, <2>1, <2>2, <2>4 DEF ReportInv
  <2>7. \A r \in failed' : Behind(r)'
    BY <1>9, <2>1, <2>2 DEF ReportInv, TypeOK
  <2>8. dumpMemory =>
          \A r \in Regions :
              (\E i \in memoryRegionInfo' : i.region = r) <=> Behind(r)' \/ Listed(r)'
    BY <1>9, <2>2, <2>3 DEF ReportInv
  <2>9. QED BY <1>9, <2>6, <2>7, <2>8 DEF ReportInv
<1>10. ASSUME NEW p \in Processes, ScanSucceeds(p) PROVE ReportInv'
  <2>1. CASE ScanMemory(Chunks[region[p]]) = {}
    <3>1. Reported(region[p]) = {}
      BY <2>1 DEF Reported
    <3>2. QED BY <1>9, <1>10, <2>1, <3>1 DEF ScanSucceeds
  <2>2. CASE ScanMemory(Chunks[region[p]]) # {}
    <3>1. \A r \in Regions : (Behind(r)' <=> Behind(r)) /\ (Listed(r)' <=> Listed(r))
      BY <1>10, <2>2 DEF ScanSucceeds, Behind, Listed, Reportable, Mid, TypeOK
    <3>2. QED BY <1>2, <1>10, <3>1 DEF ScanSucceeds
  <2>3. QED BY <2>1, <2>2
<1>11. ASSUME NEW p \in Processes, ScanThrows(p) PROVE ReportInv'
  BY <1>9, <1>11 DEF ScanThrows
<1>12. ASSUME NEW p \in Processes, AddResult(p) PROVE ReportInv'
  BY <1>9, <1>12 DEF AddResult
<1>13. CASE UnloadFails \/ SaveOutput \/ UNCHANGED vars
  <2>1. \A r \in Regions : (Behind(r)' <=> Behind(r)) /\ (Listed(r)' <=> Listed(r))
    BY <1>13 DEF UnloadFails, SaveOutput, vars, Behind, Listed, Reportable
  <2>2. QED BY <1>2, <1>13, <2>1 DEF UnloadFails, SaveOutput, vars
<1>14. QED
  BY <1>3, <1>4, <1>5, <1>6, <1>7, <1>8, <1>10, <1>11, <1>12, <1>13 DEF Next, ScanStep, Unloaded

\* What saveOutput writes: the matches that addResult reports for every region whose scan has not
\* failed, and every region in the list of dumps.
ReportComplete ==
    phase = "saved" =>
        /\ saved.results = UNION {Reported(r) : r \in {q \in Regions \ failed : Scanned(q)}}
        /\ dumpMemory => {i.region : i \in saved.info} = {r \in Regions : Scanned(r)}

\* Scanner.cpp:206-254: however the threads interleave and whichever of them fail, the output has
\* the results of all regions that a thread has scanned, and of no other.
THEOREM OutputHasEveryRegion == Spec => []ReportComplete
<1>1. Init => ProgressInv /\ ReportInv
  BY ScannerAssumption
     DEF ScannerAssumption, Init, ProgressInv, ReportInv, Behind, Listed, Mid
<1>2. TypeOK /\ ProgressInv /\ ReportInv => ReportComplete
  <2> SUFFICES ASSUME TypeOK, ProgressInv, ReportInv, phase = "saved" PROVE ReportComplete
    BY DEF ReportComplete
  <2>1. saved.info = memoryRegionInfo /\ saved.results = results
    BY DEF ProgressInv
  <2>2. ASSUME NEW r \in Regions PROVE (Behind(r) <=> Scanned(r)) /\ ~Listed(r)
    <3>1. /\ OwnerOf[r] \in Processes /\ at[OwnerOf[r]] \in {"idle", "done"}
          /\ todo[OwnerOf[r]] = {}
          /\ at[OwnerOf[r]] = "idle" <=> OwnerOf[r] \in alive /\ ~listed
      BY ScannerAssumption DEF ScannerAssumption, ProgressInv, AllScansDone, Idle
    <3>2. QED BY <3>1 DEF Behind, Scanned, Listed, Mid
  <2>3. \A x : x \in results <=> \E r \in Regions \ failed : Scanned(r) /\ x \in Reported(r)
    BY <2>2 DEF ReportInv
  <2>4. results = UNION {Reported(r) : r \in {q \in Regions \ failed : Scanned(q)}}
    BY <2>3
  <2>5. dumpMemory => {i.region : i \in memoryRegionInfo} = {r \in Regions : Scanned(r)}
    BY <2>2 DEF ReportInv
  <2>6. QED BY <2>1, <2>4, <2>5 DEF ReportComplete
<1>3. QED BY <1>1, <1>2, ProgressStep, ReportStep, ScannerTyping, PTL DEF Spec

\* Each permit is free, with a scan, or lost with a scan that has failed.
PermitInv ==
    /\ IsFiniteSet(failed)
    /\ Cardinality(Scanning) + permits + Cardinality(failed) = YR_MAX_THREADS

\* The permits, in every step.  A region that fails has not failed before, since its scan is not
\* behind it.
LEMMA PermitStep ==
    TypeOK /\ ProgressInv /\ ReportInv /\ PermitInv /\ [Next]_vars => PermitInv'
<1> USE ScannerAssumption DEF ScannerAssumption
<1> SUFFICES ASSUME TypeOK, ProgressInv, ReportInv, PermitInv, [Next]_vars PROVE PermitInv'
  OBVIOUS
<1>0. /\ IsFiniteSet(Scanning) /\ Cardinality(Scanning) \in Nat /\ permits \in Nat
      /\ IsFiniteSet(failed) /\ Cardinality(failed) \in Nat
  <2>1. Scanning \in SUBSET Processes
    BY DEF Scanning
  <2>2. IsFiniteSet(Scanning) /\ IsFiniteSet(failed)
    BY <2>1, FS_Subset DEF PermitInv
  <2>3. QED BY <2>2, FS_CardinalityType DEF TypeOK
<1>1. ASSUME NEW p \in Processes, Acquire(p) PROVE PermitInv'
  <2>1. p \notin Scanning /\ Scanning' = Scanning \cup {p}
    BY <1>1 DEF Acquire, Scanning, TypeOK
  <2>2. Cardinality(Scanning') = Cardinality(Scanning) + 1
    BY <1>0, <2>1, FS_AddElement
  <2>3. QED BY <1>0, <1>1, <2>2 DEF Acquire, PermitInv
<1>2. ASSUME NEW p \in Processes, ScanSucceeds(p) \/ ScanThrows(p) PROVE PermitInv'
  <2>1. p \in Scanning /\ Scanning' = Scanning \ {p}
    BY <1>2 DEF ScanSucceeds, ScanThrows, Scanning, TypeOK
  <2>2. Cardinality(Scanning') = Cardinality(Scanning) - 1
    BY <1>0, <2>1, FS_RemoveElement
  <2>3. CASE ScanSucceeds(p)
    BY <1>0, <2>2, <2>3 DEF ScanSucceeds, PermitInv
  <2>4. CASE ScanThrows(p)
    <3>1. region[p] \notin failed
      <4>1. region[p] \in RegionsToScan(p) /\ OwnerOf[region[p]] = p /\ at[p] \in Mid
        BY <2>4 DEF ScanThrows, ProgressInv, RegionsToScan, Mid
      <4>2. ~Behind(region[p])
        BY <4>1 DEF Behind
      <4>3. QED BY <4>2 DEF ReportInv
    <3>2. failed' = failed \cup {region[p]} /\ permits' = permits
      BY <2>4 DEF ScanThrows
    <3>3. IsFiniteSet(failed') /\ Cardinality(failed') = Cardinality(failed) + 1
      BY <1>0, <3>1, <3>2, FS_AddElement
    <3>4. QED BY <1>0, <2>2, <3>2, <3>3 DEF PermitInv
  <2>5. QED BY <1>2, <2>3, <2>4
<1>3. ASSUME UNCHANGED <<permits, failed>>, Scanning' = Scanning PROVE PermitInv'
  BY <1>3 DEF PermitInv
<1>4. ASSUME NEW p \in Processes,
             \/ ProcessTerminates(p) \/ ExtractRegions(p) \/ NoRegionLeft(p)
             \/ GetNextRegionId(p) \/ AppendRegionInfo(p) \/ AddResult(p)
             \/ \E r \in Regions : NextRegion(p, r)
      PROVE PermitInv'
  <2>1. UNCHANGED <<permits, failed>>
    BY <1>4 DEF ProcessTerminates, ExtractRegions, NoRegionLeft, GetNextRegionId,
                AppendRegionInfo, AddResult, NextRegion
  <2>2. Scanning' = Scanning
    BY <1>4 DEF ProcessTerminates, Idle, FirstStep, ExtractRegions, NoRegionLeft,
                GetNextRegionId, AppendRegionInfo, AddResult, NextRegion, Scanning, TypeOK
  <2>3. QED BY <1>3, <2>1, <2>2
<1>5. CASE Unload
  <2>1. UNCHANGED <<permits, failed>> /\ Scanning' = Scanning
    BY <1>5 DEF Unload, Idle, FirstStep, Scanning, TypeOK
  <2>2. QED BY <1>3, <2>1
<1>6. CASE UnloadFails \/ SaveOutput \/ UNCHANGED vars
  <2>1. UNCHANGED <<permits, failed>> /\ Scanning' = Scanning
    BY <1>6 DEF UnloadFails, SaveOutput, vars, Scanning
  <2>2. QED BY <1>3, <2>1
<1>7. QED BY <1>1, <1>2, <1>4, <1>5, <1>6 DEF Next, ScanStep, Unloaded

\* Scanner.cpp:133-137: however many processes terminate or are scanned at the shutdown, the Yara
\* rules are never used by more than YR_MAX_THREADS scans in parallel, and a scan that waits does so
\* for another one, unless as many scans have failed as there were permits.
THEOREM ScansAreBounded == Spec => []ScansBounded
<1> USE ScannerAssumption DEF ScannerAssumption
<1>1. Init => ProgressInv /\ ReportInv /\ PermitInv
  <2> SUFFICES ASSUME Init PROVE ProgressInv /\ ReportInv /\ PermitInv
    OBVIOUS
  <2>1. ProgressInv /\ ReportInv
    BY DEF Init, ProgressInv, ReportInv, Behind, Listed, Mid
  <2>2. Scanning = {} /\ failed = {}
    BY DEF Init, Scanning
  <2>3. QED BY <2>1, <2>2, FS_EmptySet DEF Init, PermitInv
<1>2. TypeOK /\ PermitInv => ScansBounded
  <2> SUFFICES ASSUME TypeOK, PermitInv PROVE ScansBounded
    OBVIOUS
  <2>1. Scanning \in SUBSET Processes
    BY DEF Scanning
  <2>2. Cardinality(Scanning) \in Nat /\ Cardinality(failed) \in Nat
    BY <2>1, FS_Subset, FS_CardinalityType DEF PermitInv
  <2>3. QED BY <2>2 DEF PermitInv, ScansBounded, TypeOK
<1>3. QED BY <1>1, <1>2, PermitStep, ProgressStep, ReportStep, ScannerTyping, PTL DEF Spec

\* A set of naturals has a least element.
LEMMA LeastElement ==
    ASSUME NEW T, T \subseteq Nat, T # {}
    PROVE  \E n \in T : \A m \in T : n <= m
<1> DEFINE R == {ss \in Nat \X Nat : ss[1] < ss[2]}
<1>1. IsWellFoundedOn(R, Nat)
  BY NatLessThanWellFounded DEF OpToRel
<1>2. \E n \in T : \A m \in T : <<m, n>> \notin R
  <2> HIDE DEF R
  <2>1. QED BY <1>1, WFMin
<1>3. \A m, n \in Nat : <<m, n>> \in R <=> m < n
  OBVIOUS
<1> HIDE DEF R
<1>4. PICK n \in T : \A m \in T : <<m, n>> \notin R
  BY <1>2
<1>5. \A m \in T : m \in Nat /\ n \in Nat /\ ~(m < n)
  BY <1>3, <1>4
<1>6. \A m \in T : n <= m
  BY <1>5
<1>7. QED BY <1>6

\* Induction over the naturals
LEMMA SetInduction ==
    ASSUME NEW S, 0 \in S, \A n \in S \cap Nat : n + 1 \in S
    PROVE  Nat \subseteq S
<1>1. SUFFICES ASSUME Nat \ S # {} PROVE FALSE
  OBVIOUS
<1>2. PICK n \in Nat \ S : \A m \in Nat \ S : n <= m
  BY <1>1, LeastElement
<1>3. n - 1 \in Nat /\ n - 1 \in S
  BY <1>2
<1>4. QED BY <1>2, <1>3

\* A scan that follows get_first_block and get_next_block sees every block.
LEMMA IteratedAll ==
    ASSUME NEW blocks, Len(blocks) \in Nat
    PROVE  Iterated(blocks) = {blocks[n] : n \in 1 .. Len(blocks)}
<1> DEFINE Step(f) == [n \in 1 .. Len(blocks) |->
                         IF n = 1 THEN FirstBlock
                         ELSE IF f[n - 1] = NoBlock THEN NoBlock
                         ELSE NextBlock(blocks, f[n - 1])]
           index == CHOOSE f : f = Step(f)
           all == [n \in 1 .. Len(blocks) |-> n]
<1>1. Iterated(blocks) = {blocks[index[n]] : n \in {k \in 1 .. Len(blocks) : index[k] # NoBlock}}
  BY DEF Iterated
<1>2. all = Step(all)
  BY DEF FirstBlock, NoBlock, NextBlock
<1>3. index = Step(index)
  <2> HIDE DEF Step, all
  <2>1. QED BY <1>2
<1> HIDE DEF index
<1> DEFINE S == {n \in Nat : n \in 1 .. Len(blocks) => index[n] = n}
<1>4. Nat \subseteq S
  <2>1. 0 \in S
    OBVIOUS
  <2>2. ASSUME NEW n \in S PROVE n + 1 \in S
    <3>1. n \in Nat /\ (n \in 1 .. Len(blocks) => index[n] = n)
      OBVIOUS
    <3>2. ASSUME n + 1 \in 1 .. Len(blocks) PROVE index[n + 1] = n + 1
      BY <3>1, <3>2, <1>3 DEF FirstBlock, NoBlock, NextBlock
    <3>3. QED BY <3>1, <3>2
  <2>3. QED
    <3> HIDE DEF S
    <3>1. QED BY <2>1, <2>2, SetInduction
<1>5. \A n \in 1 .. Len(blocks) : index[n] = n
  BY <1>4
<1>6. QED BY <1>1, <1>5 DEF NoBlock

\* The parts of a region
LEMMA ChunksTyping ==
    ASSUME NEW r \in Regions
    PROVE  /\ Len(Chunks[r]) \in Nat
           /\ DOMAIN Chunks[r] = 1 .. Len(Chunks[r])
           /\ \A n \in DOMAIN Chunks[r] :
                 Chunks[r][n].guestBaseVA \in Nat /\ Chunks[r][n].num_pages \in Nat
<1> DEFINE Mapped == [guestBaseVA : Nat, num_pages : Nat]
<1>1. Chunks[r] \in Seq(Mapped)
  BY RegionsAssumption DEF RegionsAssumption
<1>2. /\ Len(Chunks[r]) \in Nat
      /\ DOMAIN Chunks[r] = 1 .. Len(Chunks[r])
      /\ Chunks[r] \in [1 .. Len(Chunks[r]) -> Mapped]
  <2> HIDE DEF Mapped
  <2>1. QED BY <1>1, LenProperties
<1>3. QED BY <1>2

\* What addResult reports of a region
LEMMA ReportedMatches ==
    ASSUME NEW r \in Regions, NEW x
    PROVE  x \in Reported(r) <=>
              \E m \in MatchesIn(r) :
                  x = [region |-> r, rule |-> m.rule, position |-> BaseOf[r] + (m.base + m.offset)]
<1> DEFINE chunks == Chunks[r]
           found == UNION {FoundIn(block) : block \in Iterated(Blocks(chunks))}
<1>1. Len(chunks) \in Nat /\ DOMAIN chunks = 1 .. Len(chunks) /\ Len(Blocks(chunks)) = Len(chunks)
  BY ChunksTyping DEF Blocks
<1>2. Iterated(Blocks(chunks)) = {Blocks(chunks)[n] : n \in DOMAIN chunks}
  BY <1>1, IteratedAll
<1>3. \A n \in DOMAIN chunks :
        FoundIn(Blocks(chunks)[n]) =
            {m \in YaraMatches : m.base = chunks[n].guestBaseVA
                                 /\ m.base + m.offset < EndOf(chunks[n])}
  <2> SUFFICES ASSUME NEW n \in DOMAIN chunks
               PROVE  FoundIn(Blocks(chunks)[n]) =
                        {m \in YaraMatches : m.base = chunks[n].guestBaseVA
                                 /\ m.base + m.offset < EndOf(chunks[n])}
    OBVIOUS
  <2>1. /\ Blocks(chunks)[n].base = chunks[n].guestBaseVA
        /\ Blocks(chunks)[n].size = chunks[n].num_pages * pageSizeInBytes
    BY DEF Blocks
  <2>2. /\ chunks[n].guestBaseVA \in Nat /\ chunks[n].num_pages \in Nat
        /\ chunks[n].num_pages * pageSizeInBytes \in Nat
    BY ChunksTyping, YaraAssumption DEF YaraAssumption
  <2>3. QED BY <2>1, <2>2, YaraAssumption DEF YaraAssumption, FoundIn, EndOf
<1>4. found = MatchesIn(r)
  BY <1>2, <1>3 DEF MatchesIn
<1>5. ScanMemory(chunks) = {Rule(rule, found) : rule \in {m.rule : m \in found}}
  BY DEF ScanMemory
<1> DEFINE Report(name, position) ==
              [region |-> r, rule |-> name, position |-> BaseOf[r] + position]
<1>6. x \in Reported(r) <=>
         \E rule \in ScanMemory(chunks) : \E pos \in rule.matches : x = Report(rule.ruleName, pos)
  BY DEF Reported
<1> HIDE DEF found, chunks, Report
<1>7. \A name : Rule(name, found).ruleName = name
               /\ \A pos : pos \in Rule(name, found).matches <=>
                              \E m \in found : m.rule = name /\ pos = m.base + m.offset
  BY DEF Rule
<1>8. (\E rule \in ScanMemory(chunks) : \E pos \in rule.matches : x = Report(rule.ruleName, pos))
         <=> \E n \in found : \E pos \in Rule(n.rule, found).matches : x = Report(n.rule, pos)
  <2>1. \A rule : rule \in ScanMemory(chunks) <=> \E n \in found : rule = Rule(n.rule, found)
    BY <1>5
  <2>2. \A n : Rule(n.rule, found).ruleName = n.rule
    BY <1>7
  <2>3. ASSUME NEW rule \in ScanMemory(chunks), NEW pos \in rule.matches,
               x = Report(rule.ruleName, pos)
        PROVE  \E n \in found : \E q \in Rule(n.rule, found).matches : x = Report(n.rule, q)
    <3>1. PICK n \in found : rule = Rule(n.rule, found)
      BY <2>1
    <3>2. pos \in Rule(n.rule, found).matches /\ x = Report(n.rule, pos)
      BY <2>2, <2>3, <3>1
    <3>3. QED BY <3>2
  <2>4. ASSUME NEW n \in found, NEW pos \in Rule(n.rule, found).matches, x = Report(n.rule, pos)
        PROVE  \E rule \in ScanMemory(chunks) : \E q \in rule.matches :
                  x = Report(rule.ruleName, q)
    <3>1. Rule(n.rule, found) \in ScanMemory(chunks)
      BY <2>1
    <3>2. x = Report(Rule(n.rule, found).ruleName, pos)
      BY <2>2, <2>4
    <3>3. QED BY <3>1, <3>2
  <2>5. QED BY <2>3, <2>4
<1>9. x \in Reported(r) <=> \E m \in found : x = Report(m.rule, m.base + m.offset)
  BY <1>6, <1>7, <1>8
<1>10. QED BY <1>4, <1>9 DEF Report

\* OutputXML.cpp:17-46, Scanner.cpp:223-239: in every order of the threads, the saved output has
\* each match at the address its position names, of the regions that were scanned and of no other.
THEOREM OutputComplete == Spec => []SavedOutputComplete
<1>1. ReportComplete => SavedOutputComplete
  <2> SUFFICES ASSUME ReportComplete, phase = "saved"
               PROVE  {<<i.region, i.rule, i.position - BaseOf[i.region]>> : i \in saved.results} =
                        UNION {{<<r, m.rule, m.base + m.offset>> : m \in MatchesIn(r)} :
                                  r \in {q \in Regions \ failed : Scanned(q)}}
    BY DEF ReportComplete, SavedOutputComplete
  <2> DEFINE R == {q \in Regions \ failed : Scanned(q)}
             Row(i) == <<i.region, i.rule, i.position - BaseOf[i.region]>>
             Report(r, m) ==
                [region |-> r, rule |-> m.rule, position |-> BaseOf[r] + (m.base + m.offset)]
  <2>1. \A x : x \in saved.results <=> \E r \in R : \E m \in MatchesIn(r) : x = Report(r, m)
    BY ReportedMatches DEF ReportComplete
  <2>2. \A r \in R : \A m \in MatchesIn(r) :
            Row(Report(r, m)) = <<r, m.rule, m.base + m.offset>>
    <3> SUFFICES ASSUME NEW r \in R, NEW m \in MatchesIn(r)
                 PROVE  (BaseOf[r] + (m.base + m.offset)) - BaseOf[r] = m.base + m.offset
      OBVIOUS
    <3>1. BaseOf[r] \in Nat /\ m.base \in Nat /\ m.offset \in Nat
      BY RegionsAssumption, YaraAssumption DEF RegionsAssumption, YaraAssumption, MatchesIn
    <3>2. QED BY <3>1
  <2>3. \A y : (\E i \in saved.results : y = Row(i)) <=>
                  \E r \in R : \E m \in MatchesIn(r) : y = <<r, m.rule, m.base + m.offset>>
    <3> HIDE DEF Row, Report, R
    <3>1. QED BY <2>1, <2>2
  <2>4. QED BY <2>3
<1>2. QED BY <1>1, OutputHasEveryRegion, PTL

-----------------------------------------------------------------------------
\* f satisfies the recursive definition that starts with first and goes on with step.
Solves(f, N, first, step) ==
    \A n \in 1 .. N : f[n] = IF n = 1 THEN first ELSE step[n][f[n - 1]]

\* A function that is defined by recursion over 1 .. N exists.
LEMMA RecursiveSequence ==
    ASSUME NEW N \in Nat, NEW V, NEW first \in V, NEW step \in [1 .. N -> [V -> V]]
    PROVE  \E f \in [1 .. N -> V] : Solves(f, N, first, step)
<1> USE DEF Solves
<1> DEFINE S == {m \in Nat : m <= N => \E f \in [1 .. m -> V] : Solves(f, m, first, step)}
<1>1. 0 \in S
  <2>1. [n \in 1 .. 0 |-> first] \in [1 .. 0 -> V]
    OBVIOUS
  <2>2. \A n : n \notin 1 .. 0
    OBVIOUS
  <2>3. QED BY <2>1, <2>2
<1>2. ASSUME NEW m \in S PROVE m + 1 \in S
  <2>1. SUFFICES ASSUME m + 1 <= N PROVE \E f \in [1 .. m + 1 -> V] : Solves(f, m + 1, first, step)
    OBVIOUS
  <2>2. PICK f \in [1 .. m -> V] : Solves(f, m, first, step)
    BY <2>1
  <2> DEFINE g == [n \in 1 .. m + 1 |-> IF n <= m THEN f[n]
                                        ELSE IF n = 1 THEN first ELSE step[n][f[n - 1]]]
  <2>3. g \in [1 .. m + 1 -> V]
    BY <2>1, <2>2
  <2>4. ASSUME NEW n \in 1 .. m + 1
        PROVE  g[n] = IF n = 1 THEN first ELSE step[n][g[n - 1]]
    <3>1. n # 1 => n - 1 \in 1 .. m /\ g[n - 1] = f[n - 1]
      BY <2>1
    <3>2. CASE n <= m
      <4>1. g[n] = f[n] /\ n \in 1 .. m
        BY <2>1, <3>2
      <4>2. QED BY <2>2, <3>1, <4>1
    <3>3. CASE n = m + 1
      <4>1. g[n] = IF n = 1 THEN first ELSE step[n][f[n - 1]]
        BY <3>3
      <4>2. QED BY <3>1, <4>1
    <3>4. QED BY <3>2, <3>3
  <2>5. QED BY <2>3, <2>4
<1>3. N \in S
  <2> HIDE DEF S
  <2>1. QED BY <1>1, <1>2, SetInduction
<1>4. QED BY <1>3

\* The addresses of a part of a region
LEMMA PagesOfProperties ==
    ASSUME NEW chunk, chunk.guestBaseVA \in Nat, chunk.num_pages \in Nat
    PROVE  /\ PagesOf(chunk) \in Seq(Nat)
           /\ Len(PagesOf(chunk)) = chunk.num_pages
           /\ EndOf(chunk) \in Nat
           /\ \A i \in 1 .. chunk.num_pages :
                 /\ chunk.guestBaseVA <= PagesOf(chunk)[i]
                 /\ PagesOf(chunk)[i] < EndOf(chunk)
                 /\ i < chunk.num_pages =>
                       PagesOf(chunk)[i + 1] = PagesOf(chunk)[i] + pageSizeInBytes
           /\ \A i, j \in 1 .. chunk.num_pages : i < j => PagesOf(chunk)[i] < PagesOf(chunk)[j]
<1> DEFINE size == pageSizeInBytes
           base == chunk.guestBaseVA
           num == chunk.num_pages
<1>1. size \in Nat \ {0} /\ base \in Nat /\ num \in Nat
  BY YaraAssumption DEF YaraAssumption
<1>2. /\ PagesOf(chunk) = [i \in 1 .. num |-> base + (i - 1) * size]
      /\ EndOf(chunk) = base + num * size
  BY DEF PagesOf, EndOf
<1> HIDE DEF size, base, num
<1>3. \A i, j \in Nat : i < j => i * size + size <= j * size
  <2>1. ASSUME NEW i \in Nat, NEW j \in Nat, i < j PROVE i * size + size <= j * size
    <3>1. PICK d \in Nat : j = i + 1 + d
      <4>1. j - i - 1 \in Nat /\ j = i + 1 + (j - i - 1)
        BY <2>1
      <4>2. QED BY <4>1
    <3>2. j * size = i * size + size + d * size /\ d * size \in Nat
      BY <1>1, <3>1
    <3>3. i * size \in Nat
      BY <1>1
    <3>4. QED BY <1>1, <3>2, <3>3
  <2>2. QED BY <2>1
<1>4. \A i \in Nat : i * size \in Nat /\ (i + 1) * size = i * size + size
  BY <1>1
<1>5. PagesOf(chunk) \in Seq(Nat) /\ Len(PagesOf(chunk)) = num /\ EndOf(chunk) \in Nat
  BY <1>1, <1>2, <1>4
<1>6. ASSUME NEW i \in 1 .. num, NEW j \in 1 .. num, i < j
      PROVE  PagesOf(chunk)[i] < PagesOf(chunk)[j]
  <2>1. (i - 1) * size + size <= (j - 1) * size /\ (i - 1) * size \in Nat /\ (j - 1) * size \in Nat
    <3>1. i - 1 \in Nat /\ j - 1 \in Nat /\ i - 1 < j - 1
      BY <1>6
    <3>2. QED BY ONLY <1>3, <1>4, <3>1
  <2>2. QED BY <1>1, <1>2, <2>1
<1>7. ASSUME NEW i \in 1 .. num
      PROVE  /\ base <= PagesOf(chunk)[i] /\ PagesOf(chunk)[i] < EndOf(chunk)
             /\ i < num => PagesOf(chunk)[i + 1] = PagesOf(chunk)[i] + size
  <2>1. (i - 1) * size + size <= num * size /\ (i - 1) * size \in Nat /\ num * size \in Nat
    BY <1>1, <1>3, <1>4
  <2>2. i * size = (i - 1) * size + size
    <3>1. i - 1 \in Nat /\ (i - 1) + 1 = i
      OBVIOUS
    <3>2. QED BY <1>4, <3>1
  <2>3. PagesOf(chunk)[i] = base + (i - 1) * size
    BY <1>2
  <2>4. i < num => PagesOf(chunk)[i + 1] = base + i * size
    BY <1>1, <1>2
  <2>5. QED BY <1>1, <1>2, <2>1, <2>2, <2>3, <2>4
<1>8. QED BY <1>5, <1>6, <1>7 DEF size, base, num

Datum == Nat \cup {None}

\* A dump has no two pages out of their order, and none side by side that are not neighbours.
Ordered(d) ==
    /\ \A k, n \in 1 .. Len(d) : k < n /\ d[k] # None /\ d[n] # None => d[k] < d[n]
    /\ \A k \in 1 .. Len(d) - 1 :
          d[k] # None /\ d[k + 1] # None => d[k + 1] = d[k] + pageSizeInBytes

\* A page of zeros between two parts keeps the order.
LEMMA JoinOrdered ==
    ASSUME NEW s \in Seq(Datum), NEW t \in Seq(Nat), Ordered(s), Ordered(t), NEW bound \in Nat,
           \A k \in 1 .. Len(s) : s[k] # None => s[k] < bound,
           \A k \in 1 .. Len(t) : bound <= t[k]
    PROVE  LET d == s \o <<None>> \o t
           IN  /\ d \in Seq(Datum) /\ Ordered(d) /\ Len(d) = Len(s) + 1 + Len(t)
               /\ \A k \in 1 .. Len(d) :
                     d[k] = IF k <= Len(s) THEN s[k]
                            ELSE IF k = Len(s) + 1 THEN None ELSE t[k - Len(s) - 1]
<1> DEFINE d == s \o <<None>> \o t
<1>1. t \in Seq(Datum) /\ <<None>> \in Seq(Datum) /\ Len(<<None>>) = 1 /\ <<None>>[1] = None
  <2>1. Nat \subseteq Datum /\ None \in Datum
    BY DEF Datum
  <2>2. t \in Seq(Datum)
    BY <2>1, SeqMonotonic
  <2>3. QED BY <2>1, <2>2
<1>2. /\ s \o <<None>> \in Seq(Datum) /\ Len(s \o <<None>>) = Len(s) + 1
      /\ \A k \in 1 .. Len(s) + 1 : (s \o <<None>>)[k] = IF k <= Len(s) THEN s[k] ELSE None
  <2>1. Len(s) \in Nat
    BY LenProperties
  <2>2. /\ s \o <<None>> \in Seq(Datum) /\ Len(s \o <<None>>) = Len(s) + Len(<<None>>)
        /\ \A k \in 1 .. Len(s) + Len(<<None>>) :
              (s \o <<None>>)[k] = IF k <= Len(s) THEN s[k] ELSE <<None>>[k - Len(s)]
    BY <1>1, ConcatProperties
  <2>3. QED BY <1>1, <2>1, <2>2
<1>3. /\ d \in Seq(Datum) /\ Len(d) = Len(s) + 1 + Len(t)
      /\ \A k \in 1 .. Len(d) : d[k] = IF k <= Len(s) THEN s[k]
                                       ELSE IF k = Len(s) + 1 THEN None ELSE t[k - Len(s) - 1]
  <2>1. Len(s) \in Nat /\ Len(t) \in Nat
    BY LenProperties
  <2>2. /\ d \in Seq(Datum) /\ Len(d) = Len(s \o <<None>>) + Len(t)
        /\ \A k \in 1 .. Len(s \o <<None>>) + Len(t) :
              d[k] = IF k <= Len(s \o <<None>>) THEN (s \o <<None>>)[k]
                     ELSE t[k - Len(s \o <<None>>)]
    BY <1>1, <1>2, ConcatProperties
  <2>3. QED BY <1>2, <2>1, <2>2
<1> HIDE DEF d
<1>4. Len(s) \in Nat /\ Len(t) \in Nat
  BY LenProperties
<1>5. \A k \in 1 .. Len(s) : s[k] # None => s[k] \in Nat
  BY ElementOfSeq DEF Datum
<1>6. \A k \in 1 .. Len(t) : t[k] \in Nat /\ t[k] # None
  BY ElementOfSeq, RegionsAssumption DEF RegionsAssumption
<1>7. ASSUME NEW k \in 1 .. Len(d), NEW n \in 1 .. Len(d), k < n, d[k] # None, d[n] # None
      PROVE  d[k] < d[n]
  <2>0. k # Len(s) + 1 /\ n # Len(s) + 1 /\ Len(d) \in Nat
    <3>1. Len(s) + 1 \in 1 .. Len(d) /\ d[Len(s) + 1] = None /\ Len(d) \in Nat
      BY <1>3, <1>4
    <3>2. QED BY <1>7, <3>1
  <2>1. CASE n <= Len(s)
    <3>1. d[k] = s[k] /\ d[n] = s[n] /\ k \in 1 .. Len(s) /\ n \in 1 .. Len(s)
      BY <1>3, <1>4, <1>7, <2>1
    <3>2. QED BY <1>7, <3>1 DEF Ordered
  <2>2. CASE k <= Len(s) /\ n > Len(s) + 1
    <3>1. d[k] = s[k] /\ d[n] = t[n - Len(s) - 1] /\ n - Len(s) - 1 \in 1 .. Len(t)
          /\ k \in 1 .. Len(s)
      BY <1>3, <1>4, <2>2
    <3>2. s[k] < bound /\ bound <= t[n - Len(s) - 1]
      BY <1>7, <3>1
    <3>3. QED BY <1>5, <1>6, <1>7, <3>1, <3>2
  <2>3. CASE k > Len(s) + 1
    <3>1. /\ d[k] = t[k - Len(s) - 1] /\ d[n] = t[n - Len(s) - 1]
          /\ k - Len(s) - 1 \in 1 .. Len(t) /\ n - Len(s) - 1 \in 1 .. Len(t)
          /\ k - Len(s) - 1 < n - Len(s) - 1
      BY <1>3, <1>4, <1>7, <2>3
    <3>2. QED BY <1>7, <3>1 DEF Ordered
  <2>4. n <= Len(s) \/ (k <= Len(s) /\ n > Len(s) + 1) \/ k > Len(s) + 1
    BY <1>4, <1>7, <2>0
  <2>5. QED BY <2>1, <2>2, <2>3, <2>4
<1>8. ASSUME NEW k \in 1 .. Len(d) - 1, d[k] # None, d[k + 1] # None
      PROVE  d[k + 1] = d[k] + pageSizeInBytes
  <2>0. k # Len(s) + 1 /\ k # Len(s)
    <3>1. Len(s) + 1 \in 1 .. Len(d) /\ d[Len(s) + 1] = None /\ Len(d) \in Nat
      BY <1>3, <1>4
    <3>2. QED BY <1>8, <3>1
  <2>1. CASE k + 1 <= Len(s)
    <3>1. k \in 1 .. Len(s) - 1 /\ d[k] = s[k] /\ d[k + 1] = s[k + 1]
      BY <1>3, <1>4, <2>1
    <3>2. QED BY <1>8, <3>1 DEF Ordered
  <2>2. CASE k > Len(s) + 1
    <3>1. /\ k - Len(s) - 1 \in 1 .. Len(t) - 1 /\ d[k] = t[k - Len(s) - 1]
          /\ d[k + 1] = t[(k - Len(s) - 1) + 1]
      BY <1>3, <1>4, <2>2
    <3>2. QED BY <1>8, <3>1 DEF Ordered
  <2>3. k + 1 <= Len(s) \/ k > Len(s) + 1
    BY <1>3, <1>4, <2>0
  <2>4. QED BY <2>1, <2>2, <2>3
<1>9. Ordered(d)
  BY <1>7, <1>8 DEF Ordered
<1>10. QED BY <1>3, <1>9 DEF d

\* The dump d has the pages of these parts, in their order, and no others.
ShowsChunks(d, chunks) ==
    /\ d \in Seq(Datum) /\ Ordered(d)
    /\ \A x : x # None /\ (\E k \in 1 .. Len(d) : x = d[k]) <=>
          \E j \in DOMAIN chunks : \E m \in 1 .. chunks[j].num_pages : x = PagesOf(chunks[j])[m]

\* What constructPaddedMemoryRegion builds from the parts of a region
LEMMA PaddedRegionFaithful ==
    ASSUME NEW r \in Regions, Chunks[r] # <<>>
    PROVE  ShowsChunks(PaddedRegion(Chunks[r]), Chunks[r])
<1> DEFINE chunks == Chunks[r]
           N == Len(chunks)
           pages == [n \in 1 .. N |-> PagesOf(chunks[n])]
           Step(f) == [n \in 1 .. N |-> IF n = 1 THEN PagesOf(chunks[1])
                                        ELSE f[n - 1] \o <<None>> \o PagesOf(chunks[n])]
           padded == CHOOSE f : f = Step(f)
<1>1. /\ N \in Nat \ {0} /\ DOMAIN chunks = 1 .. N
      /\ \A n \in 1 .. N : chunks[n].guestBaseVA \in Nat /\ chunks[n].num_pages \in Nat
  <2>1. chunks \in Seq([guestBaseVA : Nat, num_pages : Nat])
    BY RegionsAssumption DEF RegionsAssumption
  <2>2. N \in Nat \ {0}
    BY <2>1, EmptySeq
  <2>3. QED BY <2>2, ChunksTyping
<1>2. \A n \in 1 .. N : pages[n] = PagesOf(chunks[n]) /\ pages[n] \in Seq(Nat)
  BY <1>1, PagesOfProperties
<1>3. PaddedRegion(chunks) = padded[N]
  BY DEF PaddedRegion
<1>4. padded = Step(padded)
  <2> DEFINE step == [n \in 1 .. N |-> [s \in Seq(Datum) |-> s \o <<None>> \o pages[n]]]
             first == pages[1]
  <2>1. \A n \in 1 .. N : pages[n] \in Seq(Datum)
    BY <1>2, SeqMonotonic DEF Datum
  <2>2. <<None>> \in Seq(Datum)
    BY DEF Datum
  <2>3. step \in [1 .. N -> [Seq(Datum) -> Seq(Datum)]]
    <3>1. ASSUME NEW n \in 1 .. N, NEW s \in Seq(Datum)
          PROVE  s \o <<None>> \o pages[n] \in Seq(Datum)
      BY <2>1, <2>2, ConcatProperties
    <3>2. QED BY <3>1
  <2>4. first \in Seq(Datum)
    BY <1>1, <2>1
  <2>5. PICK f \in [1 .. N -> Seq(Datum)] :
            \A n \in 1 .. N : f[n] = IF n = 1 THEN first ELSE step[n][f[n - 1]]
    <3> DEFINE V == Seq(Datum)
    <3>1. N \in Nat
      BY <1>1
    <3>2. first \in V /\ step \in [1 .. N -> [V -> V]]
      BY <2>3, <2>4
    <3> HIDE DEF first, step, N, chunks, V
    <3>3. \E f \in [1 .. N -> V] : Solves(f, N, first, step)
      BY <3>1, <3>2, RecursiveSequence
    <3>4. QED BY <3>3 DEF V, Solves
  <2>6. \A n \in 1 .. N : f[n] = IF n = 1 THEN PagesOf(chunks[1])
                                 ELSE f[n - 1] \o <<None>> \o PagesOf(chunks[n])
    <3> SUFFICES ASSUME NEW n \in 1 .. N
                 PROVE  f[n] = IF n = 1 THEN PagesOf(chunks[1])
                               ELSE f[n - 1] \o <<None>> \o PagesOf(chunks[n])
      OBVIOUS
    <3>1. CASE n = 1
      BY <1>2, <2>5, <3>1
    <3>2. CASE n # 1
      <4>1. n - 1 \in 1 .. N /\ f[n - 1] \in Seq(Datum)
        BY <1>1, <3>2
      <4>2. f[n] = step[n][f[n - 1]]
        BY <2>5, <3>2
      <4>3. QED BY <1>2, <3>2, <4>1, <4>2
    <3>3. QED BY <3>1, <3>2
  <2>7. f = Step(f)
    BY <2>6
  <2>8. QED
    <3> HIDE DEF Step
    <3>1. QED BY <2>7
<1> HIDE DEF padded
<1>5. \A n \in 1 .. N : padded[n] = IF n = 1 THEN PagesOf(chunks[1])
                                    ELSE padded[n - 1] \o <<None>> \o PagesOf(chunks[n])
  BY <1>4
<1> HIDE DEF chunks, N, pages, Step
<1> DEFINE Has(n, x) == x # None /\ \E k \in 1 .. Len(padded[n]) : x = padded[n][k]
           Page(n, x) == \E m \in 1 .. chunks[n].num_pages : x = PagesOf(chunks[n])[m]
           Claim(n) == /\ padded[n] \in Seq(Datum) /\ Ordered(padded[n])
                       /\ \A k \in 1 .. Len(padded[n]) :
                             padded[n][k] # None => padded[n][k] < EndOf(chunks[n])
                       /\ \A x : Has(n, x) <=> \E j \in 1 .. n : Page(j, x)
<1>6. ASSUME NEW n \in 1 .. N
      PROVE  /\ PagesOf(chunks[n]) \in Seq(Nat) /\ Ordered(PagesOf(chunks[n]))
             /\ Len(PagesOf(chunks[n])) = chunks[n].num_pages
             /\ EndOf(chunks[n]) \in Nat
             /\ \A m \in 1 .. chunks[n].num_pages :
                   /\ PagesOf(chunks[n])[m] \in Nat /\ PagesOf(chunks[n])[m] # None
                   /\ chunks[n].guestBaseVA <= PagesOf(chunks[n])[m]
                   /\ PagesOf(chunks[n])[m] < EndOf(chunks[n])
  <2> DEFINE t == PagesOf(chunks[n])
             num == chunks[n].num_pages
  <2>1. /\ num \in Nat /\ t \in Seq(Nat) /\ Len(t) = num /\ EndOf(chunks[n]) \in Nat
        /\ \A m \in 1 .. num :
              /\ chunks[n].guestBaseVA <= t[m] /\ t[m] < EndOf(chunks[n])
              /\ m < num => t[m + 1] = t[m] + pageSizeInBytes
        /\ \A i, j \in 1 .. num : i < j => t[i] < t[j]
    BY <1>1, PagesOfProperties
  <2>2. \A m \in 1 .. num : t[m] \in Nat /\ t[m] # None
    BY <2>1, ElementOfSeq, RegionsAssumption DEF RegionsAssumption
  <2>3. \A m \in 1 .. num - 1 : m \in 1 .. num /\ m < num
    BY <2>1
  <2>4. Ordered(t)
    BY <2>1, <2>3 DEF Ordered
  <2>5. QED BY <2>1, <2>2, <2>4
<1>7. 1 \in 1 .. N => Claim(1)
  <2>1. padded[1] = PagesOf(chunks[1]) /\ 1 \in 1 .. N
    BY <1>1, <1>5
  <2>2. padded[1] \in Seq(Datum)
    BY <1>6, <2>1, SeqMonotonic DEF Datum
  <2>3. \A x : Has(1, x) <=> Page(1, x)
    BY <1>6, <2>1
  <2>4. \A j : j \in 1 .. 1 <=> j = 1
    OBVIOUS
  <2>5. Ordered(padded[1]) /\ \A k \in 1 .. Len(padded[1]) : padded[1][k] < EndOf(chunks[1])
    BY <1>6, <2>1
  <2> HIDE DEF Has, Page
  <2>6. QED BY <2>2, <2>3, <2>4, <2>5
<1>8. ASSUME NEW n \in Nat, n \in 1 .. N, n + 1 \in 1 .. N, Claim(n) PROVE Claim(n + 1)
  <2> DEFINE s == padded[n]
             t == PagesOf(chunks[n + 1])
             u == padded[n + 1]
  <2>1. u = s \o <<None>> \o t
    <3>1. n + 1 # 1 /\ (n + 1) - 1 = n
      BY <1>8
    <3>2. QED BY <1>5, <1>8, <3>1
  <2>2. EndOf(chunks[n]) <= chunks[n + 1].guestBaseVA
    <3>1. \A i, j \in DOMAIN chunks : i < j => EndOf(chunks[i]) <= chunks[j].guestBaseVA
      BY RegionsAssumption DEF RegionsAssumption, chunks
    <3>2. n \in DOMAIN chunks /\ n + 1 \in DOMAIN chunks /\ n < n + 1
      BY <1>1, <1>8
    <3>3. QED BY <3>1, <3>2
  <2>3. /\ s \in Seq(Datum) /\ t \in Seq(Nat) /\ Ordered(s) /\ Ordered(t)
        /\ EndOf(chunks[n]) \in Nat
        /\ \A k \in 1 .. Len(s) : s[k] # None => s[k] < EndOf(chunks[n])
    BY <1>6, <1>8
  <2>4. \A k \in 1 .. Len(t) : t[k] \in Nat /\ t[k] # None /\ EndOf(chunks[n]) <= t[k]
    <3>1. \A k \in 1 .. Len(t) : t[k] \in Nat /\ t[k] # None /\ chunks[n + 1].guestBaseVA <= t[k]
      BY <1>6, <1>8
    <3>2. chunks[n + 1].guestBaseVA \in Nat
      BY <1>1, <1>8
    <3>3. QED BY <2>2, <2>3, <3>1, <3>2
  <2>5. /\ u \in Seq(Datum) /\ Ordered(u) /\ Len(u) = Len(s) + 1 + Len(t)
        /\ \A k \in 1 .. Len(u) : u[k] = IF k <= Len(s) THEN s[k]
                                         ELSE IF k = Len(s) + 1 THEN None ELSE t[k - Len(s) - 1]
    <3> HIDE DEF s, t, u
    <3>1. QED BY <2>1, <2>3, <2>4, JoinOrdered
  <2>6. Len(s) \in Nat /\ Len(t) \in Nat /\ Len(t) = chunks[n + 1].num_pages
    BY <1>6, <1>8, <2>3, LenProperties
  <2>7. EndOf(chunks[n]) <= EndOf(chunks[n + 1]) /\ EndOf(chunks[n + 1]) \in Nat
    <3>1. EndOf(chunks[n + 1]) >= chunks[n + 1].guestBaseVA
      <4>1. chunks[n + 1].num_pages * pageSizeInBytes \in Nat
        BY <1>1, <1>8, YaraAssumption DEF YaraAssumption
      <4>2. QED BY <1>1, <1>8, <4>1 DEF EndOf
    <3>2. EndOf(chunks[n + 1]) \in Nat /\ chunks[n + 1].guestBaseVA \in Nat
      BY <1>1, <1>6, <1>8
    <3>3. QED BY <2>2, <2>3, <3>1, <3>2
  <2>8. ASSUME NEW k \in 1 .. Len(u), u[k] # None PROVE u[k] < EndOf(chunks[n + 1])
    <3>1. CASE k <= Len(s)
      <4>1. u[k] = s[k] /\ k \in 1 .. Len(s) /\ s[k] \in Nat
        BY <2>3, <2>5, <2>6, <2>8, <3>1, ElementOfSeq DEF Datum
      <4>2. s[k] < EndOf(chunks[n])
        BY <2>3, <2>8, <4>1
      <4>3. QED BY <2>3, <2>7, <4>1, <4>2
    <3>2. CASE k > Len(s) + 1
      <4>1. u[k] = t[k - Len(s) - 1] /\ k - Len(s) - 1 \in 1 .. Len(t)
        BY <2>5, <2>6, <3>2
      <4>2. \A m \in 1 .. Len(t) : t[m] < EndOf(chunks[n + 1])
        BY <1>6, <1>8, <2>6
      <4>3. QED BY <4>1, <4>2
    <3>3. k # Len(s) + 1
      BY <2>5, <2>6, <2>8
    <3>4. QED BY <2>6, <3>1, <3>2, <3>3
  <2>9. \A x : Has(n + 1, x) <=> Has(n, x) \/ Page(n + 1, x)
    <3> SUFFICES ASSUME NEW x PROVE Has(n + 1, x) <=> Has(n, x) \/ Page(n + 1, x)
      OBVIOUS
    <3>1. ASSUME NEW k \in 1 .. Len(u), u[k] # None, x = u[k] PROVE Has(n, x) \/ Page(n + 1, x)
      <4>1. CASE k <= Len(s)
        BY <2>5, <2>6, <3>1, <4>1
      <4>2. CASE k > Len(s) + 1
        <5>1. u[k] = t[k - Len(s) - 1] /\ k - Len(s) - 1 \in 1 .. Len(t)
          BY <2>5, <2>6, <4>2
        <5>2. QED BY <2>6, <3>1, <5>1
      <4>3. QED BY <2>5, <2>6, <3>1, <4>1, <4>2
    <3>2. ASSUME NEW k \in 1 .. Len(s), s[k] # None, x = s[k] PROVE Has(n + 1, x)
      <4>1. k \in 1 .. Len(u) /\ u[k] = s[k]
        BY <2>5, <2>6
      <4>2. QED BY <3>2, <4>1
    <3>3. ASSUME NEW m \in 1 .. Len(t), x = t[m] PROVE Has(n + 1, x)
      <4>1. Len(s) + 1 + m \in 1 .. Len(u) /\ u[Len(s) + 1 + m] = t[m]
        <5> HIDE DEF s, t, u
        <5> DEFINE k == Len(s) + 1 + m
        <5>1. k \in Nat /\ k > Len(s) + 1 /\ k - Len(s) - 1 = m /\ k <= Len(s) + 1 + Len(t)
          BY <2>6
        <5>2. k \in 1 .. Len(u)
          BY <2>5, <2>6, <5>1
        <5> HIDE DEF k
        <5>3. u[k] = t[k - Len(s) - 1]
          BY <2>5, <2>6, <5>1, <5>2
        <5>4. QED BY <5>1, <5>2, <5>3 DEF k
      <4>2. QED BY <2>4, <3>3, <4>1
    <3>4. QED BY <2>6, <3>1, <3>2, <3>3
  <2> HIDE DEF Has, Page, s, t
  <2>10. \A x : (\E j \in 1 .. n + 1 : Page(j, x)) <=>
                    (\E j \in 1 .. n : Page(j, x)) \/ Page(n + 1, x)
    <3>1. \A j : j \in 1 .. n + 1 <=> j \in 1 .. n \/ j = n + 1
      OBVIOUS
    <3>2. QED BY <3>1
  <2>11. \A x : Has(n + 1, x) <=> \E j \in 1 .. n + 1 : Page(j, x)
    BY <1>8, <2>9, <2>10
  <2>12. QED BY <2>5, <2>8, <2>11
<1>9. Claim(N)
  <2> DEFINE S == {n \in Nat : n \in 1 .. N => Claim(n)}
  <2> HIDE DEF Claim
  <2>1. 0 \in S
    OBVIOUS
  <2>2. ASSUME NEW n \in S PROVE n + 1 \in S
    <3>1. CASE n = 0
      BY <1>7, <3>1
    <3>2. CASE n # 0
      BY <1>1, <1>8, <3>2
    <3>3. QED BY <3>1, <3>2
  <2>3. N \in S
    <3> HIDE DEF S
    <3>1. QED BY <1>1, <2>1, <2>2, SetInduction
  <2>4. QED BY <1>1, <2>3
<1>10. \A x : Has(N, x) <=> \E j \in DOMAIN chunks : Page(j, x)
  <2> HIDE DEF Has, Page
  <2>1. QED BY <1>1, <1>9
<1>11. padded[N] \in Seq(Datum) /\ Ordered(padded[N])
  BY <1>9
<1>12. ShowsChunks(padded[N], chunks)
  <2> HIDE DEF Claim
  <2>1. QED BY <1>10, <1>11 DEF ShowsChunks
<1>13. QED BY <1>3, <1>12 DEF chunks

\* The name of the file for the dump of a region
FileOf(r, id) == <<NameOf[OwnerOf[r]], BaseOf[r], id>>

\* Each entry is that of a region in memory and names the file of its dump; no other file is there.
DumpInv ==
    /\ \A i \in memoryRegionInfo :
          /\ i.region \in Regions /\ Chunks[i.region] # <<>>
          /\ i.DumpFileName = FileOf(i.region, i.uid)
          /\ (\E file \in dumps : file.name = i.DumpFileName) <=> i.region \notin Unwritable
          /\ \A file \in dumps :
                file.name = i.DumpFileName => file.data = PaddedRegion(Chunks[i.region])
    /\ \A file \in dumps : \E i \in memoryRegionInfo : file.name = i.DumpFileName

\* The dump of another region has another name.
LEMMA NamesDiffer ==
    ASSUME NEW r, NEW q, NEW id, NEW jd, FileOf(r, id) = FileOf(q, jd)
    PROVE  id = jd
BY DEF FileOf

\* One dump is written and listed.
LEMMA DumpStep ==
    ASSUME TypeOK, ProgressInv, DumpIdsUnique, DumpInv, NEW p \in Processes, AppendRegionInfo(p)
    PROVE  DumpInv'
<1> DEFINE new == Entry(p)
           name == FileOf(region[p], uid[p])
           data == PaddedRegion(Chunks[region[p]])
<1>1. /\ memoryRegionInfo' = memoryRegionInfo \cup {new} /\ region[p] \in RegionsToScan(p)
      /\ dumps' = IF region[p] \in Unwritable THEN dumps
                  ELSE {file \in dumps : file.name # name} \cup {[name |-> name, data |-> data]}
  BY DEF AppendRegionInfo, WriteToFile, getMemFileName, createMemoryRegionInformation, Entry,
         FileOf, ProgressInv, Mid
<1>2. new.region = region[p] /\ new.uid = uid[p] /\ new.DumpFileName = name
  BY DEF Entry, toString, createMemoryRegionInformation, getMemFileName, FileOf
<1>3. region[p] \in Regions /\ Chunks[region[p]] # <<>>
  BY <1>1 DEF RegionsToScan
<1>4. \A i \in memoryRegionInfo : i.DumpFileName # name
  BY NamesDiffer DEF DumpInv, DumpIdsUnique, AppendRegionInfo
<1>5. \A file \in dumps : file.name # name
  BY <1>4 DEF DumpInv
<1>6. \A file : file \in dumps' <=> file \in dumps \/ ( /\ region[p] \notin Unwritable
                                                       /\ file = [name |-> name, data |-> data])
  BY <1>1, <1>5
<1> DEFINE written == [name |-> name, data |-> data]
<1>0. written.name = name /\ written.data = data
  OBVIOUS
<1> HIDE DEF new, name, data
<1>7. ASSUME NEW i \in memoryRegionInfo
      PROVE  /\ i.region \in Regions /\ Chunks[i.region] # <<>>
             /\ i.DumpFileName = FileOf(i.region, i.uid)
             /\ (\E file \in dumps' : file.name = i.DumpFileName) <=> i.region \notin Unwritable
             /\ \A file \in dumps' :
                   file.name = i.DumpFileName => file.data = PaddedRegion(Chunks[i.region])
  BY <1>4, <1>6 DEF DumpInv
<1>8. /\ (\E file \in dumps' : file.name = name) <=> region[p] \notin Unwritable
      /\ \A file \in dumps' : file.name = name => file.data = data
  <2>1. \A file \in dumps' : file.name = name => file = written /\ region[p] \notin Unwritable
    BY <1>5, <1>6
  <2>2. region[p] \notin Unwritable => written \in dumps'
    BY <1>6
  <2> HIDE DEF written
  <2>3. QED BY <1>0, <2>1, <2>2
<1>9. \A file \in dumps' : \E i \in memoryRegionInfo' : file.name = i.DumpFileName
  BY <1>1, <1>2, <1>6 DEF DumpInv
<1>10. \A i \in memoryRegionInfo' :
          /\ i.region \in Regions /\ Chunks[i.region] # <<>>
          /\ i.DumpFileName = FileOf(i.region, i.uid)
          /\ (\E file \in dumps' : file.name = i.DumpFileName) <=> i.region \notin Unwritable
          /\ \A file \in dumps' :
                file.name = i.DumpFileName => file.data = PaddedRegion(Chunks[i.region])
  BY <1>1, <1>2, <1>3, <1>7, <1>8 DEF name, data
<1>11. QED BY <1>9, <1>10 DEF DumpInv

\* Scanner.cpp:63-95, Readme.md:13: whatever parts of a region are in memory, the file that its
\* entry names has each of their pages, in their order, and none side by side that are not
\* neighbours in the guest; however the threads interleave, the file is not that of another region,
\* and it is there if it could be written.
THEOREM DumpsAreFaithful == Spec => []DumpsFaithful
<1>1. Init => ProgressInv /\ DumpInv
  BY ScannerAssumption DEF ScannerAssumption, Init, ProgressInv, DumpInv, Mid
<1>2. TypeOK /\ ProgressInv /\ DumpIdsUnique /\ DumpInv /\ [Next]_vars => DumpInv'
  <2> SUFFICES ASSUME TypeOK, ProgressInv, DumpIdsUnique, DumpInv, [Next]_vars PROVE DumpInv'
    OBVIOUS
  <2>1. ASSUME UNCHANGED <<dumps, memoryRegionInfo>> PROVE DumpInv'
    BY <2>1 DEF DumpInv
  <2>2. ASSUME NEW p \in Processes, ProcessTerminates(p) \/ (ScanStep(p) /\ ~AppendRegionInfo(p))
        PROVE  UNCHANGED <<dumps, memoryRegionInfo>>
    BY <2>2 DEF ProcessTerminates, ScanStep, ExtractRegions, NoRegionLeft, GetNextRegionId, Acquire,
                ScanSucceeds, ScanThrows, AddResult, NextRegion
  <2>3. CASE Unload \/ UnloadFails \/ SaveOutput \/ UNCHANGED vars
    BY <2>1, <2>3 DEF Unload, UnloadFails, SaveOutput, vars
  <2>4. QED BY <2>1, <2>2, <2>3, DumpStep DEF Next, Unloaded
<1>3. DumpInv => DumpsFaithful
  <2> SUFFICES ASSUME DumpInv, NEW i \in memoryRegionInfo, NEW file \in dumps,
                      file.name = i.DumpFileName
               PROVE  Shows(file, i.region)
    BY DEF DumpsFaithful, DumpInv
  <2> DEFINE d == file.data
             chunks == Chunks[i.region]
  <2>1. /\ d \in Seq(Datum) /\ Ordered(d)
        /\ \A x : x # None /\ (\E k \in 1 .. Len(d) : x = d[k]) <=>
              \E j \in DOMAIN chunks : \E m \in 1 .. chunks[j].num_pages : x = PagesOf(chunks[j])[m]
    <3>1. i.region \in Regions /\ chunks # <<>> /\ d = PaddedRegion(chunks)
      BY DEF DumpInv
    <3>2. ShowsChunks(d, chunks)
      BY <3>1, PaddedRegionFaithful
    <3>3. QED BY <3>2 DEF ShowsChunks
  <2>2. DOMAIN d = 1 .. Len(d)
    BY <2>1, LenProperties
  <2> HIDE DEF d, chunks
  <2>3. {d[k] : k \in DOMAIN d} \ {None} =
            UNION {{PagesOf(chunk)[n] : n \in 1 .. chunk.num_pages} :
                      chunk \in {chunks[k] : k \in DOMAIN chunks}}
    <3>1. \A x : x \in {d[k] : k \in DOMAIN d} \ {None} <=>
                    x # None /\ \E k \in 1 .. Len(d) : x = d[k]
      BY <2>2
    <3>2. \A x : x \in UNION {{PagesOf(chunk)[n] : n \in 1 .. chunk.num_pages} :
                                chunk \in {chunks[k] : k \in DOMAIN chunks}} <=>
                    \E j \in DOMAIN chunks :
                        \E m \in 1 .. chunks[j].num_pages : x = PagesOf(chunks[j])[m]
      OBVIOUS
    <3>3. QED BY <2>1, <3>1, <3>2
  <2>4. QED BY <2>1, <2>2, <2>3 DEF Ordered, Shows, d, chunks
<1>4. QED BY <1>1, <1>2, <1>3, ProgressStep, IdsAreUnique, ScannerTyping, PTL DEF Spec
=============================================================================
