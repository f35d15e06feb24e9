------------------------------- MODULE Scanner -------------------------------
(***************************************************************************)
(* The InMemoryScanner plugin                                              *)
(* (plugins/inmemoryscanner/src/lib/Scanner.cpp, Dumping.cpp, Dumping.h,   *)
(* OutputXML.cpp, Config.cpp and InMemory.cpp).                            *)
(*                                                                         *)
(* While the guest runs, the event thread scans each process that          *)
(* terminates.  unload scans the processes that still run, each in a       *)
(* thread of its own (std::async), waits for all of them and writes the    *)
(* results.  Yara allows only so many scans at a time, which a counting    *)
(* semaphore enforces; the collected results are guarded by mutexes.       *)
(***************************************************************************)
EXTENDS YaraInterface, FiniteSets

CONSTANTS
    Processes,        \* the processes of the guest
    NameOf,           \* NameOf[p]: the full name of a process
    Unextractable,    \* those whose memory regions cannot be extracted
    Regions,          \* the memory regions of all processes
    OwnerOf, BaseOf,  \* OwnerOf[r], BaseOf[r]: the process and the base address of a region
    Chunks,           \* Chunks[r]: the parts of a region that are in memory, in their order
    SkippedRegions,   \* shared regions that are not the base image of their process
    MayFail,          \* regions whose scan may end with a timeout or an error of Yara
    Unwritable,       \* regions whose dump the file transport does not take
    YR_MAX_THREADS,
    rootNode,         \* the plugin's part of the configuration file: keys and values
    dumpArgument,     \* the switch --dump of the plugin's command line
    None

-----------------------------------------------------------------------------
(* Configuration: parseConfiguration, then the constructor of InMemory     *)

Setting(key, default) == IF key \in DOMAIN rootNode THEN rootNode[key] ELSE default

ignoredProcesses == Setting("ignored_processes", {})
scanAllRegions == Setting("scan_all_regions", FALSE)

\* The switch can only turn dumping on.
dumpMemory == dumpArgument \/ Setting("dump_memory", FALSE)

IgnoredProcesses == {p \in Processes : NameOf[p] \in ignoredProcesses}

ASSUME ScannerAssumption ==
    /\ IsFiniteSet(Processes)
    /\ Unextractable \subseteq Processes
    /\ OwnerOf \in [Regions -> Processes]
    /\ MayFail \subseteq Regions /\ Unwritable \subseteq Regions
    /\ YR_MAX_THREADS \in Nat
    /\ dumpMemory \in BOOLEAN /\ scanAllRegions \in BOOLEAN
    /\ None \notin Regions

\* The first address behind a part of a region
EndOf(chunk) == chunk.guestBaseVA + chunk.num_pages * pageSizeInBytes

\* The parts of a region follow each other in the guest, as libvmi maps them.
ASSUME RegionsAssumption ==
    /\ BaseOf \in [Regions -> Nat]
    /\ Chunks \in [Regions -> Seq([guestBaseVA : Nat, num_pages : Nat])]
    /\ \A r \in Regions : \A i, j \in DOMAIN Chunks[r] :
          i < j => EndOf(Chunks[r][i]) <= Chunks[r][j].guestBaseVA
    /\ None \notin Nat

-----------------------------------------------------------------------------
VARIABLES
    phase,    \* "running", "unloading", "saved"
    listed,   \* getRunningProcesses has not thrown
    alive,    \* what getRunningProcesses returns
    at,       \* at[p]: where the scan of p is
    todo,     \* todo[p]: the regions of p that are left
    region,   \* region[p]: the region that is being scanned
    uid,      \* uid[p]: the region id it got for its dump
    permits,  \* semaphore
    memoryRegionCounter,
    dumps,            \* the files of dumped regions: their names and their pages
    memoryRegionInfo, \* the list of dumped regions
    results,  \* the matches in outputXml
    failed,   \* regions whose scan has failed
    saved     \* what saveOutput has handed to the file transport

dumping == <<memoryRegionCounter, dumps, memoryRegionInfo>>
vars == <<phase, listed, alive, at, todo, region, uid, permits, dumping, results, failed, saved>>

Steps == {"idle", "extract", "next", "dump", "append", "acquire", "scan", "record", "done"}

Init ==
    /\ phase = "running"
    /\ listed = TRUE
    /\ alive = Processes
    /\ at = [p \in Processes |-> "idle"]
    /\ todo = [p \in Processes |-> {}]
    /\ region = [p \in Processes |-> None]
    /\ uid = [p \in Processes |-> 0]
    /\ permits = YR_MAX_THREADS
    /\ memoryRegionCounter = 0
    /\ dumps = {}
    /\ memoryRegionInfo = {}
    /\ results = {}
    /\ failed = {}
    /\ saved = None

ShouldRegionBeScanned(r) == scanAllRegions \/ r \notin SkippedRegions

\* The regions of p that scanMemoryRegion does not return from at once.
RegionsToScan(p) ==
    {r \in Regions : OwnerOf[r] = p /\ ShouldRegionBeScanned(r) /\ Chunks[r] # <<>>}

Idle(p) == at[p] \in {"idle", "done"}

\* Mutant: unload does not wait for the threads.
AllScansDoneUnchecked == TRUE

AllScansDone == \A p \in Processes : Idle(p)

FirstStep(p) == IF p \in IgnoredProcesses THEN "done" ELSE "extract"

\* A process terminates; the event thread scans it before it handles the next event.
ProcessTerminates(p) ==
    /\ phase = "running" /\ p \in alive /\ \A q \in Processes : Idle(q)
    /\ alive' = alive \ {p}
    /\ at' = [at EXCEPT ![p] = FirstStep(p)]
    /\ UNCHANGED <<phase, listed, todo, region, uid, permits, dumping, results, failed, saved>>

\* unload: scanAllProcesses starts a thread for each process
Unload ==
    /\ phase = "running" /\ \A q \in Processes : Idle(q)
    /\ phase' = "unloading"
    /\ at' = [p \in Processes |-> IF p \in alive THEN FirstStep(p) ELSE at[p]]
    /\ UNCHANGED <<listed, alive, todo, region, uid, permits, dumping, results, failed, saved>>

\* getRunningProcesses reads the guest and may throw: unload goes on with what there is.
UnloadFails ==
    /\ phase = "running" /\ \A q \in Processes : Idle(q)
    /\ phase' = "unloading" /\ listed' = FALSE
    /\ UNCHANGED <<alive, at, todo, region, uid, permits, dumping, results, failed, saved>>

\* extractAllMemoryRegions; an exception ends the scan of the process.
ExtractRegions(p) ==
    /\ at[p] = "extract"
    /\ IF p \in Unextractable
       THEN /\ at' = [at EXCEPT ![p] = "done"]
            /\ UNCHANGED todo
       ELSE /\ at' = [at EXCEPT ![p] = "next"]
            /\ todo' = [todo EXCEPT ![p] = RegionsToScan(p)]
    /\ UNCHANGED <<phase, listed, alive, region, uid, permits, dumping, results, failed, saved>>

\* The loop of scanProcess, and scanMemoryRegion up to the dump
NextRegion(p, r) ==
    /\ at[p] = "next" /\ r \in todo[p]
    /\ todo' = [todo EXCEPT ![p] = @ \ {r}]
    /\ region' = [region EXCEPT ![p] = r]
    /\ at' = [at EXCEPT ![p] = IF dumpMemory THEN "dump" ELSE "acquire"]
    /\ UNCHANGED <<phase, listed, alive, uid, permits, dumping, results, failed, saved>>

NoRegionLeft(p) ==
    /\ at[p] = "next" /\ todo[p] = {}
    /\ at' = [at EXCEPT ![p] = "done"]
    /\ UNCHANGED <<phase, listed, alive, todo, region, uid, permits, dumping, results, failed,
                   saved>>

\* Mutant: the id is the length of the list that the region is appended to later.
RegionIdFromList == Cardinality(memoryRegionInfo)

RegionId == memoryRegionCounter

GetNextRegionId(p) ==
    /\ at[p] = "dump"
    /\ uid' = [uid EXCEPT ![p] = RegionId]
    /\ memoryRegionCounter' = memoryRegionCounter + 1
    /\ at' = [at EXCEPT ![p] = "append"]
    /\ UNCHANGED <<phase, listed, alive, todo, region, permits, dumps, memoryRegionInfo, results,
                   failed, saved>>

PagesOf(chunk) ==
    [i \in 1 .. chunk.num_pages |-> chunk.guestBaseVA + (i - 1) * pageSizeInBytes]

\* Mutant: the chunks are copied one behind the other.
UnpaddedRegion(chunks) ==
    LET padded[n \in 1 .. Len(chunks)] ==
            IF n = 1 THEN PagesOf(chunks[1]) ELSE padded[n - 1] \o PagesOf(chunks[n])
    IN  padded[Len(chunks)]

\* The pages of a dump: one page of zeros stands for whatever is missing between two chunks.
PaddedRegion(chunks) ==
    LET padded[n \in 1 .. Len(chunks)] ==
            IF n = 1 THEN PagesOf(chunks[1])
            ELSE padded[n - 1] \o <<None>> \o PagesOf(chunks[n])
    IN  padded[Len(chunks)]

\* What the program keeps of a dump that it is about to write
MemoryRegionInformation ==
    [pid : Processes, processName : {NameOf[p] : p \in Processes}, startAddress : Nat,
     region : Regions, uid : Nat]

createMemoryRegionInformation(r, id) ==
    [pid |-> OwnerOf[r], processName |-> NameOf[OwnerOf[r]], startAddress |-> BaseOf[r],
     region |-> r, uid |-> id]

\* The pid, the flags and the end of a region are left out: they may be those of another region, of
\* a process that had the pid before.
getMemFileName(info) == <<info.processName, info.startAddress, info.uid>>

toString(info) ==
    [region |-> info.region, uid |-> info.uid, DumpFileName |-> getMemFileName(info)]

\* writeToFile: a file of this name is overwritten; an exception of the transport ends here.
WriteToFile(name, r) ==
    dumps' = IF r \in Unwritable THEN dumps
             ELSE {file \in dumps : file.name # name}
                      \cup {[name |-> name, data |-> PaddedRegion(Chunks[r])]}

\* The dump is written, then described in the list.
AppendRegionInfo(p) ==
    LET info == createMemoryRegionInformation(region[p], uid[p]) IN
    /\ at[p] = "append"
    /\ WriteToFile(getMemFileName(info), region[p])
    /\ memoryRegionInfo' = memoryRegionInfo \cup {toString(info)}
    /\ at' = [at EXCEPT ![p] = "acquire"]
    /\ UNCHANGED <<phase, listed, alive, todo, region, uid, permits, memoryRegionCounter, results,
                   failed, saved>>

\* Mutant: a scan starts without a permit.
AcquireUnchecked(p) ==
    /\ at[p] = "acquire"
    /\ at' = [at EXCEPT ![p] = "scan"]
    /\ UNCHANGED <<phase, listed, alive, todo, region, uid, permits, dumping, results, failed,
                   saved>>

Acquire(p) ==
    /\ at[p] = "acquire" /\ permits > 0
    /\ permits' = permits - 1
    /\ at' = [at EXCEPT ![p] = "scan"]
    /\ UNCHANGED <<phase, listed, alive, todo, region, uid, dumping, results, failed, saved>>

\* scanMemory returns, and the permit is released.
ScanSucceeds(p) ==
    /\ at[p] = "scan"
    /\ permits' = permits + 1
    /\ at' = [at EXCEPT ![p] = IF ScanMemory(Chunks[region[p]]) # {} THEN "record"
                               ELSE "next"]
    /\ UNCHANGED <<phase, listed, alive, todo, region, uid, dumping, results, failed, saved>>

\* Mutant: a scan that throws is repeated, without an end.
ScanAgain(p) ==
    /\ at[p] = "scan" /\ region[p] \in MayFail
    /\ permits' = permits + 1
    /\ at' = [at EXCEPT ![p] = "acquire"]
    /\ UNCHANGED <<phase, listed, alive, todo, region, uid, dumping, results, failed, saved>>

\* scanMemory throws: the exception passes the release and is caught in the loop of scanProcess.
ScanThrows(p) ==
    /\ at[p] = "scan" /\ region[p] \in MayFail
    /\ failed' = failed \cup {region[p]}
    /\ at' = [at EXCEPT ![p] = "next"]
    /\ UNCHANGED <<phase, listed, alive, todo, region, uid, permits, dumping, results, saved>>

\* addResult adds the base of the region to a position that is an address already.
Reported(r) ==
    UNION {{[region |-> r, rule |-> rule.ruleName, position |-> BaseOf[r] + position] :
               position \in rule.matches} : rule \in ScanMemory(Chunks[r])}

AddResult(p) ==
    /\ at[p] = "record"
    /\ results' = results \cup Reported(region[p])
    /\ at' = [at EXCEPT ![p] = "next"]
    /\ UNCHANGED <<phase, listed, alive, todo, region, uid, permits, dumping, failed, saved>>

\* scanAllProcesses has waited for its threads.
SaveOutput ==
    /\ phase = "unloading" /\ AllScansDone
    /\ phase' = "saved"
    /\ saved' = [info |-> memoryRegionInfo, results |-> results]
    /\ UNCHANGED <<listed, alive, at, todo, region, uid, permits, dumping, results, failed>>

Unloaded == phase = "saved" /\ UNCHANGED vars

ScanStep(p) ==
    \/ ExtractRegions(p)
    \/ \E r \in Regions : NextRegion(p, r)
    \/ NoRegionLeft(p)
    \/ GetNextRegionId(p)
    \/ AppendRegionInfo(p)
    \/ Acquire(p)
    \/ ScanSucceeds(p)
    \/ ScanThrows(p)
    \/ AddResult(p)

Next ==
    \/ \E p \in Processes : ProcessTerminates(p) \/ ScanStep(p)
    \/ Unload
    \/ UnloadFails
    \/ SaveOutput
    \/ Unloaded

Spec == Init /\ [][Next]_vars

\* The threads run, and a Yara scan ends, at the latest with its timeout.
FairSpec == Spec /\ WF_vars(SaveOutput) /\ \A p \in Processes : WF_vars(ScanStep(p))

-----------------------------------------------------------------------------
TypeOK ==
    /\ phase \in {"running", "unloading", "saved"}
    /\ alive \subseteq Processes
    /\ at \in [Processes -> Steps]
    /\ todo \in [Processes -> SUBSET Regions]
    /\ region \in [Processes -> Regions \cup {None}]
    /\ \A p \in Processes : at[p] \in {"dump", "append", "acquire", "scan", "record"} =>
                            region[p] \in Regions
    /\ uid \in [Processes -> Nat]
    /\ \A p \in Processes : at[p] = "append" =>
          createMemoryRegionInformation(region[p], uid[p]) \in MemoryRegionInformation
    /\ permits \in Nat
    /\ memoryRegionCounter \in Nat
    /\ listed \in BOOLEAN
    /\ failed \subseteq Regions

Scanning == {p \in Processes : at[p] = "scan"}

\* Scanner.cpp:133: the rules are never used by more than YR_MAX_THREADS scans in parallel, and no
\* scan waits for a permit that nobody has: each is free, held by a scan, or was lost by one that
\* failed, and no region fails twice.
ScansBounded ==
    /\ Cardinality(Scanning) <= YR_MAX_THREADS
    /\ permits = YR_MAX_THREADS - Cardinality(Scanning) - Cardinality(failed)

\* No two dumps share their id, although threads take ids and append to the list in any order.
DumpIdsUnique ==
    /\ \A i, j \in memoryRegionInfo : i.uid = j.uid => i = j
    /\ \A p \in Processes, i \in memoryRegionInfo : at[p] = "append" => uid[p] # i.uid
    /\ \A p, q \in Processes : at[p] = "append" /\ at[q] = "append" /\ uid[p] = uid[q] => p = q

\* The regions the plugin is to scan: of every process that has run, unless it is excluded.
Reportable(r) ==
    OwnerOf[r] \notin IgnoredProcesses \cup Unextractable /\ r \in RegionsToScan(OwnerOf[r])

Scanned(r) == Reportable(r) /\ (listed \/ OwnerOf[r] \notin alive)

\* The addresses in a region that the rules match
MatchesIn(r) ==
    {m \in YaraMatches : \E i \in DOMAIN Chunks[r] :
        m.base = Chunks[r][i].guestBaseVA /\ m.base + m.offset < EndOf(Chunks[r][i])}

\* What is saved is complete: every match in every region that the threads have scanned, at the
\* address its position names (counted from the base of the region), and every dumped region.
SavedOutputComplete ==
    phase = "saved" =>
        /\ {<<i.region, i.rule, i.position - BaseOf[i.region]>> : i \in saved.results} =
              UNION {{<<r, m.rule, m.base + m.offset>> : m \in MatchesIn(r)} :
                        r \in {q \in Regions \ failed : Scanned(q)}}
        /\ dumpMemory => {i.region : i \in saved.info} = {r \in Regions : Scanned(r)}

\* The pages of file are those of the region r that are in memory.
Shows(file, r) ==
    /\ {file.data[k] : k \in DOMAIN file.data} \ {None} =
          UNION {{PagesOf(chunk)[n] : n \in 1 .. chunk.num_pages} :
                    chunk \in {Chunks[r][k] : k \in DOMAIN Chunks[r]}}
    /\ \A k, n \in DOMAIN file.data :
          k < n /\ file.data[k] # None /\ file.data[n] # None => file.data[k] < file.data[n]
    /\ \A k \in 1 .. Len(file.data) - 1 :
          file.data[k] # None /\ file.data[k + 1] # None =>
              file.data[k + 1] = file.data[k] + pageSizeInBytes

\* Readme.md:13 of the plugin: the file that an entry of the list names shows what was scanned
\* there: every page that is in memory, in its order, and no two pages side by side that are not
\* neighbours in the guest.  It is never overwritten by the dump of another region, and only missing
\* if it could not be written.
DumpsFaithful ==
    \A i \in memoryRegionInfo :
        /\ \A file \in dumps : file.name = i.DumpFileName => Shows(file, i.region)
        /\ (\E file \in dumps : file.name = i.DumpFileName) <=> i.region \notin Unwritable

\* The shutdown comes to its end, provided that fewer scans fail than there are permits.
UnloadFinishes == phase = "unloading" ~> phase = "saved"

=============================================================================
