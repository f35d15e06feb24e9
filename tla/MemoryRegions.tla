---------------------------- MODULE MemoryRegions ----------------------------
(***************************************************************************)
(* How the memory regions of a process are read out of the guest           *)
(* (vmicore/src/lib/os/windows/VadTreeWin10.cpp and KernelAccess.cpp,      *)
(* linux/MMExtractor.cpp and PathExtractor.cpp, PageProtection.cpp).       *)
(*                                                                         *)
(* On Windows the regions are the nodes of a binary tree.  The walk        *)
(* remembers the nodes that it has seen and leaves out what it cannot      *)
(* read.  On Linux they form a list, the walk remembers nothing, and       *)
(* whatever cannot be read ends it.  The guest may run meanwhile and       *)
(* rewrite its links.                                                      *)
(***************************************************************************)
EXTENDS KernelAccess, Naturals, Sequences, FiniteSets

CONSTANTS
    Nil,           \* the null pointer
    Unreadable,    \* nodes in unmapped memory, or below the kernel space
    WideFlags,     \* areas whose vm_flags do not fit a byte, such as a stack (VM_GROWSDOWN)
    TableLength,   \* mmProtectToValueLength
    MaxChanges,    \* bound on the links that the guest rewrites
    MaxRegions     \* bound on the regions that are kept of a list that never ends

\* A list without a cycle fits into what is kept of one.
ASSUME RegionsAssumption ==
    /\ IsFiniteSet(Nodes) /\ Cardinality(Nodes) <= MaxRegions
    /\ Nil \notin Nodes
    /\ Unreadable \subseteq Nodes
    /\ TableLength \in Nat /\ MaxChanges \in Nat /\ MaxRegions \in Nat

VARIABLES
    os,           \* "windows" or "linux"
    left, right,  \* the links of the guest; an area has only the right one, vm_next
    root,
    table,        \* how many values KernelAccess::mmProtectToValue holds; Nil before the first read
    walk,         \* "idle", "ready", "walking", "done", "failed"
    next,         \* nextVadEntries, a stack; on Linux at most the one area to read next
    visited,      \* visitedVadVAs
    regions,      \* the regions found
    changes       \* ghost: how many links the guest has rewritten during the walk

guest     == <<os, left, right, root>>
regionVars == <<os, left, right, root, table, walk, next, visited, regions, changes>>

Links == Nodes \cup {Nil}

\* The nodes that can be reached from n over readable nodes, n itself included
Below(n) ==
    LET grow[k \in 0..Cardinality(Nodes)] ==
            IF k = 0 THEN {n} \cap Nodes
            ELSE grow[k - 1] \cup {m \in Nodes : \E s \in grow[k - 1] \ Unreadable : m \in {left[s], right[s]}}
    IN  grow[Cardinality(Nodes)]

\* A tree or a list of the guest: no node is linked twice, nor below itself, and one that is not
\* linked links nothing.
WellFormed ==
    /\ \A n, m \in Nodes : n # m => {left[n], right[n]} \cap {left[m], right[m]} \subseteq {Nil}
    /\ \A n \in Nodes : left[n] = right[n] => left[n] = Nil
    /\ \A n \in Nodes : root \notin {left[n], right[n]}
    /\ \A n \in Nodes : {left[n], right[n]} # {Nil} =>
           n = root \/ \E m \in Nodes \ {n} : n \in {left[m], right[m]}
    /\ os = "linux" => \A n \in Nodes : left[n] = Nil

RegionsInit ==
    /\ os \in {"windows", "linux"}
    /\ left \in [Nodes -> Links] /\ right \in [Nodes -> Links] /\ root \in Nodes
    /\ WellFormed
    /\ table = Nil
    /\ walk = "idle"
    /\ next = <<>>
    /\ visited = {}
    /\ regions = <<>>
    /\ changes = 0

-----------------------------------------------------------------------------
(* One region *)

vadEntryIsFileBacked(n) == extractIsImage(n) \/ extractIsFile(n)

\* extractFileName, whose failure createVadt catches
FileName(n) == IF FileNameKnown(n) THEN FileObject(n) ELSE "unknownFilename"

\* createVadt.  Whether it is the image of the process is known only if the file name is.
Region(n) ==
    LET shared == ~extractIsPrivateMemory(n)
        backed == shared /\ vadEntryIsFileBacked(n)
    IN  [node         |-> n,
         file         |-> IF backed THEN FileName(n) ELSE "",
         shared       |-> shared,
         beingDeleted |-> shared /\ extractIsBeingDeleted(n),
         baseImage    |-> backed /\ FileNameKnown(n) /\ FileObject(n) = extractImageFilePointer]

\* createVadt throws nothing, and the table has a value for the protection of n.
Describable(n) ==
    /\ VpnsKnown(n)
    /\ extractIsPrivateMemory(n) \/ ControlAreaKnown(n)
    /\ extractProtectionFlagValue(n) < table

\* Mutant: the region of a node whose description fails ends up in the list.
AnyRegion(n) == <<Region(n)>>

RegionIfAny(n) == IF Describable(n) THEN <<Region(n)>> ELSE <<>>

-----------------------------------------------------------------------------
(* Windows *)

\* The constructor of VadTreeWin10 reads the table of protections once for all processes.
ReadProtections ==
    /\ os = "windows" /\ walk = "idle"
    /\ table' = IF table = Nil THEN TableLength ELSE table
    /\ walk' = "ready"
    /\ UNCHANGED <<guest, next, visited, regions, changes>>

\* A read fails: this process is not recorded, but what was read so far counts as the table for the
\* next one.
ReadProtectionsFails ==
    /\ os = "windows" /\ walk = "idle" /\ table = Nil
    /\ table' \in 0..(TableLength - 1)
    /\ UNCHANGED <<guest, walk, next, visited, regions, changes>>

BeginTree ==
    /\ os = "windows" /\ walk = "ready"
    /\ walk' = "walking"
    /\ next' = <<root>>
    /\ UNCHANGED <<guest, table, visited, regions, changes>>

Top == next[Len(next)]
Pop == SubSeq(next, 1, Len(next) - 1)

\* Mutant: a node is not remembered.
VisitAgain(n) == FALSE

Visited(n) == n \in visited

SkipVisited ==
    /\ os = "windows" /\ walk = "walking" /\ next # <<>>
    /\ Visited(Top)
    /\ next' = Pop
    /\ UNCHANGED <<guest, table, walk, visited, regions, changes>>

\* extractMmVadShortChildNodeAddresses throws.
SkipUnreadable ==
    /\ os = "windows" /\ walk = "walking" /\ next # <<>>
    /\ ~Visited(Top) /\ Top \in Unreadable
    /\ next' = Pop
    /\ visited' = visited \cup {Top}
    /\ UNCHANGED <<guest, table, walk, regions, changes>>

NodeAt(link) == IF link = Nil THEN <<>> ELSE <<link>>

\* Mutant: the children are pushed only if the node could be described.
ChildrenOfDescribed(n) == IF Describable(n) THEN NodeAt(left[n]) \o NodeAt(right[n]) ELSE <<>>

\* Mutant: a null pointer is pushed as well.
ChildrenOrNull(n) == <<left[n], right[n]>>

Children(n) == NodeAt(left[n]) \o NodeAt(right[n])

VisitNode ==
    /\ os = "windows" /\ walk = "walking" /\ next # <<>>
    /\ ~Visited(Top) /\ Top \notin Unreadable
    /\ next' = Pop \o Children(Top)
    /\ visited' = visited \cup {Top}
    /\ regions' = regions \o RegionIfAny(Top)
    /\ UNCHANGED <<guest, table, walk, changes>>

EndOfTree ==
    /\ os = "windows" /\ walk = "walking" /\ next = <<>>
    /\ walk' = "done"
    /\ UNCHANGED <<guest, table, next, visited, regions, changes>>

-----------------------------------------------------------------------------
(* Linux *)

BeginList ==
    /\ os = "linux" /\ walk = "idle"
    /\ walk' = "walking"
    /\ next' = <<root>>
    /\ UNCHANGED <<guest, table, visited, regions, changes>>

\* createPath: what cannot be read of a path is left out.
DPath(n) == IF vadEntryIsFileBacked(n) /\ FileNameKnown(n) THEN FileOf[n] ELSE ""

AreaRegion(n) ==
    [node |-> n, file |-> DPath(n), shared |-> "private" \notin FlagsOf[n],
     beingDeleted |-> FALSE, baseImage |-> FALSE]

\* The area, and the path in its file if it has one
AreaKnown(n) == n \notin Unreadable /\ (vadEntryIsFileBacked(n) => Reads(n, {"fileObject"}))

\* The constructor of PageProtection takes the flags.
ByteFlags(n) == n \notin WideFlags

VisitArea ==
    /\ os = "linux" /\ walk = "walking" /\ next # <<>>
    /\ AreaKnown(Top) /\ ByteFlags(Top)
    /\ regions' = IF Len(regions) < MaxRegions THEN Append(regions, AreaRegion(Top)) ELSE regions
    /\ next' = IF right[Top] = Nil THEN <<>> ELSE <<right[Top]>>
    /\ UNCHANGED <<guest, table, walk, visited, changes>>

\* A read throws, or the constructor of PageProtection: nothing is returned.
ListFails ==
    /\ os = "linux" /\ walk = "walking" /\ next # <<>>
    /\ ~AreaKnown(Top) \/ ~ByteFlags(Top)
    /\ walk' = "failed"
    /\ regions' = <<>>
    /\ next' = <<>>
    /\ UNCHANGED <<guest, table, visited, changes>>

EndOfList ==
    /\ os = "linux" /\ walk = "walking" /\ next = <<>>
    /\ walk' = "done"
    /\ UNCHANGED <<guest, table, next, visited, regions, changes>>

-----------------------------------------------------------------------------
\* The guest unlinks a node, or links it somewhere else: one pointer is written at a time.
Rewrite(n, m) ==
    /\ walk = "walking" /\ changes < MaxChanges
    /\ \/ os = "windows" /\ left' = [left EXCEPT ![n] = m] /\ UNCHANGED right
       \/ right' = [right EXCEPT ![n] = m] /\ UNCHANGED left
    /\ changes' = changes + 1
    /\ UNCHANGED <<os, root, table, walk, next, visited, regions>>

WalkStep ==
    \/ ReadProtections \/ BeginTree \/ SkipVisited \/ SkipUnreadable \/ VisitNode \/ EndOfTree
    \/ BeginList \/ VisitArea \/ ListFails \/ EndOfList

RegionsNext ==
    \/ WalkStep
    \/ ReadProtectionsFails
    \/ \E n \in Nodes, m \in Links : Rewrite(n, m)

RegionsSpec == RegionsInit /\ [][RegionsNext]_regionVars /\ WF_regionVars(WalkStep)

-----------------------------------------------------------------------------
RegionRecords ==
    [node : Nodes, file : {FileOf[n] : n \in Nodes} \cup {"", "unknownFilename"},
     shared : BOOLEAN, beingDeleted : BOOLEAN, baseImage : BOOLEAN]

RegionsTypeOK ==
    /\ os \in {"windows", "linux"}
    /\ left \in [Nodes -> Links] /\ right \in [Nodes -> Links] /\ root \in Nodes
    /\ table \in 0..TableLength \cup {Nil}
    /\ walk \in {"idle", "ready", "walking", "done", "failed"}
    /\ next \in Seq(Nodes)
    /\ visited \subseteq Nodes
    /\ regions \in Seq(RegionRecords)
    /\ changes \in 0..MaxChanges

\* A node gives at most one region, even if the guest links it a second time, above itself or below
\* a node that is still to be read: the memory of a region is scanned and dumped once.
RegionsOnce ==
    os = "windows" => \A i, j \in 1..Len(regions) : regions[i].node = regions[j].node => i = j

\* If the guest left its links alone, the regions are those of the nodes that can be reached: a node
\* that cannot be read hides those below it, one that cannot be described hides nothing else.
WalkComplete ==
    walk = "done" /\ changes = 0 =>
        {regions[i].node : i \in 1..Len(regions)} =
            {n \in Below(root) \ Unreadable : os = "windows" => Describable(n)}

\* IMemoryRegionExtractor.h:17: extractAllMemoryRegions "Provides a representation of all memory
\* regions for a specific process."
AllRegionsRepresented ==
    walk \in {"done", "failed"} /\ changes = 0 /\ Unreadable = {} =>
        \A n \in Below(root) :
            ReadableOf[n] = Objects => \E i \in 1..Len(regions) : regions[i].node = n

\* The walk ends, whatever the guest makes of its links meanwhile: on Linux only if it leaves no cycle
\* there, which would be walked forever.
WalkEnds ==
    <>(walk \in {"done", "failed"} \/ (os = "linux" /\ \E n \in Nodes : n \in Below(right[n])))
=============================================================================
